--------------------------- MODULE BackgroundProofs ---------------------------
(***************************************************************************)
(* Theorems about what goes on behind the requests: the history, for any   *)
(* number of requests, any recoveries among them and any capacity of the   *)
(* queue, and the containers, for any ports and any number of jobs.        *)
(***************************************************************************)
EXTENDS MCBackground, FiniteSetTheorems, FunctionTheorems, TLAPS

(***************************************************************************)
(* The history.  Commands and rows are changed by different tasks, and a   *)
(* completion that is applied directly overtakes queued ones.  What holds  *)
(* the properties together is where a request's commands can be at each    *)
(* stage of its capture: HistoryInv says that a command waits at most      *)
(* once, that the inbound payload is missing from a row as long as its     *)
(* Start waits, and that the row of an untroubled request is terminal once *)
(* its capture has been settled.                                           *)
(***************************************************************************)

\* The commands that are queued or in the writer's hand.
Waiting == {c \in Command : Pending(c)}

\* Rows whose stored bytes are accounted for; a running row has its Start.
GoodRow ==
  {NoRow} \cup
  {row \in Row : /\ row.bytes = row.inbound + row.response
                 /\ row.status = "running" => row.inbound = 1}

QueueInv ==
  /\ queue \in Seq(Command)
  /\ Len(queue) <= QueueCapacity
  /\ hand = {} \/ \E c \in Command : hand = {c}
  /\ \A i, j \in DOMAIN queue : queue[i] = queue[j] => i = j
  /\ \A i \in DOMAIN queue : queue[i] \notin hand

FieldsInv ==
  /\ enabled \in BOOLEAN /\ available \in BOOLEAN /\ writer \in BOOLEAN
  /\ capture \in [Request -> Stage]
  /\ record \in [Request -> CompletedRecord]
  /\ rows \in [Request -> GoodRow]
  /\ troubled \subseteq Request

Begun(q) == capture[q] \notin {"none", "off"}

\* What no trouble is needed for.
Placed(q) ==
  /\ Start(q) \in Waiting => Begun(q)
  /\ Complete(q) \in Waiting => capture[q] = "queued"
  /\ rows[q] # NoRow => Begun(q)
  /\ rows[q] # NoRow /\ Start(q) \in Waiting => rows[q].inbound = 0

\* What holds until a failure, a crash or a deletion hits the request.
Untroubled(q) ==
  /\ capture[q] # "lost"
  /\ capture[q] \in {"ended", "failing"} => Terminal(q)
  /\ Begun(q) /\ Start(q) \notin Waiting
       => record[q].incomplete \/ (rows[q] # NoRow /\ rows[q].inbound = 1)
  /\ Terminal(q)
       => Start(q) \in Waiting \/ rows[q].inbound = 1 \/ rows[q].incomplete

HistoryInv ==
  /\ QueueInv
  /\ FieldsInv
  /\ \A q \in Request : Placed(q)
  /\ \A q \in Request \ troubled : Untroubled(q)

-----------------------------------------------------------------------------
(* What becomes of the waiting commands.                                   *)

\* Commands are told apart by what they do and for whom.
LEMMA Commands ==
  ASSUME NEW r \in Request, NEW q \in Request
  PROVE  /\ Start(r) \in Command /\ Complete(r) \in Command
         /\ Start(r) # Complete(q)
         /\ Start(r) = Start(q) => r = q
         /\ Complete(r) = Complete(q) => r = q
BY DEF Command, Start, Complete

\* A step that leaves queue and hand alone.
LEMMA WaitingKept ==
  ASSUME QueueInv, UNCHANGED <<queue, hand>>
  PROVE  QueueInv' /\ Waiting' = Waiting
BY DEF QueueInv, Waiting, Pending

\* A command that is sent waits, if there was room for it.
LEMMA Sent ==
  ASSUME QueueInv, NEW c \in Command, c \notin Waiting, Send(c), UNCHANGED hand
  PROVE  /\ QueueInv'
         /\ Waiting' = IF CanSend THEN Waiting \cup {c} ELSE Waiting
<1>1. CASE CanSend
  <2>1. queue' = Append(queue, c)
    BY <1>1 DEF Send
  <2>2. /\ queue' \in Seq(Command)
        /\ Len(queue') = Len(queue) + 1
        /\ DOMAIN queue = 1 .. Len(queue)
        /\ DOMAIN queue' = 1 .. Len(queue) + 1
        /\ \A i \in 1 .. Len(queue) : queue'[i] = queue[i]
        /\ queue'[Len(queue) + 1] = c
    BY <2>1 DEF QueueInv
  <2>3. Len(queue') <= QueueCapacity
    BY <1>1, <2>2, HistoryAssumption DEF CanSend, QueueInv
  <2>4. \A i \in DOMAIN queue : queue[i] # c
    BY DEF Waiting, Pending
  <2>5. \A i, j \in DOMAIN queue' : queue'[i] = queue'[j] => i = j
    BY <2>2, <2>4 DEF QueueInv
  <2>6. c \notin hand
    BY DEF Waiting, Pending
  <2>7. QueueInv'
    BY <2>2, <2>3, <2>5, <2>6 DEF QueueInv
  <2>8. ASSUME NEW d \in Command
        PROVE  Pending(d)' <=> Pending(d) \/ d = c
    BY <2>2 DEF Pending, QueueInv
  <2> QED BY <1>1, <2>7, <2>8 DEF Waiting
<1>2. CASE ~CanSend
  <2>1. UNCHANGED <<queue, hand>>
    BY <1>2 DEF Send
  <2> QED BY <1>2, <2>1, WaitingKept
<1> QED BY <1>1, <1>2

\* The writer takes the head of the queue into its hand.
LEMMA Received ==
  ASSUME QueueInv, Receive
  PROVE  QueueInv' /\ Waiting' = Waiting
<1>1. /\ hand = {} /\ queue # <<>>
      /\ hand' = {Head(queue)} /\ queue' = Tail(queue)
  BY DEF Receive
<1>2. /\ Len(queue) \in Nat /\ Len(queue) >= 1
      /\ DOMAIN queue = 1 .. Len(queue)
      /\ Head(queue) = queue[1] /\ Head(queue) \in Command
  BY <1>1 DEF QueueInv
<1>3. /\ queue' \in Seq(Command)
      /\ Len(queue') = Len(queue) - 1
      /\ DOMAIN queue' = 1 .. Len(queue) - 1
      /\ \A i \in 1 .. Len(queue) - 1 : queue'[i] = queue[i + 1]
  BY <1>1, <1>2 DEF QueueInv
<1>4. Len(queue') <= QueueCapacity
  BY <1>2, <1>3, HistoryAssumption DEF QueueInv
<1>5. \A i, j \in DOMAIN queue' : queue'[i] = queue'[j] => i = j
  <2>1. ASSUME NEW i \in DOMAIN queue', NEW j \in DOMAIN queue', queue'[i] = queue'[j]
        PROVE  i = j
    <3>1. i + 1 \in DOMAIN queue /\ j + 1 \in DOMAIN queue /\ i \in Int /\ j \in Int
      BY <1>2, <1>3
    <3>2. queue[i + 1] = queue[j + 1]
      BY <1>3, <2>1
    <3>3. i + 1 = j + 1
      BY <3>1, <3>2 DEF QueueInv
    <3> QED BY <3>1, <3>3
  <2> QED BY <2>1
<1>6. \A i \in DOMAIN queue' : queue'[i] \notin hand'
  <2>1. ASSUME NEW i \in DOMAIN queue', queue'[i] = queue[1]
        PROVE  FALSE
    <3>1. i + 1 \in DOMAIN queue /\ 1 \in DOMAIN queue /\ i \in Nat /\ i >= 1
      BY <1>2, <1>3
    <3>2. queue[i + 1] = queue[1]
      BY <1>3, <2>1
    <3>3. i + 1 = 1
      BY <3>1, <3>2 DEF QueueInv
    <3> QED BY <3>1, <3>3
  <2> QED BY <1>1, <1>2, <2>1
<1>7. QueueInv'
  BY <1>1, <1>2, <1>3, <1>4, <1>5, <1>6 DEF QueueInv
<1>8. ASSUME NEW d \in Command
      PROVE  Pending(d)' <=> Pending(d)
  <2>1. ASSUME NEW i \in DOMAIN queue, queue[i] = d, i # 1
        PROVE  \E j \in DOMAIN queue' : queue'[j] = d
    <3>1. i - 1 \in DOMAIN queue' /\ queue'[i - 1] = queue[i]
      BY <1>2, <1>3, <2>1
    <3> QED BY <2>1, <3>1
  <2>2. ASSUME NEW j \in DOMAIN queue', queue'[j] = d
        PROVE  \E i \in DOMAIN queue : queue[i] = d
    <3>1. j + 1 \in DOMAIN queue /\ queue'[j] = queue[j + 1]
      BY <1>2, <1>3
    <3> QED BY <2>2, <3>1
  <2>3. 1 \in DOMAIN queue
    BY <1>2
  <2> QED BY <1>1, <1>2, <2>1, <2>2, <2>3 DEF Pending
<1> QED BY <1>7, <1>8 DEF Waiting

\* The command in the writer's hand was the only one of its kind.
LEMMA Written ==
  ASSUME QueueInv, NEW c \in Command, hand = {c}, hand' = {}, UNCHANGED queue
  PROVE  QueueInv' /\ Waiting' = Waiting \ {c} /\ c \in Waiting
BY DEF QueueInv, Waiting, Pending

\* The queue is gone with the process or its writer.
LEMMA Emptied ==
  ASSUME queue' = <<>>, hand' = {}
  PROVE  QueueInv' /\ Waiting' = {}
BY HistoryAssumption DEF QueueInv, Waiting, Pending

-----------------------------------------------------------------------------
(* The transactions on rows.                                               *)

\* A row that keeps what the invariant looks at, or is completed by a recovery.
Advanced(old, new) ==
  /\ old = NoRow <=> new = NoRow
  /\ old # NoRow => /\ new.inbound = old.inbound
                    /\ new.incomplete = old.incomplete
                    /\ new.status \in {old.status, "completed"}

\* Absent rows and those of the table are never confused.
LEMMA RowFacts ==
  /\ NoRow \notin Row
  /\ NoRow.status = "absent"
  /\ \A row \in GoodRow : row # NoRow => row \in Row
  /\ \A row \in GoodRow : row.status = "running" => row \in Row /\ row.inbound = 1
BY DEF NoRow, Row, GoodRow, Status, Ending

\* Of a row, its Start writes only the inbound payload.
LEMMA StartInserted ==
  ASSUME NEW db \in [Request -> GoodRow], NEW r \in Request,
         db[r] # NoRow => db[r].inbound = 0
  PROVE  /\ InsertStart(db, r) \in [Request -> GoodRow]
         /\ \A q \in Request \ {r} : InsertStart(db, r)[q] = db[q]
         /\ InsertStart(db, r)[r] # NoRow
         /\ InsertStart(db, r)[r].inbound = 1
         /\ db[r] # NoRow => /\ InsertStart(db, r)[r].status = db[r].status
                             /\ InsertStart(db, r)[r].incomplete = db[r].incomplete
<1>1. CASE db[r] = NoRow
  <2> DEFINE new == [status |-> "running", known |-> TRUE, inbound |-> 1,
                     response |-> 0, recovered |-> FALSE, incomplete |-> FALSE,
                     bytes |-> 1]
  <2>1. new \in Row
    BY DEF Row, Status
  <2>2. new \in GoodRow /\ new # NoRow
    BY <2>1, RowFacts DEF GoodRow
  <2>3. InsertStart(db, r) = [db EXCEPT ![r] = new]
    BY <1>1 DEF InsertStart
  <2>4. new.inbound = 1
    OBVIOUS
  <2> HIDE DEF new
  <2> QED BY <1>1, <2>2, <2>3, <2>4
<1>2. CASE db[r] # NoRow
  <2> DEFINE old == db[r]
             new == [old EXCEPT !.inbound = @ + 1, !.bytes = @ + 1]
  <2>1. /\ old \in Row /\ old.bytes = old.inbound + old.response
        /\ old.inbound = 0 /\ old.status # "running"
    BY <1>2, RowFacts DEF GoodRow
  <2>2. /\ new \in Row /\ new.bytes = new.inbound + new.response
        /\ new.inbound = 1 /\ new.status = old.status
        /\ new.incomplete = old.incomplete
    <3>1. /\ old.response \in 0 .. 1 /\ old.bytes = old.response
          /\ old.inbound + 1 = 1 /\ old.inbound + 1 \in 0 .. 1
          /\ old.bytes + 1 \in 0 .. 2 /\ old.bytes + 1 = 1 + old.response
      BY <2>1 DEF Row
    <3> QED BY <2>1, <3>1 DEF Row
  <2>3. InsertStart(db, r) = [db EXCEPT ![r] = new]
    BY <1>2 DEF InsertStart
  <2> HIDE DEF new
  <2>4. new \in GoodRow /\ new # NoRow
    BY <2>1, <2>2, RowFacts DEF GoodRow
  <2> QED BY <1>2, <2>2, <2>3, <2>4
<1> QED BY <1>1, <1>2

\* A completion makes its row terminal, and flags it as its record is.
LEMMA RowCompleted ==
  ASSUME NEW db \in [Request -> GoodRow], NEW r \in Request,
         record \in [Request -> CompletedRecord]
  PROVE  /\ Completed(db, r) \in [Request -> GoodRow]
         /\ \A q \in Request \ {r} : Completed(db, r)[q] = db[q]
         /\ Completed(db, r)[r] # NoRow
         /\ Completed(db, r)[r].status = record[r].status
         /\ Completed(db, r)[r].status # "running"
         /\ Completed(db, r)[r].incomplete = record[r].incomplete
         /\ Completed(db, r)[r].inbound =
              IF db[r] = NoRow THEN 0 ELSE db[r].inbound
<1> DEFINE c == record[r]
           known == IF db[r] = NoRow THEN FALSE ELSE db[r].known
           inbound == IF db[r] = NoRow THEN 0 ELSE db[r].inbound
           new == [status |-> c.status, known |-> known, inbound |-> inbound,
                   response |-> c.response, recovered |-> FALSE,
                   incomplete |-> c.incomplete, bytes |-> inbound + c.response]
<1>1. /\ c.status \in Ending /\ c.response \in 0 .. 1 /\ c.incomplete \in BOOLEAN
  BY DEF CompletedRecord
<1>2. known \in BOOLEAN /\ inbound \in 0 .. 1
  <2>1. CASE db[r] = NoRow
    BY <2>1
  <2>2. CASE db[r] # NoRow
    <3>1. db[r] \in Row
      BY <2>2, RowFacts
    <3>2. db[r].known \in BOOLEAN /\ db[r].inbound \in 0 .. 1
      BY <3>1 DEF Row
    <3> QED BY <2>2, <3>2
  <2> QED BY <2>1, <2>2
<1>3. inbound + c.response \in 0 .. 2
  BY <1>1, <1>2
<1>4. new \in Row /\ new.status # "running"
  BY <1>1, <1>2, <1>3 DEF Row, Status, Ending
<1>5. new \in GoodRow /\ new # NoRow
  BY <1>4, RowFacts DEF GoodRow
<1>6. Completed(db, r) = [db EXCEPT ![r] = new]
  BY DEF Completed
<1>7. /\ new.status = c.status /\ new.incomplete = c.incomplete
      /\ new.inbound = inbound
  OBVIOUS
<1> HIDE DEF new
<1> QED BY <1>4, <1>5, <1>6, <1>7

\* What a merge writes to a row.
LEMMA RowMerged ==
  ASSUME NEW old \in Row, NEW n \in 0 .. 2
  PROVE  LET new == [old EXCEPT !.status = "completed", !.recovered = TRUE,
                                !.response = 1, !.bytes = n]
         IN  /\ new \in Row /\ new.bytes = n /\ new.response = 1
             /\ new.status = "completed"
             /\ new.inbound = old.inbound /\ new.incomplete = old.incomplete
<1>1. "completed" \in Status /\ TRUE \in BOOLEAN /\ 1 \in 0 .. 1
  BY DEF Status, Ending
<1> QED BY <1>1 DEF Row

\* A merged recovery completes the row of its parent and counts its response.
LEMMA RecoveryMergedInto ==
  ASSUME NEW db \in [Request -> GoodRow], NEW r \in Request,
         record \in [Request -> CompletedRecord]
  PROVE  /\ MergeRecovery(db, r) \in [Request -> GoodRow]
         /\ MergeRecovery(db, r)[r] = db[r]
         /\ \A q \in Request : Advanced(db[q], MergeRecovery(db, r)[q])
<1>1. CASE MergeRecovery(db, r) = db
  BY <1>1, RowFacts DEF Advanced
<1>2. CASE MergeRecovery(db, r) # db
  <2> DEFINE p == Parent[r]
             old == db[p]
             n == old.bytes + 1 - old.response
             new == [old EXCEPT !.status = "completed", !.recovered = TRUE,
                                !.response = 1, !.bytes = n]
  <2>1. /\ p \in Request /\ p # r /\ old # NoRow
        /\ MergeRecovery(db, r) = [db EXCEPT ![p] = new]
    BY <1>2, HistoryAssumption DEF MergeRecovery
  <2>2. old \in Row /\ old.bytes = old.inbound + old.response
    BY <2>1, RowFacts DEF GoodRow
  <2>3. n = old.inbound + 1 /\ n \in 0 .. 2
    BY <2>2 DEF Row
  <2>4. /\ new \in Row /\ new.bytes = n /\ new.response = 1
        /\ new.status = "completed"
        /\ new.inbound = old.inbound /\ new.incomplete = old.incomplete
    BY <2>2, <2>3, RowMerged
  <2> HIDE DEF new
  <2>5. new \in GoodRow /\ new # NoRow
    BY <2>3, <2>4, RowFacts DEF GoodRow
  <2> QED BY <2>1, <2>4, <2>5 DEF Advanced
<1> QED BY <1>1, <1>2

\* Both together.
LEMMA RecordCompleted ==
  ASSUME NEW db \in [Request -> GoodRow], NEW r \in Request,
         record \in [Request -> CompletedRecord]
  PROVE  /\ CompleteRecord(db, r) \in [Request -> GoodRow]
         /\ CompleteRecord(db, r)[r] # NoRow
         /\ CompleteRecord(db, r)[r].status # "running"
         /\ CompleteRecord(db, r)[r].incomplete = record[r].incomplete
         /\ CompleteRecord(db, r)[r].inbound =
              IF db[r] = NoRow THEN 0 ELSE db[r].inbound
         /\ \A q \in Request \ {r} : Advanced(db[q], CompleteRecord(db, r)[q])
<1>1. Completed(db, r) \in [Request -> GoodRow]
  BY RowCompleted
<1> QED BY <1>1, RowCompleted, RecoveryMergedInto DEF CompleteRecord

\* Deleting rows.
LEMMA RowsWithout ==
  ASSUME NEW db \in [Request -> GoodRow], NEW gone \in SUBSET Request
  PROVE  /\ Without(db, gone) \in [Request -> GoodRow]
         /\ \A q \in gone : Without(db, gone)[q] = NoRow
         /\ \A q \in Request \ gone : Without(db, gone)[q] = db[q]
BY DEF Without, GoodRow

-----------------------------------------------------------------------------
(* Every action preserves HistoryInv.                                      *)

LEMMA InitInv == Init => HistoryInv
<1> SUFFICES ASSUME Init PROVE HistoryInv
  OBVIOUS
<1>1. QueueInv /\ Waiting = {}
  BY HistoryAssumption DEF Init, QueueInv, Waiting, Pending
<1>2. FieldsInv
  BY DEF Init, FieldsInv, Stage, CompletedRecord, Ending, GoodRow
<1>3. ASSUME NEW q \in Request PROVE Placed(q) /\ Untroubled(q)
  BY <1>1, <1>3, RowFacts DEF Init, Placed, Untroubled, Begun, Terminal
<1> QED BY <1>1, <1>2, <1>3 DEF HistoryInv

LEMMA BeginInv ==
  ASSUME HistoryInv, NEW r \in Request, Begin(r)
  PROVE  HistoryInv'
<1> USE DEF HistoryInv
<1>1. /\ capture[r] = "none" /\ UNCHANGED <<enabled, writer, hand, rows, troubled>>
      /\ ~Begun(r) /\ rows[r] = NoRow
      /\ Start(r) \in Command /\ Start(r) \notin Waiting /\ Complete(r) \notin Waiting
  BY Commands DEF Begin, Begun, Placed
<1>2. CASE enabled /\ available
  <2>1. /\ capture' = [capture EXCEPT ![r] = "open"]
        /\ record' = [record EXCEPT ![r].incomplete = ~CanSend]
        /\ Send(Start(r))
    BY <1>2 DEF Begin
  <2>2. QueueInv' /\ Waiting' = IF CanSend THEN Waiting \cup {Start(r)} ELSE Waiting
    BY <1>1, <2>1, Sent
  <2>3. /\ available' \in BOOLEAN /\ CanSend \in BOOLEAN
        /\ record[r] \in CompletedRecord
    BY <2>1 DEF Send, CanSend, FieldsInv
  <2>4. /\ record' \in [Request -> CompletedRecord]
        /\ record'[r].incomplete = ~CanSend
        /\ \A q \in Request \ {r} : record'[q] = record[q]
    BY <2>1, <2>3 DEF FieldsInv, CompletedRecord
  <2>5. FieldsInv'
    BY <1>1, <2>1, <2>3, <2>4 DEF FieldsInv, Stage
  <2>6. ASSUME NEW q \in Request
        PROVE  Placed(q)' /\ (q \notin troubled' => Untroubled(q)')
    <3>1. CASE q = r
      BY <1>1, <2>1, <2>2, <2>4, <3>1, Commands
         DEF FieldsInv, Placed, Untroubled, Begun, Terminal
    <3>2. CASE q # r
      <4>1. /\ Start(q) \in Waiting' <=> Start(q) \in Waiting
            /\ Complete(q) \in Waiting' <=> Complete(q) \in Waiting
        BY <2>2, <3>2, Commands
      <4> QED
        BY <1>1, <2>1, <2>4, <3>2, <4>1
           DEF FieldsInv, Placed, Untroubled, Begun, Terminal
    <3> QED BY <3>1, <3>2
  <2> QED BY <2>2, <2>5, <2>6
<1>3. CASE ~(enabled /\ available)
  <2>1. /\ capture' = [capture EXCEPT ![r] = "off"]
        /\ UNCHANGED <<record, queue, available>>
    BY <1>3 DEF Begin
  <2>2. QueueInv' /\ Waiting' = Waiting
    BY <1>1, <2>1, WaitingKept
  <2>3. FieldsInv'
    BY <1>1, <2>1 DEF FieldsInv, Stage
  <2>4. ASSUME NEW q \in Request
        PROVE  Placed(q)' /\ (q \notin troubled' => Untroubled(q)')
    BY <1>1, <2>1, <2>2, RowFacts
       DEF FieldsInv, Placed, Untroubled, Begun, Terminal
  <2> QED BY <2>2, <2>3, <2>4
<1> QED BY <1>2, <1>3

LEMMA FinishInv ==
  ASSUME HistoryInv, NEW r \in Request, NEW status \in Ending,
         NEW response \in 0 .. 1, Finish(r, status, response)
  PROVE  HistoryInv'
<1> USE DEF HistoryInv
<1>1. /\ capture[r] = "open" /\ UNCHANGED <<enabled, writer, hand, rows, troubled>>
      /\ record' = [record EXCEPT ![r].status = status, ![r].response = response]
      /\ capture' = [capture EXCEPT ![r] = IF CanSend THEN "queued" ELSE "direct"]
      /\ Send(Complete(r))
      /\ Complete(r) \in Command /\ Complete(r) \notin Waiting
  BY Commands DEF Finish, Placed
<1>2. QueueInv' /\ Waiting' = IF CanSend THEN Waiting \cup {Complete(r)} ELSE Waiting
  BY <1>1, Sent
<1>3. /\ record' \in [Request -> CompletedRecord]
      /\ \A q \in Request : record'[q].incomplete = record[q].incomplete
  <2>1. record[r] \in CompletedRecord
    BY DEF FieldsInv
  <2>2. [record[r] EXCEPT !.status = status, !.response = response] \in CompletedRecord
    BY <2>1 DEF CompletedRecord
  <2>3. record' = [record EXCEPT ![r] =
                     [record[r] EXCEPT !.status = status, !.response = response]]
    BY <1>1 DEF FieldsInv
  <2>4. [record[r] EXCEPT !.status = status, !.response = response].incomplete
          = record[r].incomplete
    BY <2>1 DEF CompletedRecord
  <2> QED BY <2>2, <2>3, <2>4 DEF FieldsInv
<1>4. available' \in BOOLEAN
  BY <1>1 DEF Send, FieldsInv
<1>5. FieldsInv'
  BY <1>1, <1>3, <1>4 DEF FieldsInv, Stage
<1>6. ASSUME NEW q \in Request
      PROVE  Placed(q)' /\ (q \notin troubled' => Untroubled(q)')
  <2>1. Start(q) \in Waiting' <=> Start(q) \in Waiting
    BY <1>2, Commands
  <2>2. Complete(q) \in Waiting' <=> Complete(q) \in Waiting \/ (q = r /\ CanSend)
    BY <1>2, Commands
  <2>3. CASE q = r
    <3>1. capture'[q] \in {"queued", "direct"} /\ Begun(q) /\ Begun(q)'
      BY <1>1, <2>3 DEF FieldsInv, Begun
    <3>2. CanSend => capture'[q] = "queued"
      BY <1>1, <2>3 DEF FieldsInv
    <3> QED
      BY <1>1, <1>3, <2>1, <2>2, <2>3, <3>1, <3>2 DEF Placed, Untroubled, Begun, Terminal
  <2>4. CASE q # r
    <3>1. capture'[q] = capture[q]
      BY <1>1, <2>4 DEF FieldsInv
    <3> QED
      BY <1>1, <1>3, <2>1, <2>2, <2>4, <3>1 DEF Placed, Untroubled, Begun, Terminal
  <2> QED BY <2>3, <2>4
<1> QED BY <1>2, <1>5, <1>6

\* A transaction that completes r and then may clean up: what it leaves of the
\* rows and of the other requests.
LEMMA CompletionInv ==
  ASSUME HistoryInv, NEW r \in Request, NEW gone \in SUBSET Request,
         rows' = Without(CompleteRecord(rows, r), gone),
         troubled' = troubled \cup gone,
         NEW stage \in Stage \ {"none", "off", "lost"},
         capture' = [capture EXCEPT ![r] = stage],
         Begun(r),
         Start(r) \in Waiting' <=> Start(r) \in Waiting,
         Complete(r) \in Waiting' => stage = "queued",
         \A q \in Request \ {r} :
           /\ Start(q) \in Waiting' <=> Start(q) \in Waiting
           /\ Complete(q) \in Waiting' <=> Complete(q) \in Waiting,
         UNCHANGED record
  PROVE  /\ rows' \in [Request -> GoodRow] /\ capture' \in [Request -> Stage]
         /\ troubled' \subseteq Request
         /\ \A q \in Request :
              Placed(q)' /\ (q \notin troubled' => Untroubled(q)')
<1> USE DEF HistoryInv
<1> DEFINE done == CompleteRecord(rows, r)
<1>1. /\ done \in [Request -> GoodRow]
      /\ done[r] # NoRow /\ done[r].status # "running"
      /\ done[r].incomplete = record[r].incomplete
      /\ done[r].inbound = IF rows[r] = NoRow THEN 0 ELSE rows[r].inbound
      /\ \A q \in Request \ {r} : Advanced(rows[q], done[q])
  BY RecordCompleted DEF FieldsInv
<1> HIDE DEF done
<1>2. /\ rows' \in [Request -> GoodRow]
      /\ \A q \in gone : rows'[q] = NoRow
      /\ \A q \in Request \ gone : rows'[q] = done[q]
  BY <1>1, RowsWithout DEF done
<1>3. capture' \in [Request -> Stage] /\ troubled' \subseteq Request
  BY DEF FieldsInv
<1>4. ASSUME NEW q \in Request
      PROVE  Placed(q)' /\ (q \notin troubled' => Untroubled(q)')
  <2>1. CASE q = r
    <3>1. capture'[q] = stage /\ Begun(q)'
      BY <2>1 DEF FieldsInv, Begun
    <3>2. Placed(q)'
      <4>1. rows'[q] # NoRow /\ Start(q) \in Waiting' => rows'[q].inbound = 0
        <5>1. SUFFICES ASSUME rows'[q] # NoRow, Start(q) \in Waiting
                       PROVE  done[q].inbound = 0
          BY <1>2, <2>1
        <5>2. CASE rows[q] # NoRow
          BY <1>1, <2>1, <5>1, <5>2 DEF Placed
        <5>3. CASE rows[q] = NoRow
          BY <1>1, <2>1, <5>3
        <5> QED BY <5>2, <5>3
      <4> QED BY <2>1, <3>1, <4>1 DEF Placed
    <3>3. ASSUME q \notin troubled' PROVE Untroubled(q)'
      <4>1. rows'[q] = done[q] /\ Untroubled(q)
        BY <1>2, <3>3
      <4>2. Terminal(q)'
        BY <1>1, <2>1, <4>1 DEF Terminal
      <4>3. Start(q) \notin Waiting =>
              record[q].incomplete \/ (rows'[q] # NoRow /\ rows'[q].inbound = 1)
        BY <1>1, <2>1, <4>1 DEF Untroubled
      <4> QED
        BY <1>1, <2>1, <3>1, <4>1, <4>2, <4>3 DEF Untroubled
    <3> QED BY <3>2, <3>3
  <2>2. CASE q # r
    <3>1. capture'[q] = capture[q] /\ (Begun(q)' <=> Begun(q))
      BY <2>2 DEF FieldsInv, Begun
    <3>2. Advanced(rows[q], done[q])
      BY <1>1, <2>2
    <3>3. /\ Start(q) \in Waiting' <=> Start(q) \in Waiting
          /\ Complete(q) \in Waiting' <=> Complete(q) \in Waiting
      BY <2>2
    <3>4. Placed(q)'
      BY <1>2, <3>1, <3>2, <3>3 DEF Placed, Advanced
    <3>5. ASSUME q \notin troubled' PROVE Untroubled(q)'
      <4>1. rows'[q] = done[q] /\ Untroubled(q) /\ Placed(q) /\ rows[q] \in GoodRow
        BY <1>2, <3>5 DEF FieldsInv
      <4>2. Terminal(q) => Terminal(q)'
        BY <3>2, <4>1 DEF Terminal, Advanced
      <4>3. Terminal(q)' =>
              Start(q) \in Waiting \/ rows'[q].inbound = 1 \/ rows'[q].incomplete
        <5>1. CASE Terminal(q)
          BY <3>2, <4>1, <5>1 DEF Untroubled, Advanced, Terminal
        <5>2. CASE ~Terminal(q)
          BY <3>2, <4>1, <5>2, RowFacts DEF Advanced, Terminal
        <5> QED BY <5>1, <5>2
      <4> QED
        BY <3>1, <3>2, <3>3, <4>1, <4>2, <4>3 DEF Untroubled, Advanced
    <3> QED BY <3>4, <3>5
  <2> QED BY <2>1, <2>2
<1> QED BY <1>2, <1>3, <1>4

LEMMA ApplyDirectlyInv ==
  ASSUME HistoryInv, NEW r \in Request, NEW stored \in BOOLEAN,
         NEW cleaned \in BOOLEAN, ApplyDirectly(r, stored, cleaned)
  PROVE  HistoryInv'
<1> DEFINE stage == IF stored /\ cleaned THEN "ended" ELSE "failing"
<1>1. /\ capture[r] = "direct" /\ UNCHANGED <<enabled, available, writer, queue, hand, record>>
      /\ capture' = [capture EXCEPT ![r] = stage]
      /\ stage \in Stage \ {"none", "off", "lost"}
      /\ Begun(r) /\ Complete(r) \notin Waiting
  BY DEF ApplyDirectly, HistoryInv, Placed, Begun, Stage
<1>2. QueueInv' /\ Waiting' = Waiting
  BY <1>1, WaitingKept DEF HistoryInv
<1>3. CASE stored
  <2>1. PICK gone \in SUBSET Request :
          /\ rows' = Without(CompleteRecord(rows, r), gone)
          /\ troubled' = troubled \cup gone
    BY <1>3 DEF ApplyDirectly, Stored
  <2> HIDE DEF stage
  <2>2. /\ rows' \in [Request -> GoodRow] /\ capture' \in [Request -> Stage]
        /\ troubled' \subseteq Request
        /\ \A q \in Request : Placed(q)' /\ (q \notin troubled' => Untroubled(q)')
    BY <1>1, <1>2, <2>1, CompletionInv
  <2> QED BY <1>1, <1>2, <2>2 DEF HistoryInv, FieldsInv
<1>4. CASE ~stored
  <2>1. troubled' = troubled \cup {r} /\ UNCHANGED rows
    BY <1>4 DEF ApplyDirectly
  <2> HIDE DEF stage
  <2>2. FieldsInv'
    BY <1>1, <2>1 DEF HistoryInv, FieldsInv
  <2>3. ASSUME NEW q \in Request
        PROVE  Placed(q)' /\ (q \notin troubled' => Untroubled(q)')
    <3>1. Begun(q)' <=> Begun(q)
      BY <1>1 DEF HistoryInv, FieldsInv, Begun
    <3>2. q # r => capture'[q] = capture[q]
      BY <1>1 DEF HistoryInv, FieldsInv
    <3> QED
      BY <1>1, <1>2, <2>1, <3>1, <3>2 DEF HistoryInv, Placed, Untroubled, Terminal
  <2> QED BY <1>2, <2>2, <2>3 DEF HistoryInv
<1> QED BY <1>3, <1>4

\* The row of a failing request is terminal unless the request is troubled.
LEMMA MarkFailedInv ==
  ASSUME HistoryInv, NEW r \in Request, NEW ok \in BOOLEAN, MarkFailed(r, ok)
  PROVE  HistoryInv'
<1> USE DEF HistoryInv
<1>1. /\ capture[r] = "failing" /\ capture' = [capture EXCEPT ![r] = "ended"]
      /\ UNCHANGED <<enabled, available, writer, queue, hand, record, troubled>>
  BY DEF MarkFailed
<1>2. QueueInv' /\ Waiting' = Waiting
  BY <1>1, WaitingKept
<1>3. rows' \in [Request -> GoodRow]
      /\ \A q \in Request :
           /\ Terminal(q) => rows'[q] = rows[q]
           /\ rows[q] = NoRow <=> rows'[q] = NoRow
           /\ rows'[q].inbound = rows[q].inbound
           /\ q # r => rows'[q] = rows[q]
  <2>1. CASE ok /\ rows[r].status = "running"
    <3> DEFINE old == rows[r]
               new == [old EXCEPT !.status = "failed", !.incomplete = TRUE]
    <3>1. old \in Row /\ old.bytes = old.inbound + old.response /\ old # NoRow
      BY <2>1, RowFacts DEF FieldsInv, GoodRow
    <3>2. "failed" \in Status /\ TRUE \in BOOLEAN /\ "failed" # "running"
      BY DEF Status, Ending
    <3>3. /\ new \in Row /\ new.bytes = new.inbound + new.response
          /\ new.inbound = old.inbound /\ new.status # "running"
      BY <3>1, <3>2 DEF Row
    <3>4. rows' = [rows EXCEPT ![r] = new]
      BY <2>1 DEF MarkFailed
    <3> HIDE DEF new
    <3>5. new \in GoodRow /\ new # NoRow
      BY <3>3, RowFacts DEF GoodRow
    <3> QED BY <2>1, <3>1, <3>3, <3>4, <3>5 DEF FieldsInv, Terminal
  <2>2. CASE ~(ok /\ rows[r].status = "running")
    BY <2>2 DEF MarkFailed, FieldsInv
  <2> QED BY <2>1, <2>2
<1>4. FieldsInv'
  BY <1>1, <1>3 DEF FieldsInv, Stage
<1>5. ASSUME NEW q \in Request
      PROVE  Placed(q)' /\ (q \notin troubled' => Untroubled(q)')
  <2>1. Begun(q)' <=> Begun(q)
    BY <1>1 DEF FieldsInv, Begun
  <2>2. Placed(q)'
    BY <1>1, <1>2, <1>3, <2>1 DEF FieldsInv, Placed
  <2>3. ASSUME q \notin troubled' PROVE Untroubled(q)'
    <3>1. Untroubled(q) /\ (q = r => Terminal(q))
      BY <1>1, <2>3 DEF Untroubled
    <3>2. CASE Terminal(q)
      <4>1. rows'[q] = rows[q] /\ Terminal(q)'
        BY <1>3, <3>2 DEF Terminal
      <4>2. capture'[q] # "lost"
        BY <1>1, <3>1 DEF FieldsInv, Untroubled
      <4> QED BY <1>1, <1>2, <2>1, <3>1, <3>2, <4>1, <4>2 DEF Untroubled
    <3>3. CASE ~Terminal(q)
      <4>1. q # r
        BY <3>1, <3>3
      <4>2. rows'[q] = rows[q] /\ capture'[q] = capture[q]
        BY <1>1, <1>3, <4>1 DEF FieldsInv
      <4> QED BY <1>1, <1>2, <2>1, <3>1, <4>2 DEF Untroubled, Terminal
    <3> QED BY <3>2, <3>3
  <2> QED BY <2>2, <2>3
<1> QED BY <1>2, <1>4, <1>5

LEMMA ReceiveInv ==
  ASSUME HistoryInv, Receive
  PROVE  HistoryInv'
<1>1. QueueInv' /\ Waiting' = Waiting
  BY Received DEF HistoryInv
<1>2. UNCHANGED <<enabled, available, writer, capture, record, rows, troubled>>
  BY DEF Receive
<1> QED
  BY <1>1, <1>2 DEF HistoryInv, FieldsInv, Placed, Untroubled, Begun, Terminal

\* The Start that is written brings the inbound payload, or trouble.
LEMMA WriteStartInv ==
  ASSUME HistoryInv, NEW r \in Request, NEW ok \in BOOLEAN, WriteStart(r, ok)
  PROVE  HistoryInv'
<1> USE DEF HistoryInv
<1>1. /\ hand = {Start(r)} /\ hand' = {}
      /\ UNCHANGED <<enabled, available, writer, queue, capture, record>>
      /\ Start(r) \in Command
  BY Commands DEF WriteStart
<1>2. QueueInv' /\ Waiting' = Waiting \ {Start(r)} /\ Start(r) \in Waiting
  BY <1>1, Written
<1>3. ASSUME NEW q \in Request
      PROVE  /\ Start(q) \in Waiting' <=> Start(q) \in Waiting /\ q # r
             /\ Complete(q) \in Waiting' <=> Complete(q) \in Waiting
             /\ Begun(q)' <=> Begun(q)
  BY <1>1, <1>2, Commands DEF Begun
<1>4. Begun(r) /\ (rows[r] # NoRow => rows[r].inbound = 0)
  BY <1>2 DEF Placed
<1>5. CASE ok
  <2>1. rows' = InsertStart(rows, r) /\ troubled' = troubled
    BY <1>5 DEF WriteStart
  <2>2. /\ rows' \in [Request -> GoodRow]
        /\ \A q \in Request \ {r} : rows'[q] = rows[q]
        /\ rows'[r] # NoRow
        /\ rows'[r].inbound = 1
        /\ rows[r] # NoRow => /\ rows'[r].status = rows[r].status
                              /\ rows'[r].incomplete = rows[r].incomplete
    BY <1>4, <2>1, StartInserted DEF FieldsInv
  <2>3. FieldsInv'
    BY <1>1, <2>1, <2>2 DEF FieldsInv
  <2>4. ASSUME NEW q \in Request
        PROVE  Placed(q)' /\ (q \notin troubled' => Untroubled(q)')
    <3>1. CASE q = r
      <4>1. Placed(q)'
        BY <1>1, <1>3, <1>4, <3>1 DEF Placed
      <4>2. ASSUME q \notin troubled' PROVE Untroubled(q)'
        BY <1>1, <1>3, <2>1, <2>2, <3>1, <4>2 DEF Untroubled, Terminal
      <4> QED BY <4>1, <4>2
    <3>2. CASE q # r
      BY <1>1, <1>3, <2>1, <2>2, <3>2 DEF Placed, Untroubled, Terminal
    <3> QED BY <3>1, <3>2
  <2> QED BY <1>2, <2>3, <2>4
<1>6. CASE ~ok
  <2>1. troubled' = troubled \cup {r} /\ UNCHANGED rows
    BY <1>6 DEF WriteStart
  <2>2. FieldsInv'
    BY <1>1, <2>1 DEF FieldsInv
  <2>3. ASSUME NEW q \in Request
        PROVE  Placed(q)' /\ (q \notin troubled' => Untroubled(q)')
    BY <1>1, <1>3, <2>1 DEF Placed, Untroubled, Terminal
  <2> QED BY <1>2, <2>2, <2>3
<1> QED BY <1>5, <1>6

LEMMA WriteCompleteInv ==
  ASSUME HistoryInv, NEW r \in Request, NEW ok \in BOOLEAN, WriteComplete(r, ok)
  PROVE  HistoryInv'
<1>1. /\ hand = {Complete(r)} /\ hand' = {}
      /\ capture' = [capture EXCEPT ![r] = "ended"]
      /\ UNCHANGED <<enabled, available, writer, queue, record>>
      /\ Complete(r) \in Command
  BY Commands DEF WriteComplete
<1>2. /\ QueueInv' /\ Waiting' = Waiting \ {Complete(r)} /\ Complete(r) \in Waiting
  BY <1>1, Written DEF HistoryInv
<1>3. /\ capture[r] = "queued" /\ Begun(r)
      /\ "ended" \in Stage \ {"none", "off", "lost"}
  BY <1>2 DEF HistoryInv, Placed, Begun, Stage
<1>4. /\ Complete(r) \notin Waiting'
      /\ \A q \in Request : Start(q) \in Waiting' <=> Start(q) \in Waiting
      /\ \A q \in Request \ {r} : Complete(q) \in Waiting' <=> Complete(q) \in Waiting
  BY <1>2, Commands
<1>5. CASE ok
  <2>1. PICK gone \in SUBSET Request :
          /\ rows' = Without(CompleteRecord(rows, r), gone)
          /\ troubled' = troubled \cup gone
    BY <1>5 DEF WriteComplete, Stored
  <2>2. /\ rows' \in [Request -> GoodRow] /\ capture' \in [Request -> Stage]
        /\ troubled' \subseteq Request
        /\ \A q \in Request : Placed(q)' /\ (q \notin troubled' => Untroubled(q)')
    BY <1>1, <1>3, <1>4, <2>1, CompletionInv
  <2> QED BY <1>1, <1>2, <2>2 DEF HistoryInv, FieldsInv
<1>6. CASE ~ok
  <2>1. troubled' = troubled \cup {r} /\ UNCHANGED rows
    BY <1>6 DEF WriteComplete
  <2>2. FieldsInv'
    BY <1>1, <2>1 DEF HistoryInv, FieldsInv, Stage
  <2>3. ASSUME NEW q \in Request
        PROVE  Placed(q)' /\ (q \notin troubled' => Untroubled(q)')
    <3>1. Begun(q)' <=> Begun(q)
      BY <1>1, <1>3 DEF HistoryInv, FieldsInv, Begun
    <3>2. q # r => capture'[q] = capture[q]
      BY <1>1 DEF HistoryInv, FieldsInv
    <3> QED
      BY <1>1, <1>4, <2>1, <3>1, <3>2 DEF HistoryInv, Placed, Untroubled, Terminal
  <2> QED BY <1>2, <2>2, <2>3 DEF HistoryInv
<1> QED BY <1>5, <1>6

\* The commands that die with the writer trouble their requests.
LEMMA WriterDiesInv ==
  ASSUME HistoryInv, WriterDies
  PROVE  HistoryInv'
<1> USE DEF HistoryInv
<1> DEFINE pending == {queue[i] : i \in DOMAIN queue} \cup hand
<1>1. /\ writer' = FALSE /\ queue' = <<>> /\ hand' = {}
      /\ troubled' = troubled \cup {c.request : c \in pending}
      /\ capture' = [q \in Request |->
                       IF Complete(q) \in pending THEN "lost" ELSE capture[q]]
      /\ UNCHANGED <<enabled, available, record, rows>>
  BY DEF WriterDies
<1>2. QueueInv' /\ Waiting' = {}
  BY <1>1, Emptied
<1>3. pending \subseteq Command /\ pending = Waiting
  <2>1. pending \subseteq Command
    BY DEF QueueInv
  <2>2. \A c \in Command : c \in pending <=> Pending(c)
    BY DEF Pending
  <2> QED BY <2>1, <2>2 DEF Waiting
<1> HIDE DEF pending
<1>4. {c.request : c \in pending} \subseteq Request
  BY <1>3 DEF Command
<1>5. FieldsInv'
  BY <1>1, <1>4 DEF FieldsInv, Stage
<1>6. ASSUME NEW q \in Request
      PROVE  Placed(q)' /\ (q \notin troubled' => Untroubled(q)')
  <2>1. Begun(q) => Begun(q)'
    BY <1>1 DEF Begun
  <2>2. Placed(q)'
    BY <1>1, <1>2, <2>1 DEF Placed
  <2>3. ASSUME q \notin troubled' PROVE Untroubled(q)'
    <3>1. Start(q) \notin Waiting /\ Complete(q) \notin Waiting
      BY <1>1, <1>3, <2>3 DEF Start, Complete
    <3>2. capture'[q] = capture[q] /\ Untroubled(q)
      BY <1>1, <1>3, <2>3, <3>1
    <3> QED
      BY <1>1, <1>2, <3>1, <3>2 DEF Untroubled, Begun, Terminal
  <2> QED BY <2>2, <2>3
<1> QED BY <1>2, <1>5, <1>6

\* Rows that are removed trouble their requests.
LEMMA RemoveInv ==
  ASSUME HistoryInv, NEW gone \in SUBSET Request, DropRows(gone), enabled' \in BOOLEAN,
         UNCHANGED <<available, writer, queue, hand, capture, record>>
  PROVE  HistoryInv'
<1>1. QueueInv' /\ Waiting' = Waiting
  BY WaitingKept DEF HistoryInv
<1>2. /\ rows' \in [Request -> GoodRow]
      /\ \A q \in gone : rows'[q] = NoRow
      /\ \A q \in Request \ gone : rows'[q] = rows[q]
      /\ troubled' = troubled \cup gone
  BY RowsWithout DEF DropRows, HistoryInv, FieldsInv
<1>3. FieldsInv'
  BY <1>2 DEF HistoryInv, FieldsInv
<1>4. ASSUME NEW q \in Request
      PROVE  Placed(q)' /\ (q \notin troubled' => Untroubled(q)')
  <2>1. Begun(q)' <=> Begun(q)
    BY DEF Begun
  <2>2. q \in gone \/ rows'[q] = rows[q]
    BY <1>2
  <2> QED
    BY <1>1, <1>2, <2>1, <2>2 DEF HistoryInv, Placed, Untroubled, Terminal
<1> QED BY <1>1, <1>3, <1>4 DEF HistoryInv

\* A restart closes the rows it finds running and forgets what was on its way.
LEMMA RestartInv ==
  ASSUME HistoryInv, NEW gone \in SUBSET Request, NEW ok \in BOOLEAN, Restart(ok, gone)
  PROVE  HistoryInv'
<1> USE DEF HistoryInv
<1> DEFINE closed == [q \in Request |->
                        IF rows[q].status = "running"
                        THEN [rows[q] EXCEPT !.status = "interrupted",
                                             !.incomplete = TRUE]
                        ELSE rows[q]]
           settled == {"none", "off", "ended"}
<1>1. /\ available' = ok /\ writer' = ok /\ queue' = <<>> /\ hand' = {}
      /\ capture' = [q \in Request |->
                       IF capture[q] \in settled THEN capture[q] ELSE "lost"]
      /\ rows' = IF ok THEN Without(closed, gone) ELSE rows
      /\ troubled' = troubled \cup gone \cup
                       {q \in Request : \/ capture[q] \in Stage \ settled
                                        \/ Start(q) \in hand
                                        \/ \E i \in DOMAIN queue : queue[i] = Start(q)}
      /\ enabled' \in BOOLEAN /\ UNCHANGED record
  BY DEF Restart
<1>2. QueueInv' /\ Waiting' = {}
  BY <1>1, Emptied
<1>3. ASSUME NEW q \in Request
      PROVE  /\ closed[q] \in GoodRow
             /\ closed[q] # NoRow <=> rows[q] # NoRow
             /\ Terminal(q) => closed[q] = rows[q]
  <2>1. CASE rows[q].status = "running"
    <3> DEFINE old == rows[q]
               new == [old EXCEPT !.status = "interrupted", !.incomplete = TRUE]
    <3>1. old \in Row /\ old.bytes = old.inbound + old.response /\ old # NoRow
      BY <2>1, RowFacts DEF FieldsInv, GoodRow
    <3>2. "interrupted" \in Status /\ TRUE \in BOOLEAN /\ "interrupted" # "running"
      BY DEF Status
    <3>3. /\ new \in Row /\ new.bytes = new.inbound + new.response
          /\ new.status # "running"
      BY <3>1, <3>2 DEF Row
    <3>4. closed[q] = new
      BY <2>1
    <3> HIDE DEF new, closed
    <3>5. new \in GoodRow /\ new # NoRow
      BY <3>3, RowFacts DEF GoodRow
    <3> QED BY <2>1, <3>1, <3>4, <3>5 DEF Terminal
  <2>2. CASE rows[q].status # "running"
    BY <2>2 DEF FieldsInv
  <2> QED BY <2>1, <2>2
<1>4. closed \in [Request -> GoodRow]
  BY <1>3
<1> HIDE DEF closed
<1>5. /\ rows' \in [Request -> GoodRow]
      /\ \A q \in Request :
           /\ rows'[q] # NoRow => rows[q] # NoRow
           /\ Terminal(q) /\ q \notin gone => rows'[q] = rows[q]
  <2>1. CASE ok
    BY <1>1, <1>3, <1>4, <2>1, RowsWithout
  <2>2. CASE ~ok
    BY <1>1, <2>2 DEF FieldsInv
  <2> QED BY <2>1, <2>2
<1>6. FieldsInv'
  BY <1>1, <1>5 DEF FieldsInv, Stage
<1>7. ASSUME NEW q \in Request
      PROVE  Placed(q)' /\ (q \notin troubled' => Untroubled(q)')
  <2>1. Begun(q)' <=> Begun(q)
    BY <1>1 DEF Begun
  <2>2. Placed(q)'
    BY <1>2, <1>5, <2>1 DEF Placed
  <2>3. ASSUME q \notin troubled' PROVE Untroubled(q)'
    <3>1. /\ q \notin gone /\ capture[q] \in settled /\ capture'[q] = capture[q]
          /\ Start(q) \notin Waiting /\ Untroubled(q)
      BY <1>1, <2>3, Commands DEF FieldsInv, Waiting, Pending
    <3>2. CASE Begun(q)
      <4>1. Terminal(q) /\ rows'[q] = rows[q]
        BY <1>5, <3>1, <3>2 DEF Begun, Untroubled
      <4> QED BY <1>1, <1>2, <2>1, <3>1, <4>1 DEF Untroubled, Terminal
    <3>3. CASE ~Begun(q)
      <4>1. rows[q] = NoRow /\ rows'[q] = NoRow
        BY <1>5, <3>3 DEF Placed
      <4> QED BY <2>1, <3>1, <3>3, <4>1 DEF Untroubled, Terminal, Begun
    <3> QED BY <3>2, <3>3
  <2> QED BY <2>2, <2>3
<1> QED BY <1>2, <1>6, <1>7

LEMMA NextInv == HistoryInv /\ [Next]_vars => HistoryInv'
<1> SUFFICES ASSUME HistoryInv, [Next]_vars
             PROVE  HistoryInv'
  OBVIOUS
<1>1. ASSUME NEW r \in Request, Begin(r) PROVE HistoryInv'
  BY <1>1, BeginInv
<1>2. ASSUME NEW r \in Request, Ends(r) PROVE HistoryInv'
  BY <1>2, FinishInv DEF Ends
<1>3. ASSUME NEW r \in Request, Applies(r) PROVE HistoryInv'
  BY <1>3, ApplyDirectlyInv DEF Applies
<1>4. ASSUME NEW r \in Request, Delete(r) PROVE HistoryInv'
  <2>1. PICK gone \in SUBSET Request : DropRows(gone)
    BY <1>4 DEF Delete, Stored
  <2> QED BY <1>4, <2>1, RemoveInv DEF Delete, HistoryInv, FieldsInv
<1>5. ASSUME NEW r \in Request, NEW ok \in BOOLEAN, MarkFailed(r, ok)
      PROVE  HistoryInv'
  BY <1>5, MarkFailedInv
<1>6. ASSUME Receive PROVE HistoryInv'
  BY <1>6, ReceiveInv
<1>7. ASSUME Writes PROVE HistoryInv'
  BY <1>7, WriteStartInv, WriteCompleteInv DEF Writes
<1>8. ASSUME WriterDies PROVE HistoryInv'
  BY <1>8, WriterDiesInv
<1>9. ASSUME NEW gone \in SUBSET Stored(rows), Purge(gone) PROVE HistoryInv'
  BY <1>9, RemoveInv DEF Purge, Stored, HistoryInv, FieldsInv
<1>10. ASSUME NEW gone \in SUBSET Stored(rows), NEW on \in BOOLEAN,
              UpdateSettings(on, gone)
       PROVE  HistoryInv'
  BY <1>10, RemoveInv DEF UpdateSettings, Stored
<1>11. ASSUME NEW gone \in SUBSET Stored(rows), NEW ok \in BOOLEAN,
              Restart(ok, gone)
       PROVE  HistoryInv'
  BY <1>11, RestartInv DEF Stored
<1>12. ASSUME UNCHANGED vars PROVE HistoryInv'
  BY <1>12 DEF vars, HistoryInv, QueueInv, FieldsInv, Placed, Untroubled, Begun,
               Terminal, Waiting, Pending
<1> QED
  BY <1>1, <1>2, <1>3, <1>4, <1>5, <1>6, <1>7, <1>8, <1>9, <1>10, <1>11, <1>12
     DEF Next

-----------------------------------------------------------------------------
(* The theorems.                                                           *)

\* The strengthened invariant holds in every state.
THEOREM HistoryInvariant == Spec => []HistoryInv
BY InitInv, NextInv, PTL DEF Spec

\* Every state is well-typed: the queue never exceeds history_queue_capacity
\* and the writer holds one command at a time.
THEOREM HistoryTypeCorrect == Spec => []TypeOK
<1>1. HistoryInv => TypeOK
  <2> SUFFICES ASSUME HistoryInv PROVE TypeOK
    OBVIOUS
  <2>1. hand \subseteq Command /\ Cardinality(hand) <= 1
    <3>1. CASE hand = {}
      BY <3>1, FS_EmptySet
    <3>2. CASE \E c \in Command : hand = {c}
      BY <3>2, FS_Singleton
    <3> QED BY <3>1, <3>2 DEF HistoryInv, QueueInv
  <2>2. rows \in [Request -> Row \cup {NoRow}]
    BY DEF HistoryInv, FieldsInv, GoodRow
  <2> QED BY <2>1, <2>2 DEF HistoryInv, QueueInv, FieldsInv, TypeOK
<1> QED BY <1>1, HistoryInvariant, PTL

\* stored_bytes is what the contents of the row weigh, in whatever order its
\* Start, its Complete and the merges of recoveries were applied.
THEOREM BytesStayAccounted == Spec => []BytesAccounted
<1>1. HistoryInv => BytesAccounted
  BY DEF HistoryInv, FieldsInv, GoodRow, BytesAccounted, Stored
<1> QED BY <1>1, HistoryInvariant, PTL

\* No order of queued and direct commands leaves a row running for ever.
THEOREM RunningRowsEnd == Spec => []RunningRowWillEnd
<1>1. HistoryInv => RunningRowWillEnd
  <2> SUFFICES ASSUME HistoryInv, NEW r \in Request \ troubled,
                      rows[r].status = "running"
               PROVE  capture[r] \in {"open", "queued", "direct"}
    BY DEF RunningRowWillEnd
  <2>1. capture[r] \in Stage /\ Placed(r) /\ Untroubled(r) /\ rows[r] \in GoodRow
    BY DEF HistoryInv, FieldsInv
  <2>2. rows[r] # NoRow /\ ~Terminal(r)
    BY RowFacts DEF Terminal
  <2> QED BY <2>1, <2>2 DEF Placed, Untroubled, Begun, Stage
<1> QED BY <1>1, HistoryInvariant, PTL

\* A record without its inbound payload is flagged once its Start is settled.
THEOREM MissingInboundIsFlagged == Spec => []MissingInboundFlagged
<1>1. HistoryInv => MissingInboundFlagged
  BY Commands DEF HistoryInv, Untroubled, MissingInboundFlagged, Waiting
<1> QED BY <1>1, HistoryInvariant, PTL

\* Whatever a step does to a terminal row, short of deleting it, leaves it
\* terminal.
StaysTerminal(q) == Terminal(q) /\ rows'[q] # NoRow => Terminal(q)'

\* A completion that the cleanup may follow.
LEMMA CompletionKeepsTerminal ==
  ASSUME FieldsInv, NEW r \in Request, NEW gone \in SUBSET Request,
         rows' = Without(CompleteRecord(rows, r), gone), NEW q \in Request
  PROVE  StaysTerminal(q)
<1> DEFINE done == CompleteRecord(rows, r)
<1>1. /\ done \in [Request -> GoodRow]
      /\ done[r].status # "running"
      /\ q # r => Advanced(rows[q], done[q])
  BY RecordCompleted DEF FieldsInv
<1> HIDE DEF done
<1>2. rows'[q] # NoRow => rows'[q] = done[q]
  BY <1>1, RowsWithout DEF done
<1> QED BY <1>1, <1>2 DEF StaysTerminal, Terminal, Advanced

\* A deletion.
LEMMA RemovalKeepsTerminal ==
  ASSUME FieldsInv, NEW gone \in SUBSET Request, DropRows(gone), NEW q \in Request
  PROVE  StaysTerminal(q)
BY RowsWithout DEF FieldsInv, DropRows, StaysTerminal, Terminal

LEMMA StepKeepsTerminal ==
  ASSUME HistoryInv, [Next]_vars, NEW q \in Request
  PROVE  StaysTerminal(q)
<1> USE DEF HistoryInv
<1>1. ASSUME UNCHANGED rows PROVE StaysTerminal(q)
  BY <1>1 DEF StaysTerminal, Terminal
<1>2. ASSUME NEW r \in Request, Begin(r) \/ Ends(r) PROVE StaysTerminal(q)
  BY <1>1, <1>2 DEF Begin, Ends, Finish
<1>3. ASSUME NEW r \in Request, Applies(r) PROVE StaysTerminal(q)
  <2>1. PICK stored \in BOOLEAN, cleaned \in BOOLEAN : ApplyDirectly(r, stored, cleaned)
    BY <1>3 DEF Applies
  <2>2. CASE stored
    <3>1. PICK gone \in SUBSET Request :
            rows' = Without(CompleteRecord(rows, r), gone)
      BY <2>1, <2>2 DEF ApplyDirectly, Stored
    <3> QED BY <3>1, CompletionKeepsTerminal
  <2>3. CASE ~stored
    BY <1>1, <2>1, <2>3 DEF ApplyDirectly
  <2> QED BY <2>2, <2>3
<1>4. ASSUME NEW r \in Request, Delete(r) PROVE StaysTerminal(q)
  <2>1. PICK gone \in SUBSET Request : DropRows(gone)
    BY <1>4 DEF Delete, Stored
  <2> QED BY <2>1, RemovalKeepsTerminal
<1>5. ASSUME NEW r \in Request, NEW ok \in BOOLEAN, MarkFailed(r, ok)
      PROVE  StaysTerminal(q)
  <2>1. Terminal(q) => rows'[q] = rows[q]
    BY <1>5 DEF MarkFailed, Terminal, FieldsInv
  <2> QED BY <2>1 DEF StaysTerminal, Terminal
<1>6. ASSUME Receive \/ WriterDies PROVE StaysTerminal(q)
  BY <1>1, <1>6 DEF Receive, WriterDies
<1>7. ASSUME NEW r \in Request, NEW ok \in BOOLEAN, WriteStart(r, ok)
      PROVE  StaysTerminal(q)
  <2>1. CASE ok
    <3>1. hand = {Start(r)} /\ Start(r) \in Command
      BY <1>7, Commands DEF WriteStart
    <3>2. rows[r] # NoRow => rows[r].inbound = 0
      BY <3>1 DEF Placed, Waiting, Pending
    <3>3. rows' = InsertStart(rows, r)
      BY <1>7, <2>1 DEF WriteStart
    <3>4. /\ q # r => rows'[q] = rows[q]
          /\ rows[r] # NoRow => rows'[r].status = rows[r].status
      BY <3>2, <3>3, StartInserted DEF FieldsInv
    <3> QED BY <3>4 DEF StaysTerminal, Terminal
  <2>2. CASE ~ok
    BY <1>1, <1>7, <2>2 DEF WriteStart
  <2> QED BY <2>1, <2>2
<1>8. ASSUME NEW r \in Request, NEW ok \in BOOLEAN, WriteComplete(r, ok)
      PROVE  StaysTerminal(q)
  <2>1. CASE ok
    <3>1. PICK gone \in SUBSET Request :
            rows' = Without(CompleteRecord(rows, r), gone)
      BY <1>8, <2>1 DEF WriteComplete, Stored
    <3> QED BY <3>1, CompletionKeepsTerminal
  <2>2. CASE ~ok
    BY <1>1, <1>8, <2>2 DEF WriteComplete
  <2> QED BY <2>1, <2>2
<1>9. ASSUME NEW gone \in SUBSET Stored(rows),
             Purge(gone) \/ \E on \in BOOLEAN : UpdateSettings(on, gone)
      PROVE  StaysTerminal(q)
  BY <1>9, RemovalKeepsTerminal DEF Purge, UpdateSettings, Stored
<1>10. ASSUME NEW gone \in SUBSET Stored(rows), NEW ok \in BOOLEAN,
              Restart(ok, gone)
       PROVE  StaysTerminal(q)
  <2> DEFINE closed == [r \in Request |->
                          IF rows[r].status = "running"
                          THEN [rows[r] EXCEPT !.status = "interrupted",
                                               !.incomplete = TRUE]
                          ELSE rows[r]]
  <2>1. rows' = IF ok THEN Without(closed, gone) ELSE rows
    BY <1>10 DEF Restart
  <2>2. Terminal(q) => closed[q] = rows[q]
    BY DEF Terminal
  <2> HIDE DEF closed
  <2> QED BY <2>1, <2>2 DEF Without, StaysTerminal, Terminal
<1> QED
  BY <1>1, <1>2, <1>3, <1>4, <1>5, <1>6, <1>7, <1>8, <1>9, <1>10
     DEF Next, Writes, vars

\* A late Start, a failing completion or a recovery never takes a row back to
\* running: "keeps the row's terminal state intact" (apply_completion_directly).
THEOREM TerminalStatesKept == Spec => TerminalStateKept
<1>1. HistoryInv /\ [Next]_vars =>
        [\A r \in Request : Terminal(r) /\ rows'[r] # NoRow => Terminal(r)']_vars
  BY StepKeepsTerminal DEF StaysTerminal
<1> QED BY <1>1, HistoryInvariant, PTL DEF Spec, TerminalStateKept

-----------------------------------------------------------------------------
(***************************************************************************)
(* The containers, whose jobs mix their Docker commands in any order.  No  *)
(* job looks again before it removes something.  What keeps protected      *)
(* containers is what a job can be about to do: ContainersInv says which   *)
(* steps each operation goes through, that those which remove are only     *)
(* given managed ports, and that a start that has come to a removal is at  *)
(* a managed one.                                                          *)
(***************************************************************************)

Ops == {"none", "start", "verify", "reconcile", "recreate", "rotate", "renew",
        "discard", "heal", "stop"}

\* The operations that go through all ports, and what they may be about to do.
ForAll == {"start", "verify", "reconcile"}

StepsOf(op) ==
  CASE op = "start" -> {"inspect", "check", "run", "start", "rm"}
    [] op = "verify" -> {"probe", "restart"}
    [] op = "reconcile" -> {"inspect", "check", "run", "start"}
    [] op = "recreate" -> {"rm", "run"}
    [] op = "rotate" -> {"rm", "rmvol", "run"}
    [] op = "renew" -> {"rm", "check", "run"}
    [] op = "discard" -> {"rm"}
    [] op = "heal" -> {"restart", "rm", "run"}
    [] op = "stop" -> {"stop"}
    [] op = "none" -> {"none"}

Steps == {"none", "inspect", "check", "run", "start", "rm", "rmvol", "probe",
          "restart", "stop"}

Task == [op : Ops, todo : Seq(Port), step : Steps, since : Nat]

\* The reconciler looks at a container's state only; no one else may take
\* over its cycle.
InPlace(s, j) ==
  IF s = Reconciler THEN j.op \in {"none", "reconcile"} ELSE j.op # "reconcile"

\* What a job may be about to do with the port it is at.
Careful(j) ==
  /\ j.step \in StepsOf(j.op)
  /\ j.op = "none" => j.todo = <<>>
  /\ j.op \notin ForAll => \A i \in DOMAIN j.todo : j.todo[i] \in Managed
  /\ j.op = "start" /\ j.step = "rm" /\ j.todo # <<>> => Head(j.todo) \in Managed

\* A rotation about to create a container has no volume but a new one to give it.
Renewing(j) ==
  j.op = "rotate" /\ j.step = "run" /\ j.todo # <<>>
    => vol[Head(j.todo)] = 0 \/ vol[Head(j.todo)] > j.since

DockerInv ==
  /\ serving \in BOOLEAN
  /\ box \in [Port -> Boxes]
  /\ vol \in [Port -> Nat]
  /\ made \in Nat
  /\ \A p \in Port : vol[p] <= made
  /\ faults \in Nat

JobsInv ==
  /\ job \in [Slot -> Task]
  /\ \A s \in Slot : /\ InPlace(s, job[s])
                     /\ Careful(job[s])
                     /\ Renewing(job[s])
                     /\ job[s].since <= made

ContainersInv == DockerInv /\ JobsInv

-----------------------------------------------------------------------------
(* What jobs are made of.                                                  *)

\* The nodes of an operation, as a sequence.
LEMMA Enumerates ==
  ASSUME NEW S, IsFiniteSet(S)
  PROVE  SetToSeq(S) \in Seq(S)
<1> DEFINE n == Cardinality(S)
<1>1. n \in Nat /\ ExistsBijection(1..n, S)
  BY FS_CardinalityType
<1>2. \E f \in [1..n -> S] : IsInjective(f)
  <2>1. PICK f : f \in Bijection(1..n, S)
    BY <1>1 DEF ExistsBijection
  <2>2. f \in [1..n -> S] /\ \A a, b \in 1..n : f[a] = f[b] => a = b
    BY <2>1 DEF Bijection, Injection, IsInjective
  <2> QED BY <2>2 DEF IsInjective
<1>3. SetToSeq(S) \in [1..n -> S]
  BY <1>2 DEF SetToSeq
<1> QED BY <1>1, <1>3

LEMMA NodesTyped ==
  ASSUME NEW op \in Ops \ {"none"}
  PROVE  /\ NodesOf(op) \in Seq(Port)
         /\ op \notin ForAll => \A i \in DOMAIN NodesOf(op) : NodesOf(op)[i] \in Managed
<1>1. IsFiniteSet(Port) /\ IsFiniteSet(Managed) /\ Managed \subseteq Port
  BY ContainersAssumption, FS_Subset DEF Port
<1>2. SetToSeq(Port) \in Seq(Port) /\ SetToSeq(Managed) \in Seq(Managed)
  BY <1>1, Enumerates
<1>3. CASE op \in ForAll
  BY <1>2, <1>3 DEF NodesOf, ForAll
<1>4. CASE op \notin ForAll
  <2>1. NodesOf(op) = SetToSeq(Managed)
    BY <1>4 DEF NodesOf, ForAll
  <2> HIDE DEF NodesOf
  <2>2. NodesOf(op) \in Seq(Managed)
    BY <1>2, <2>1
  <2> QED BY <1>1, <1>4, <2>2
<1> QED BY <1>3, <1>4

-----------------------------------------------------------------------------
(* What Docker does.                                                       *)

LEMMA NewBox ==
  ASSUME NEW s \in {"stopped", "running"}, NEW o \in BOOLEAN
  PROVE  Box(s, o) \in Boxes /\ Box(s, o).state = s /\ Box(s, o).ours = o
<1>1. Box(s, o) \in Boxes
  BY DEF Boxes
<1> QED BY <1>1 DEF Box

LEMMA NoBox ==
  Absent \in Boxes /\ Absent.state = "absent" /\ Absent.ours = FALSE
BY DEF Boxes, Absent

LEMMA SomeBox ==
  ASSUME NEW b \in Boxes, b # Absent
  PROVE  \E s \in {"stopped", "running"}, o \in BOOLEAN : b = Box(s, o)
BY DEF Boxes

\* A container that is there, in another state.
LEMMA Restated ==
  ASSUME NEW b \in Boxes, b # Absent, NEW s \in {"stopped", "running"}
  PROVE  /\ b.state # "absent"
         /\ [b EXCEPT !.state = s] \in Boxes
         /\ [b EXCEPT !.state = s].state = s
         /\ [b EXCEPT !.state = s].ours = b.ours
<1>1. PICK t \in {"stopped", "running"}, o \in BOOLEAN : b = Box(t, o)
  BY SomeBox
<1>2. b.state = t /\ b.ours = o
  BY <1>1, NewBox
<1>3. [b EXCEPT !.state = s] = Box(s, o)
  BY <1>1 DEF Box
<1> QED BY <1>1, <1>2, <1>3, NewBox

\* The outcome of a command, whether it failed or not.
Outcome(command, p) == {Executed(command, p)} \cup Failed(command, p)

DockerCommands == {"run", "start", "restart", "stop", "rm", "rmvol"}

LEMMA Outcomes ==
  ASSUME DockerInv, NEW p \in Port, NEW c \in DockerCommands, NEW r \in Outcome(c, p)
  PROVE  /\ r.box \in Boxes
         /\ r.said \in {"ok", "missing", "error"}
         /\ r.vol \in {0, vol[p], made + 1}
         /\ c \in {"run", "start", "restart"} /\ box[p] # Absent =>
              /\ r.box.state # "absent" /\ r.box.ours = box[p].ours
              /\ r.vol = vol[p]
         /\ c = "rmvol" /\ r.said # "error" => r.vol = 0
         /\ c = "run" /\ box[p] = Absent /\ r = Executed(c, p)
              => r.vol = IF vol[p] = 0 THEN made + 1 ELSE vol[p]
<1> DEFINE Good(said, b, v) ==
      /\ b \in Boxes
      /\ said \in {"ok", "missing", "error"}
      /\ v \in {0, vol[p], made + 1}
      /\ c \in {"run", "start", "restart"} /\ box[p] # Absent =>
           b.state # "absent" /\ b.ours = box[p].ours /\ v = vol[p]
      /\ c = "rmvol" /\ said # "error" => v = 0
<1>1. box[p] \in Boxes /\ vol[p] \in Nat /\ made \in Nat
  BY DEF DockerInv
\* Nothing, a new container, another state, a removal.
<1>2. ASSUME NEW said \in {"missing", "error"}, c = "rmvol" => said = "error"
      PROVE  Good(said, box[p], vol[p])
  <2>1. box[p] # Absent => box[p].state # "absent"
    BY <1>1, Restated
  <2> QED BY <1>1, <1>2, <2>1
<1>3. ASSUME NEW said \in {"ok", "error"}, c = "run", box[p] = Absent,
             NEW s \in {"stopped", "running"}
      PROVE  Good(said, Box(s, TRUE), IF vol[p] = 0 THEN made + 1 ELSE vol[p])
  BY <1>1, <1>3, NewBox
<1>4. ASSUME NEW said \in {"ok", "error"}, c \in {"start", "restart", "stop"},
             box[p] # Absent, NEW s \in {"stopped", "running"}
      PROVE  Good(said, [box[p] EXCEPT !.state = s], vol[p])
  <2>1. /\ [box[p] EXCEPT !.state = s] \in Boxes
        /\ [box[p] EXCEPT !.state = s].state = s
        /\ [box[p] EXCEPT !.state = s].ours = box[p].ours
    BY <1>1, <1>4, Restated
  <2> QED BY <1>4, <2>1
<1>5. ASSUME NEW said \in {"ok", "error"}, c = "rm"
      PROVE  Good(said, Absent, vol[p])
  BY <1>1, <1>5, NoBox
<1>6. ASSUME NEW said \in {"ok", "error"}, c = "rmvol"
      PROVE  Good(said, box[p], 0)
  BY <1>1, <1>6
<1> HIDE DEF Good
<1>7. Good(Executed(c, p).said, Executed(c, p).box, Executed(c, p).vol)
      /\ Good("error", Executed(c, p).box, Executed(c, p).vol)
  <2>1. CASE box[p] = Absent /\ c = "run"
    BY <1>3, <2>1 DEF Executed, Ran
  <2>2. CASE box[p] # Absent /\ c = "run"
    BY <1>2, <2>2 DEF Executed, Ran
  <2>3. CASE box[p] = Absent /\ c \in {"start", "restart", "stop", "rm"}
    BY <1>2, <2>3 DEF Executed
  <2>4. CASE box[p] # Absent /\ c \in {"start", "restart"}
    BY <1>4, <2>4 DEF Executed
  <2>5. CASE box[p] # Absent /\ c = "stop"
    BY <1>4, <2>5 DEF Executed
  <2>6. CASE box[p] # Absent /\ c = "rm"
    BY <1>5, <2>6 DEF Executed
  <2>7. CASE c = "rmvol" /\ box[p].ours
    BY <1>2, <2>7 DEF Executed
  <2>8. CASE c = "rmvol" /\ ~box[p].ours
    BY <1>6, <2>8 DEF Executed
  <2> QED BY <2>1, <2>2, <2>3, <2>4, <2>5, <2>6, <2>7, <2>8 DEF DockerCommands
<1>8. \/ r = Executed(c, p)
      \/ r = [Executed(c, p) EXCEPT !.said = "error"]
      \/ r = [said |-> "error", box |-> box[p], vol |-> vol[p]]
      \/ /\ c = "run" /\ Ran(p).said = "ok"
         /\ r = [Ran(p) EXCEPT !.said = "error", !.box = Box("stopped", TRUE)]
  BY DEF Outcome, Failed
<1>9. Good(r.said, r.box, r.vol)
  <2>1. CASE r = Executed(c, p)
    BY <1>7, <2>1
  <2>2. CASE r = [Executed(c, p) EXCEPT !.said = "error"]
    <3>1. Executed(c, p) = [said |-> Executed(c, p).said, box |-> Executed(c, p).box,
                            vol |-> Executed(c, p).vol]
      BY DEF Executed, Ran, DockerCommands
    <3> QED BY <1>7, <2>2, <3>1
  <2>3. CASE r = [said |-> "error", box |-> box[p], vol |-> vol[p]]
    BY <1>2, <2>3
  <2>4. CASE /\ c = "run" /\ Ran(p).said = "ok"
             /\ r = [Ran(p) EXCEPT !.said = "error", !.box = Box("stopped", TRUE)]
    <3>1. box[p] = Absent
      BY <2>4 DEF Ran
    <3>2. r = [said |-> "error", box |-> Box("stopped", TRUE),
               vol |-> IF vol[p] = 0 THEN made + 1 ELSE vol[p]]
      BY <2>4, <3>1 DEF Ran
    <3>3. /\ r.said = "error" /\ r.box = Box("stopped", TRUE)
          /\ r.vol = IF vol[p] = 0 THEN made + 1 ELSE vol[p]
      BY <3>2
    <3>4. Good("error", Box("stopped", TRUE), IF vol[p] = 0 THEN made + 1 ELSE vol[p])
      BY <1>3, <2>4, <3>1
    <3> QED BY <3>3, <3>4
  <2> QED BY <1>8, <2>1, <2>2, <2>3, <2>4
<1>10. c = "run" /\ box[p] = Absent /\ r = Executed(c, p)
         => r.vol = IF vol[p] = 0 THEN made + 1 ELSE vol[p]
  BY DEF Executed, Ran
<1> QED BY <1>9, <1>10 DEF Good

-----------------------------------------------------------------------------
(* How jobs go on.                                                         *)

\* What a command may be followed by.
LEMMA Follows ==
  ASSUME NEW op \in Ops, NEW step \in DockerCommands, step \in StepsOf(op),
         NEW p \in Port, NEW said \in {"ok", "missing", "error"},
         NEW next \in After(op, step, p, said)
  PROVE  /\ next \in StepsOf(op) \cup {"next", "abort"}
         /\ op = "start" => next # "rm"
         /\ op = "rotate" /\ next = "run" => step = "rmvol" /\ said # "error"
<1>1. CASE step \in {"run", "start"}
  BY <1>1 DEF After
<1>2. CASE op \in {"start", "recreate"} /\ step = "rm"
  BY <1>2 DEF After, StepsOf
<1>3. CASE op = "heal"
  BY <1>1, <1>3 DEF After, StepsOf
<1>4. CASE op = "rotate" /\ step # "run"
  BY <1>4 DEF After, StepsOf, AfterVolume
<1>5. CASE op = "renew" /\ step = "rm"
  BY <1>5 DEF After, StepsOf
<1>6. CASE op = "verify"
  <2>1. step = "restart"
    BY <1>6 DEF StepsOf, DockerCommands
  <2>2. After(op, step, p, said)
          = IF said # "ok" /\ p \in Managed THEN {"abort"} ELSE {"next"}
    BY <1>6, <2>1 DEF After
  <2> QED BY <1>6, <2>2
<1>7. CASE op \in {"stop", "discard"}
  BY <1>7 DEF After, StepsOf
<1> QED BY <1>1, <1>2, <1>3, <1>4, <1>5, <1>6, <1>7 DEF StepsOf, Ops, DockerCommands

LEMMA FirstStepTyped ==
  ASSUME NEW op \in Ops \ {"none"}
  PROVE  /\ FirstStep(op) \in StepsOf(op)
         /\ op = "start" => FirstStep(op) # "rm"
         /\ op = "rotate" => FirstStep(op) # "run"
BY DEF FirstStep, StepsOf, Ops

LEMMA StepsTyped ==
  ASSUME NEW op \in Ops
  PROVE  StepsOf(op) \subseteq Steps
BY DEF StepsOf, Steps, Ops

LEMMA IdleTask ==
  /\ Idle \in Task /\ Idle.op = "none" /\ Idle.todo = <<>> /\ Idle.since = 0
  /\ Careful(Idle)
<1>1. /\ Idle.op = "none" /\ Idle.todo = <<>> /\ Idle.since = 0 /\ Idle.step = "none"
      /\ Idle \in Task
  BY DEF Idle, Task, Ops, Steps
<1> HIDE DEF Idle
<1> QED BY <1>1 DEF Careful, StepsOf, ForAll

LEMMA IdleRenews == Renewing(Idle)
BY IdleTask DEF Renewing

\* A job as it begins.
LEMMA WorkTask ==
  ASSUME made \in Nat, NEW op \in Ops \ {"none"}, NEW ports \in Seq(Port),
         op \notin ForAll => \A i \in DOMAIN ports : ports[i] \in Managed
  PROVE  /\ Work(op, ports) \in Task
         /\ Work(op, ports).op = op
         /\ Work(op, ports).since <= made
         /\ Careful(Work(op, ports))
         /\ op = "rotate" => Work(op, ports).step # "run"
<1> DEFINE w == Work(op, ports)
<1>1. FirstStep(op) \in StepsOf(op) /\ FirstStep(op) \in Steps
  BY FirstStepTyped, StepsTyped
<1>2. /\ w.op = op /\ w.todo = ports /\ w.step = FirstStep(op)
      /\ w.since \in {0, made}
      /\ w = [op |-> op, todo |-> ports, step |-> FirstStep(op), since |-> w.since]
  BY DEF Work
<1> HIDE DEF w
<1>3. w \in Task /\ w.since <= made
  BY <1>1, <1>2 DEF Task
<1>4. Careful(w)
  BY <1>1, <1>2, FirstStepTyped DEF Careful
<1> QED BY <1>2, <1>3, <1>4, FirstStepTyped DEF w

\* Registrations are kept, given up or new.
VolumesGrow ==
  /\ made \in Nat /\ made' \in Nat /\ made <= made'
  /\ \A p \in Port : vol'[p] \in Nat /\ (vol'[p] \in {0, vol[p]} \/ vol'[p] > made)

\* A job that does not move is not disturbed.
LEMMA Bystander ==
  ASSUME JobsInv, VolumesGrow, NEW s \in Slot, job'[s] = job[s]
  PROVE  /\ InPlace(s, job'[s]) /\ Careful(job'[s])
         /\ Renewing(job[s])' /\ job'[s].since <= made' /\ job'[s] \in Task
<1>1. /\ InPlace(s, job[s]) /\ Careful(job[s]) /\ Renewing(job[s])
      /\ job[s].since <= made /\ job[s] \in Task
  BY DEF JobsInv
<1>2. job[s].since \in Nat /\ job[s].todo \in Seq(Port)
  BY <1>1 DEF Task
<1>3. Renewing(job[s])'
  <2>1. job[s].todo # <<>> => Head(job[s].todo) \in Port
    BY <1>2
  <2>2. ASSUME job[s].todo # <<>>, vol'[Head(job[s].todo)] > made
        PROVE  vol'[Head(job[s].todo)] > job[s].since
    BY <1>1, <1>2, <2>1, <2>2 DEF VolumesGrow
  <2> QED BY <1>1, <2>1, <2>2 DEF Renewing, VolumesGrow
<1>4. job[s].since <= made'
  BY <1>1, <1>2 DEF VolumesGrow
<1> QED BY <1>1, <1>3, <1>4

\* A job that goes on.
LEMMA Proceeds ==
  ASSUME ContainersInv, VolumesGrow, NEW s \in Slot, job[s].todo # <<>>,
         NEW x \in StepsOf(job[s].op) \cup {"next", "abort"}, Proceed(s, x),
         x = "rm" /\ job[s].op = "start" => Head(job[s].todo) \in Managed,
         x = "run" /\ job[s].op = "rotate" => vol'[Head(job[s].todo)] = 0
  PROVE  JobsInv' /\ serving' \in BOOLEAN
<1> DEFINE j == job[s]
           rest == CASE x = "next" -> Tail(j.todo)
                     [] x = "abort" -> <<>>
                     [] OTHER -> j.todo
           onward == IF x \in {"next", "abort"} THEN FirstStep(j.op) ELSE x
           new == IF rest # <<>> THEN [j EXCEPT !.todo = rest, !.step = onward]
                  ELSE IF j.op = "start" THEN Work("verify", NodesOf("verify"))
                  ELSE Idle
<1>1. /\ j \in Task /\ InPlace(s, j) /\ Careful(j) /\ Renewing(j) /\ j.since <= made
      /\ job \in [Slot -> Task]
  BY DEF ContainersInv, JobsInv
<1>2. /\ j.todo \in Seq(Port) /\ j.op \in Ops \ {"none"} /\ j.since \in Nat
  BY <1>1 DEF Task, Careful
<1>3. /\ job' = [job EXCEPT ![s] = new]
      /\ serving' = (serving \/ (j.op = "verify" /\ rest = <<>>))
  BY DEF Proceed
<1>4. serving' \in BOOLEAN
  BY <1>3 DEF ContainersInv, DockerInv
<1>5. /\ rest \in Seq(Port)
      /\ \A i \in DOMAIN rest : \E k \in DOMAIN j.todo : rest[i] = j.todo[k]
      /\ x \notin {"next", "abort"} => rest = j.todo
      /\ rest # <<>> => x # "abort"
  <2>1. CASE x = "next"
    BY <1>2, <2>1
  <2>2. CASE x = "abort"
    BY <2>2
  <2>3. CASE x \notin {"next", "abort"}
    BY <1>2, <2>3
  <2> QED BY <2>1, <2>2, <2>3
<1>6. /\ onward \in StepsOf(j.op) /\ onward \in Steps
      /\ onward = x \/ (onward = FirstStep(j.op) /\ x \in {"next", "abort"})
  BY <1>2, FirstStepTyped, StepsTyped
<1> HIDE DEF rest, onward
<1>7. /\ new \in Task /\ InPlace(s, new) /\ Careful(new) /\ new.since <= made
      /\ new.op = "rotate" /\ new.step = "run" /\ new.todo # <<>>
           => vol'[Head(new.todo)] = 0
  <2>1. CASE rest # <<>>
    <3>1. /\ new.op = j.op /\ new.todo = rest /\ new.step = onward /\ new.since = j.since
          /\ new \in Task
      BY <1>1, <1>5, <1>6, <2>1 DEF Task
    <3>2. j.op \notin ForAll => \A i \in DOMAIN rest : rest[i] \in Managed
      BY <1>1, <1>5 DEF Careful
    <3>3. j.op = "start" /\ onward = "rm" => Head(rest) \in Managed
      BY <1>2, <1>5, <1>6, <2>1, FirstStepTyped
    <3>4. j.op = "rotate" /\ onward = "run" => vol'[Head(rest)] = 0
      BY <1>2, <1>5, <1>6, <2>1, FirstStepTyped
    <3>5. Careful(new)
      BY <1>2, <1>6, <3>1, <3>2, <3>3 DEF Careful
    <3>6. InPlace(s, new)
      BY <1>1, <3>1 DEF InPlace
    <3> QED BY <1>1, <3>1, <3>4, <3>5, <3>6
  <2>2. CASE rest = <<>> /\ j.op = "start"
    <3>1. new = Work("verify", NodesOf("verify"))
      BY <2>2
    <3>2. "verify" \in Ops \ {"none"} /\ made \in Nat
      BY DEF Ops, VolumesGrow
    <3>3. /\ NodesOf("verify") \in Seq(Port)
          /\ "verify" \notin ForAll =>
               \A i \in DOMAIN NodesOf("verify") : NodesOf("verify")[i] \in Managed
      BY <3>2, NodesTyped
    <3>4. new \in Task /\ new.op = "verify" /\ new.since <= made /\ Careful(new)
      BY <3>1, <3>2, <3>3, WorkTask
    <3>5. InPlace(s, new)
      BY <1>1, <2>2, <3>4 DEF InPlace
    <3> QED BY <3>4, <3>5
  <2>3. CASE rest = <<>> /\ j.op # "start"
    <3>1. new = Idle /\ made \in Nat
      BY <2>3 DEF VolumesGrow
    <3> HIDE DEF new
    <3>2. /\ new \in Task /\ Careful(new)
          /\ new.op = "none" /\ new.todo = <<>> /\ new.since = 0
      BY <3>1, IdleTask
    <3> QED BY <3>1, <3>2 DEF InPlace
  <2> QED BY <2>1, <2>2, <2>3
<1> HIDE DEF new
<1>8. job'[s] = new /\ \A t \in Slot : t # s => job'[t] = job[t]
  BY <1>1, <1>3
<1>9. new.since <= made'
  BY <1>7 DEF VolumesGrow, Task
<1>10. ASSUME NEW t \in Slot
       PROVE  /\ InPlace(t, job[t])' /\ Careful(job[t])' /\ Renewing(job[t])'
              /\ job'[t].since <= made' /\ job'[t] \in Task
  <2>1. CASE t = s
    <3>1. InPlace(t, job[t])' /\ Careful(job[t])'
      BY <1>7, <1>8, <2>1 DEF InPlace, Careful
    <3>2. Renewing(job[t])'
      BY <1>7, <1>8, <2>1 DEF Renewing
    <3> QED BY <1>7, <1>8, <1>9, <2>1, <3>1, <3>2
  <2>2. CASE t # s
    <3>1. job'[t] = job[t]
      BY <1>8, <2>2
    <3>2. /\ InPlace(t, job'[t]) /\ Careful(job'[t])
          /\ Renewing(job[t])' /\ job'[t].since <= made' /\ job'[t] \in Task
      BY <3>1, Bystander DEF ContainersInv
    <3> QED BY <3>2 DEF InPlace, Careful
  <2> QED BY <2>1, <2>2
<1>11. job' \in [Slot -> Task]
  BY <1>1, <1>3, <1>7
<1> QED BY <1>4, <1>10, <1>11 DEF JobsInv

-----------------------------------------------------------------------------
(* Each action.                                                            *)

\* A step that leaves the containers alone.
LEMMA NoVolumeChanges ==
  ASSUME ContainersInv, UNCHANGED <<box, vol, made>>
  PROVE  /\ VolumesGrow
         /\ faults' \in Nat /\ serving' \in BOOLEAN => DockerInv'
BY DEF ContainersInv, DockerInv, VolumesGrow

\* A command as it is given: who gives it, about which port, what came of it.
LEMMA GiveEffect ==
  ASSUME ContainersInv, NEW s \in Slot, Give(s)
  PROVE  LET p == Head(job[s].todo)
             step == job[s].step
         IN  /\ p \in Port /\ job[s].todo # <<>>
             /\ step \in DockerCommands
             /\ \E r \in Outcome(step, p), next \in StepsOf(job[s].op) \cup {"next", "abort"} :
                  /\ faults' = faults => r = Executed(step, p)
                  /\ faults' \in Nat
                  /\ box' = [box EXCEPT ![p] = r.box]
                  /\ vol' = [vol EXCEPT ![p] = r.vol]
                  /\ made' = IF r.vol > made THEN r.vol ELSE made
                  /\ Proceed(s, next)
                  /\ job[s].op = "start" => next # "rm"
                  /\ job[s].op = "rotate" /\ next = "run"
                       => step = "rmvol" /\ r.said # "error"
<1> DEFINE p == Head(job[s].todo)
           step == job[s].step
<1>1. job[s] \in Task /\ Careful(job[s]) /\ job[s].todo # <<>>
  BY DEF ContainersInv, JobsInv, Give
<1>2. p \in Port /\ job[s].op \in Ops /\ step \in StepsOf(job[s].op)
  BY <1>1 DEF Task, Careful
<1>3. step \in DockerCommands
  BY DEF Give, DockerCommands
<1>4. PICK failed \in {0, 1} :
        /\ faults' = faults + failed
        /\ \E r \in IF failed = 0 THEN {Executed(step, p)} ELSE Failed(step, p) :
             /\ box' = [box EXCEPT ![p] = r.box]
             /\ vol' = [vol EXCEPT ![p] = r.vol]
             /\ made' = IF r.vol > made THEN r.vol ELSE made
             /\ \E next \in After(job[s].op, step, p, r.said) : Proceed(s, next)
  BY DEF Give
<1>5. PICK r \in IF failed = 0 THEN {Executed(step, p)} ELSE Failed(step, p) :
        /\ box' = [box EXCEPT ![p] = r.box]
        /\ vol' = [vol EXCEPT ![p] = r.vol]
        /\ made' = IF r.vol > made THEN r.vol ELSE made
        /\ \E next \in After(job[s].op, step, p, r.said) : Proceed(s, next)
  BY <1>4
<1>6. r \in Outcome(step, p) /\ (failed = 0 => r = Executed(step, p))
  BY <1>5 DEF Outcome
<1>7. r.said \in {"ok", "missing", "error"}
  BY <1>2, <1>3, <1>6, Outcomes DEF ContainersInv
<1>8. PICK next \in After(job[s].op, step, p, r.said) : Proceed(s, next)
  BY <1>5
<1>9. /\ next \in StepsOf(job[s].op) \cup {"next", "abort"}
      /\ job[s].op = "start" => next # "rm"
      /\ job[s].op = "rotate" /\ next = "run" => step = "rmvol" /\ r.said # "error"
  BY <1>2, <1>3, <1>7, Follows
<1>10. faults' \in Nat /\ (faults' = faults => failed = 0)
  BY <1>4 DEF ContainersInv, DockerInv
<1> HIDE DEF p, step
<1> QED
  <2>1. /\ p \in Port /\ job[s].todo # <<>> /\ step \in DockerCommands
        /\ \E q \in Outcome(step, p), n \in StepsOf(job[s].op) \cup {"next", "abort"} :
             /\ faults' = faults => q = Executed(step, p)
             /\ faults' \in Nat
             /\ box' = [box EXCEPT ![p] = q.box]
             /\ vol' = [vol EXCEPT ![p] = q.vol]
             /\ made' = IF q.vol > made THEN q.vol ELSE made
             /\ Proceed(s, n)
             /\ job[s].op = "start" => n # "rm"
             /\ job[s].op = "rotate" /\ n = "run" => step = "rmvol" /\ q.said # "error"
    BY <1>1, <1>2, <1>3, <1>5, <1>6, <1>8, <1>9, <1>10
  <2> QED BY <2>1 DEF p, step

LEMMA GiveKeeps ==
  ASSUME ContainersInv, NEW s \in Slot, Give(s)
  PROVE  ContainersInv'
<1> DEFINE p == Head(job[s].todo)
           step == job[s].step
<1>1. p \in Port /\ job[s].todo # <<>> /\ step \in DockerCommands
  BY GiveEffect
<1>2. PICK r \in Outcome(step, p), next \in StepsOf(job[s].op) \cup {"next", "abort"} :
        /\ faults' \in Nat
        /\ box' = [box EXCEPT ![p] = r.box]
        /\ vol' = [vol EXCEPT ![p] = r.vol]
        /\ made' = IF r.vol > made THEN r.vol ELSE made
        /\ Proceed(s, next)
        /\ job[s].op = "start" => next # "rm"
        /\ job[s].op = "rotate" /\ next = "run" => step = "rmvol" /\ r.said # "error"
  BY GiveEffect
<1>3. /\ r.box \in Boxes /\ r.vol \in {0, vol[p], made + 1}
      /\ step = "rmvol" /\ r.said # "error" => r.vol = 0
  BY <1>1, Outcomes DEF ContainersInv
<1>4. /\ box \in [Port -> Boxes] /\ vol \in [Port -> Nat] /\ made \in Nat
      /\ \A q \in Port : vol[q] <= made
  BY DEF ContainersInv, DockerInv
<1> HIDE DEF p, step
<1>5. /\ r.vol \in Nat /\ made' \in Nat /\ made <= made' /\ r.vol <= made'
      /\ r.vol \in {0, vol[p]} \/ r.vol > made
  <2>1. vol[p] \in Nat /\ vol[p] <= made
    BY <1>1, <1>4
  <2>2. CASE r.vol \in {0, vol[p]}
    BY <1>2, <1>4, <2>1, <2>2
  <2>3. CASE r.vol = made + 1
    BY <1>2, <1>4, <2>3
  <2> QED BY <1>3, <2>2, <2>3
<1>6. /\ box' \in [Port -> Boxes] /\ vol' \in [Port -> Nat]
      /\ vol'[p] = r.vol /\ \A q \in Port : q # p => vol'[q] = vol[q]
  BY <1>1, <1>2, <1>3, <1>4, <1>5
<1>7. \A q \in Port : vol'[q] <= made'
  <2> SUFFICES ASSUME NEW q \in Port PROVE vol'[q] <= made'
    OBVIOUS
  <2>1. CASE q = p
    BY <1>5, <1>6, <2>1
  <2>2. CASE q # p
    <3>1. vol'[q] = vol[q] /\ vol[q] \in Nat /\ vol[q] <= made
      BY <1>4, <1>6, <2>2
    <3> QED BY <1>4, <1>5, <3>1
  <2> QED BY <2>1, <2>2
<1>8. VolumesGrow
  BY <1>4, <1>5, <1>6 DEF VolumesGrow
<1>9. next = "run" /\ job[s].op = "rotate" => vol'[p] = 0
  BY <1>2, <1>3, <1>6
<1>10. JobsInv' /\ serving' \in BOOLEAN
  BY <1>1, <1>2, <1>8, <1>9, Proceeds DEF p
<1> QED BY <1>2, <1>5, <1>6, <1>7, <1>10 DEF ContainersInv, DockerInv

\* A job that looks, or gives up, goes on without a command.
LEMMA GoesOn ==
  ASSUME ContainersInv, NEW s \in Slot, job[s].todo # <<>>, UNCHANGED <<box, vol, made>>,
         faults' \in Nat,
         NEW x \in StepsOf(job[s].op) \cup {"next", "abort"}, Proceed(s, x),
         x = "rm" /\ job[s].op = "start" => Head(job[s].todo) \in Managed,
         x = "run" => job[s].op # "rotate"
  PROVE  ContainersInv'
<1>1. VolumesGrow
  BY NoVolumeChanges
<1>2. JobsInv' /\ serving' \in BOOLEAN
  BY <1>1, Proceeds
<1> QED BY <1>2, NoVolumeChanges DEF ContainersInv

LEMMA LookKeeps ==
  ASSUME ContainersInv, NEW s \in Slot, Look(s)
  PROVE  ContainersInv'
<1> DEFINE p == Head(job[s].todo)
           op == job[s].op
<1>1. /\ job[s] \in Task /\ Careful(job[s]) /\ InPlace(s, job[s])
      /\ job[s].todo # <<>>
      /\ UNCHANGED <<box, vol, made>> /\ faults' \in Nat
  BY DEF ContainersInv, JobsInv, DockerInv, Look
<1>2. /\ p \in Port /\ op \in Ops /\ job[s].step \in StepsOf(op)
  BY <1>1 DEF Task, Careful
<1>3. CASE job[s].step = "inspect"
  <2>1. Proceed(s, IF s = Reconciler THEN EnsureCandidate(p) ELSE Ensure(p))
    BY <1>3 DEF Look
  <2>2. op \in {"start", "reconcile"}
    BY <1>2, <1>3 DEF Ops, StepsOf
  <2>3. CASE s = Reconciler
    <3>1. op = "reconcile"
      BY <1>1, <2>2, <2>3 DEF InPlace
    <3>2. EnsureCandidate(p) \in {"check", "start", "next"}
      BY DEF EnsureCandidate
    <3>3. EnsureCandidate(p) \in StepsOf(op) \cup {"next", "abort"}
      BY <3>1, <3>2 DEF StepsOf
    <3> QED BY <1>1, <2>1, <2>3, <3>1, <3>2, <3>3, GoesOn
  <2>4. CASE s # Reconciler
    <3>1. op = "start"
      BY <1>1, <2>2, <2>4 DEF InPlace
    <3>2. /\ Ensure(p) \in {"check", "start", "next", "rm"}
          /\ Ensure(p) = "rm" => p \in Managed
      BY <1>2 DEF Ensure, Port
    <3>3. Ensure(p) \in StepsOf(op) \cup {"next", "abort"}
      BY <3>1, <3>2 DEF StepsOf
    <3> QED BY <1>1, <2>1, <2>4, <3>1, <3>2, <3>3, GoesOn
  <2> QED BY <2>3, <2>4
<1>4. CASE job[s].step = "check"
  <2>1. PICK x \in {"run", "next"} : Proceed(s, x)
    BY <1>4 DEF Look
  <2>2. op \in {"start", "reconcile", "renew"}
    BY <1>2, <1>4 DEF Ops, StepsOf
  <2>3. x \in StepsOf(op) \cup {"next", "abort"}
    BY <2>2 DEF StepsOf
  <2> QED BY <1>1, <2>1, <2>2, <2>3, GoesOn
<1> QED BY <1>3, <1>4 DEF Look

LEMMA ProbeKeeps ==
  ASSUME ContainersInv, NEW s \in Slot, Probe(s)
  PROVE  ContainersInv'
<1>1. /\ job[s] \in Task /\ Careful(job[s]) /\ job[s].todo # <<>>
      /\ UNCHANGED <<box, vol, made>> /\ faults' \in Nat
  BY DEF ContainersInv, JobsInv, DockerInv, Probe
<1>2. PICK x \in {"next", "restart"} : Proceed(s, x)
  BY DEF Probe
<1>3. job[s].op = "verify"
  BY <1>1 DEF Probe, Careful, Task, Ops, StepsOf
<1>4. x \in StepsOf(job[s].op) \cup {"next", "abort"}
  BY <1>3 DEF StepsOf
<1> QED BY <1>1, <1>2, <1>4, GoesOn

\* The jobs after one of them changed into another.
LEMMA Reassigned ==
  ASSUME ContainersInv, NEW s \in Slot, NEW new \in Task,
         UNCHANGED <<box, vol, made>>, faults' \in Nat, serving' \in BOOLEAN,
         \A t \in Slot : t # s => job'[t] \in {job[t], Idle},
         job' \in [Slot -> Task], job'[s] = new,
         InPlace(s, new), Careful(new), new.since <= made,
         new.op = "rotate" => new.step # "run"
  PROVE  ContainersInv'
<1>1. VolumesGrow
  BY NoVolumeChanges
<1>2. ASSUME NEW t \in Slot
      PROVE  /\ InPlace(t, job[t])' /\ Careful(job[t])' /\ Renewing(job[t])'
             /\ job'[t].since <= made'
  <2>1. CASE t = s
    BY <2>1 DEF InPlace, Careful, Renewing
  <2>2. CASE t # s /\ job'[t] = job[t]
    <3>1. /\ InPlace(t, job'[t]) /\ Careful(job'[t])
          /\ Renewing(job[t])' /\ job'[t].since <= made'
      BY <1>1, <2>2, Bystander DEF ContainersInv
    <3> QED BY <3>1 DEF InPlace, Careful
  <2>3. CASE t # s /\ job'[t] = Idle
    <3>1. made' \in Nat
      BY DEF ContainersInv, DockerInv
    <3> QED BY <2>3, <3>1, IdleTask DEF InPlace, Careful, Renewing
  <2> QED BY <2>1, <2>2, <2>3
<1> QED BY <1>2, NoVolumeChanges DEF ContainersInv, JobsInv

LEMMA GivesUpKeeps ==
  ASSUME ContainersInv, NEW s \in Slot, GivesUp(s)
  PROVE  ContainersInv'
<1>1. /\ UNCHANGED <<box, vol, made>> /\ faults' \in Nat /\ job[s].todo # <<>>
      /\ job \in [Slot -> Task] /\ made \in Nat /\ serving \in BOOLEAN
  BY DEF ContainersInv, DockerInv, JobsInv, GivesUp
<1>2. CASE Proceed(s, "next")
  BY <1>1, <1>2, GoesOn
<1>3. CASE job' = [job EXCEPT ![s] = Idle] /\ UNCHANGED serving
  <2>1. /\ job'[s] = Idle /\ job' \in [Slot -> Task]
        /\ \A t \in Slot : t # s => job'[t] \in {job[t], Idle}
    BY <1>1, <1>3, IdleTask
  <2>2. InPlace(s, Idle)
    BY IdleTask DEF InPlace
  <2> QED BY <1>1, <1>3, <2>1, <2>2, IdleTask, Reassigned
<1> QED BY <1>2, <1>3 DEF GivesUp

\* Someone begins: the reconciler its cycle, another slot anything else.
LEMMA BeginKeeps ==
  ASSUME ContainersInv, NEW s \in Slot, NEW op \in Ops \ {"none"}, NEW ports \in Seq(Port),
         op \notin ForAll => \A i \in DOMAIN ports : ports[i] \in Managed,
         IF s = Reconciler THEN op = "reconcile" ELSE op # "reconcile",
         UNCHANGED <<box, vol, made>>, faults' \in Nat, serving' \in BOOLEAN,
         job' \in [Slot -> Task],
         job'[s] = Work(op, ports),
         \A t \in Slot : t # s => job'[t] \in {job[t], Idle}
  PROVE  ContainersInv'
<1> DEFINE new == Work(op, ports)
<1>1. /\ new \in Task /\ new.op = op /\ new.since <= made /\ Careful(new)
      /\ op = "rotate" => new.step # "run"
  BY WorkTask DEF ContainersInv, DockerInv
<1>2. job'[s] = new
  OBVIOUS
<1> HIDE DEF new
<1>3. InPlace(s, new)
  BY <1>1 DEF InPlace
<1> QED BY <1>1, <1>2, <1>3, Reassigned

LEMMA CycleKeeps ==
  ASSUME ContainersInv, Cycle
  PROVE  ContainersInv'
<1> DEFINE ports == NodesOf("reconcile")
           new == Work("reconcile", ports)
<1>1. "reconcile" \in Ops \ {"none"} /\ Reconciler \in Slot
  BY DEF Ops, Slot
<1>2. /\ ports \in Seq(Port)
      /\ "reconcile" \notin ForAll => \A i \in DOMAIN ports : ports[i] \in Managed
  BY <1>1, NodesTyped
<1>3. /\ UNCHANGED <<serving, box, vol, made, faults>>
      /\ job' = [job EXCEPT ![Reconciler] = new]
      /\ job \in [Slot -> Task] /\ serving \in BOOLEAN /\ faults \in Nat /\ made \in Nat
  BY DEF Cycle, ContainersInv, DockerInv, JobsInv
<1> HIDE DEF ports
<1>4. new \in Task
  BY <1>1, <1>2, <1>3, WorkTask
<1> HIDE DEF new
<1>5. /\ job' \in [Slot -> Task] /\ job'[Reconciler] = new
      /\ \A t \in Slot : t # Reconciler => job'[t] \in {job[t], Idle}
  BY <1>1, <1>3, <1>4
<1> QED BY <1>1, <1>2, <1>3, <1>5, BeginKeeps DEF new

LEMMA BeginsKeeps ==
  ASSUME ContainersInv, Begins
  PROVE  ContainersInv'
<1> DEFINE s == CHOOSE free \in Job : job[free] = Idle
<1>1. s \in Job /\ s \in Slot /\ s # Reconciler
  BY ContainersAssumption DEF Begins, Slot
<1>2. \/ \E op \in {"start", "recreate", "rotate", "renew"} : Undertake(s, op, NodesOf(op))
      \/ \E p \in Managed : Undertake(s, "heal", <<p>>)
      \/ \E op \in {"stop", "discard"} : StopServer(s, op)
  BY DEF Begins
<1> HIDE DEF s
<1>3. /\ job \in [Slot -> Task] /\ serving \in BOOLEAN /\ faults \in Nat /\ made \in Nat
  BY DEF ContainersInv, DockerInv, JobsInv
<1>4. ASSUME NEW op \in Ops \ {"none", "reconcile"}, NEW ports \in Seq(Port),
             op \notin ForAll => \A i \in DOMAIN ports : ports[i] \in Managed,
             Undertake(s, op, ports)
      PROVE  ContainersInv'
  <2>1. /\ UNCHANGED <<serving, box, vol, made, faults>>
        /\ job' = [job EXCEPT ![s] = Work(op, ports)]
    BY <1>4 DEF Undertake
  <2>2. Work(op, ports) \in Task
    BY <1>3, <1>4, WorkTask
  <2>3. /\ job' \in [Slot -> Task] /\ job'[s] = Work(op, ports)
        /\ \A t \in Slot : t # s => job'[t] \in {job[t], Idle}
    BY <1>1, <1>3, <2>1, <2>2
  <2> QED BY <1>1, <1>3, <1>4, <2>1, <2>3, BeginKeeps
<1>5. ASSUME NEW op \in {"start", "recreate", "rotate", "renew"},
             Undertake(s, op, NodesOf(op))
      PROVE  ContainersInv'
  <2>1. op \in Ops \ {"none", "reconcile"}
    BY DEF Ops
  <2>2. /\ NodesOf(op) \in Seq(Port)
        /\ op \notin ForAll => \A i \in DOMAIN NodesOf(op) : NodesOf(op)[i] \in Managed
    BY <2>1, NodesTyped
  <2> QED BY <1>4, <1>5, <2>1, <2>2
<1>6. ASSUME NEW p \in Managed, Undertake(s, "heal", <<p>>)
      PROVE  ContainersInv'
  <2>1. "heal" \in Ops \ {"none", "reconcile"}
    BY DEF Ops
  <2>2. p \in Port
    BY DEF Port
  <2>3. <<p>> \in Seq(Port) /\ \A i \in DOMAIN <<p>> : <<p>>[i] \in Managed
    BY <2>2
  <2> QED BY <1>4, <1>6, <2>1, <2>3
<1>7. ASSUME NEW op \in {"stop", "discard"}, StopServer(s, op)
      PROVE  ContainersInv'
  <2> DEFINE new == Work(op, NodesOf(op))
  <2>1. op \in Ops \ {"none", "reconcile"}
    BY DEF Ops
  <2>2. /\ NodesOf(op) \in Seq(Port)
        /\ op \notin ForAll => \A i \in DOMAIN NodesOf(op) : NodesOf(op)[i] \in Managed
    BY <2>1, NodesTyped
  <2>3. new \in Task
    BY <1>3, <2>1, <2>2, WorkTask
  <2>4. /\ UNCHANGED <<box, vol, made, faults>> /\ serving' = FALSE
        /\ job' = [t \in Slot |-> IF t = s THEN new
                                  ELSE IF job[t].op \in ServerOps THEN Idle ELSE job[t]]
    BY <1>7 DEF StopServer
  <2> HIDE DEF new
  <2>5. /\ job' \in [Slot -> Task] /\ job'[s] = new
        /\ \A t \in Slot : t # s => job'[t] \in {job[t], Idle}
    BY <1>1, <1>3, <2>3, <2>4, IdleTask
  <2> QED BY <1>1, <1>3, <2>1, <2>2, <2>4, <2>5, BeginKeeps DEF new
<1> QED BY <1>2, <1>5, <1>6, <1>7

-----------------------------------------------------------------------------
(* The invariant.                                                          *)

LEMMA InitContainersInv == ContainersInit => ContainersInv
<1> SUFFICES ASSUME ContainersInit PROVE ContainersInv
  OBVIOUS
<1>1. PICK b \in Boxes : box = [p \in Port |-> b]
  BY DEF ContainersInit
<1>2. /\ vol = [p \in Port |-> IF box[p].ours THEN 1 ELSE 0]
      /\ made = 1 /\ faults = 0 /\ serving \in BOOLEAN
      /\ job = [s \in Slot |-> Idle]
  BY DEF ContainersInit
<1>3. DockerInv
  BY <1>1, <1>2 DEF DockerInv
<1>4. JobsInv
  <2>1. job \in [Slot -> Task] /\ \A s \in Slot : job[s] = Idle
    BY <1>2, IdleTask
  <2>2. ASSUME NEW s \in Slot
        PROVE  InPlace(s, job[s]) /\ Careful(job[s]) /\ Renewing(job[s]) /\ job[s].since <= made
    BY <1>2, <2>1, IdleTask, IdleRenews DEF InPlace
  <2> QED BY <2>1, <2>2 DEF JobsInv
<1> QED BY <1>3, <1>4 DEF ContainersInv

LEMMA NextContainersInv == ContainersInv /\ [ContainersNext]_cvars => ContainersInv'
<1> SUFFICES ASSUME ContainersInv, [ContainersNext]_cvars PROVE ContainersInv'
  OBVIOUS
<1>1. ASSUME NEW s \in Slot, Give(s) PROVE ContainersInv'
  BY <1>1, GiveKeeps
<1>2. ASSUME NEW s \in Slot, Look(s) PROVE ContainersInv'
  BY <1>2, LookKeeps
<1>3. ASSUME NEW s \in Slot, Probe(s) PROVE ContainersInv'
  BY <1>3, ProbeKeeps
<1>4. ASSUME NEW s \in Slot, GivesUp(s) PROVE ContainersInv'
  BY <1>4, GivesUpKeeps
<1>5. CASE Cycle
  BY <1>5, CycleKeeps
<1>6. CASE Begins
  BY <1>6, BeginsKeeps
<1>7. CASE UNCHANGED cvars
  BY <1>7
     DEF cvars, ContainersInv, DockerInv, JobsInv, InPlace, Careful, Renewing
<1> QED BY <1>1, <1>2, <1>3, <1>4, <1>5, <1>6, <1>7 DEF ContainersNext, Step

\* Whatever commands others mix in, a job that is about to remove something is
\* at a managed port, and a rotation about to create a container has no old
\* registration to give it.
THEOREM ContainersInvariant == ContainersSpec => []ContainersInv
<1> QED BY InitContainersInv, NextContainersInv, PTL DEF ContainersSpec

-----------------------------------------------------------------------------
(* What a step may not do.                                                 *)

\* Only a command changes containers and their volumes, and only of its port.
LEMMA OnlyCommandsChange ==
  ASSUME [ContainersNext]_cvars, ~(\E s \in Slot : Give(s))
  PROVE  UNCHANGED <<box, vol, made>>
BY DEF ContainersNext, Step, Look, Probe, GivesUp, Cycle, Begins, Undertake, StopServer, cvars

\* A command that meets a protected container leaves it and its volume alone.
LEMMA GiveSparesProtected ==
  ASSUME ContainersInv, NEW s \in Slot, Give(s), NEW p \in Protected, box[p] # Absent
  PROVE  /\ box'[p].state # "absent"
         /\ box'[p].ours = box[p].ours
         /\ vol[p] # 0 => vol'[p] = vol[p]
<1> DEFINE head == Head(job[s].todo)
           step == job[s].step
<1>1. head \in Port /\ job[s].todo # <<>> /\ step \in DockerCommands
  BY GiveEffect
<1>2. PICK r \in Outcome(step, head) :
        /\ box' = [box EXCEPT ![head] = r.box]
        /\ vol' = [vol EXCEPT ![head] = r.vol]
  BY GiveEffect
<1>3. /\ box \in [Port -> Boxes] /\ vol \in [Port -> Nat]
      /\ p \in Port /\ p \notin Managed
      /\ job[s] \in Task /\ Careful(job[s])
  BY ContainersAssumption DEF ContainersInv, DockerInv, JobsInv, Port
<1> HIDE DEF head, step
<1>4. CASE head = p
  <2>1. job[s].op \in ForAll
    <3>1. 1 \in DOMAIN job[s].todo /\ head = job[s].todo[1]
      BY <1>1, <1>3 DEF head, Task
    <3> QED BY <1>3, <1>4, <3>1 DEF Careful
  <2>2. step \in {"run", "start", "restart"}
    BY <1>1, <1>3, <1>4, <2>1 DEF Careful, ForAll, StepsOf, DockerCommands, head, step
  <2>3. /\ r.box.state # "absent" /\ r.box.ours = box[p].ours
        /\ r.vol = vol[p]
    BY <1>1, <1>4, <2>2, Outcomes DEF ContainersInv
  <2> QED BY <1>2, <1>3, <1>4, <2>3
<1>5. CASE head # p
  <2>1. box'[p] = box[p] /\ vol'[p] = vol[p]
    BY <1>2, <1>3, <1>5
  <2>2. box[p] \in Boxes
    BY <1>3
  <2>3. box[p].state # "absent"
    BY <2>2, Restated
  <2> QED BY <2>1, <2>3
<1> QED BY <1>4, <1>5

\* The container of a protected standby, once there, is never removed, and the
\* registration it holds is never lost, by any mix of any number of jobs of the
\* server, its dashboard and the command line, failed commands included.
THEOREM ProtectedAreKept == ContainersSpec => ProtectedKept
<1> DEFINE Spared(p) ==
      box[p] # Absent =>
         /\ box'[p].state # "absent"
         /\ box'[p].ours = box[p].ours
         /\ vol[p] # 0 => vol'[p] = vol[p]
<1>1. ContainersInv /\ [ContainersNext]_cvars => \A p \in Protected : Spared(p)
  <2> SUFFICES ASSUME ContainersInv, [ContainersNext]_cvars, NEW p \in Protected,
                      box[p] # Absent
               PROVE  Spared(p)
    OBVIOUS
  <2>1. CASE \E s \in Slot : Give(s)
    BY <2>1, GiveSparesProtected
  <2>2. CASE ~(\E s \in Slot : Give(s))
    <3>1. UNCHANGED <<box, vol, made>>
      BY <2>2, OnlyCommandsChange
    <3>2. box[p] \in Boxes
      BY DEF ContainersInv, DockerInv, Port
    <3>3. box[p].state # "absent"
      BY <3>2, Restated
    <3> QED BY <3>1, <3>3
  <2> QED BY <2>1, <2>2
<1> QED BY <1>1, ContainersInvariant, PTL DEF ContainersSpec, ProtectedKept

\* A run that does not fail.
LEMMA RunWithoutFault ==
  ASSUME ContainersInv, NEW s \in Slot, Give(s), job[s].step = "run", faults' = faults
  PROVE  /\ Head(job[s].todo) \in Port /\ job[s].todo # <<>>
         /\ \E r \in Outcome("run", Head(job[s].todo)) :
              /\ r = Executed("run", Head(job[s].todo))
              /\ vol' = [vol EXCEPT ![Head(job[s].todo)] = r.vol]
<1> DEFINE p == Head(job[s].todo)
           step == job[s].step
<1>1. p \in Port /\ job[s].todo # <<>>
  BY GiveEffect
<1>2. PICK r \in Outcome(step, p) :
        /\ faults' = faults => r = Executed(step, p)
        /\ vol' = [vol EXCEPT ![p] = r.vol]
  BY GiveEffect
<1>3. r \in Outcome("run", p) /\ r = Executed("run", p)
  BY <1>2
<1> QED BY <1>1, <1>2, <1>3

\* A rotation that is reported done gave its node a registration made after
\* the rotation began, however many others start, remove and recreate the same
\* container meanwhile.
THEOREM RotationsRenew == ContainersSpec => RotationRenews
<1> DEFINE Renewed(s) ==
      /\ job[s].op = "rotate"
      /\ job[s].step = "run"
      /\ job'[s] # job[s]
      /\ box[Head(job[s].todo)] = Absent
      /\ box'[Head(job[s].todo)].state = "running"
      /\ faults' = faults
      => vol'[Head(job[s].todo)] > job[s].since
<1>1. ContainersInv /\ [ContainersNext]_cvars => \A s \in Job : Renewed(s)
  <2> SUFFICES ASSUME ContainersInv, [ContainersNext]_cvars, NEW s \in Job,
                      job[s].op = "rotate", job[s].step = "run", job'[s] # job[s],
                      box[Head(job[s].todo)] = Absent,
                      box'[Head(job[s].todo)].state = "running",
                      faults' = faults
               PROVE  vol'[Head(job[s].todo)] > job[s].since
    OBVIOUS
  <2> DEFINE p == Head(job[s].todo)
  <2>1. /\ s \in Slot /\ job[s] \in Task /\ Renewing(job[s]) /\ Careful(job[s])
        /\ job[s].since <= made /\ made \in Nat
        /\ box \in [Port -> Boxes] /\ vol \in [Port -> Nat]
    BY DEF ContainersInv, DockerInv, JobsInv, Slot
  \* The container appears, so a command was given; it was this job's, which moved.
  <2>2. Give(s)
    <3>1. PICK t \in Slot : Give(t)
      <4> SUFFICES ASSUME ~(\E t \in Slot : Give(t)) PROVE FALSE
        OBVIOUS
      <4>1. box' = box
        BY OnlyCommandsChange
      <4> QED BY <4>1, NoBox
    <3>2. CASE t # s
      <4>1. PICK next : Proceed(t, next)
        BY <3>1, GiveEffect
      <4>2. job'[s] = job[s]
        BY <2>1, <3>2, <4>1 DEF Proceed, ContainersInv, JobsInv
      <4> QED BY <4>2
    <3> QED BY <3>1, <3>2
  <2>3. job[s].todo # <<>> /\ p \in Port
    BY <2>1, <2>2, RunWithoutFault
  <2>4. PICK r \in Outcome("run", p) :
          r = Executed("run", p) /\ vol' = [vol EXCEPT ![p] = r.vol]
    BY <2>1, <2>2, RunWithoutFault
  <2>5. r.vol = IF vol[p] = 0 THEN made + 1 ELSE vol[p]
    <3>1. "run" \in DockerCommands
      BY DEF DockerCommands
    <3> QED BY <2>3, <2>4, <3>1, Outcomes DEF ContainersInv
  <2>6. job[s].since \in Nat
    BY <2>1 DEF Task
  <2>7. vol'[p] = r.vol
    BY <2>1, <2>3, <2>4
  <2>8. CASE vol[p] = 0
    BY <2>1, <2>5, <2>6, <2>7, <2>8
  <2>9. CASE vol[p] # 0
    BY <2>1, <2>3, <2>5, <2>7, <2>9 DEF Renewing
  <2> QED BY <2>8, <2>9
<1> QED BY <1>1, ContainersInvariant, PTL DEF ContainersSpec, RotationRenews

=============================================================================

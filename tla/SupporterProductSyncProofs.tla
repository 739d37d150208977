--------------------- MODULE SupporterProductSyncProofs ---------------------
(***************************************************************************)
(* Type correctness of SupporterProductSync, and the proof that nothing is *)
(* lost behind lastSuccessfulQueryTime.                                    *)
(***************************************************************************)
EXTENDS SupporterProductSync, TLAPS

Add == "AddSupporterRatePlanItemToQueue"

\* The rows of a query are rows.
LEMMA ResultsAreRows ==
  ASSUME TypeOK, NEW t \in Nat, NEW rows \in Results(t)
  PROVE  rows \subseteq Rows
<1>1. PICK W \in SUBSET (t + 1 .. Len(changes)) : rows = {RowAt(i) : i \in W}
  BY DEF Results
<1>2. \A i \in t + 1 .. Len(changes) : i \in 1 .. Len(changes) /\ i \in Nat
  BY DEF TypeOK
<1>3. \A i \in 1 .. Len(changes) : changes[i] \in Subscriptions
  BY DEF TypeOK
<1> QED BY <1>1, <1>2, <1>3 DEF RowAt, Rows

\* A file lists its rows, each at some line.
LEMMA FileOfRows ==
  ASSUME TypeOK, NEW t \in Nat, NEW rows \in Results(t), NEW f \in Files(rows)
  PROVE  /\ f \in Seq(Rows)
         /\ \A row \in rows : \E k \in 1 .. Len(f) : f[k] = row
<1>1. rows \subseteq Rows
  BY ResultsAreRows
<1>2. PICK n \in 0 .. Len(changes) : f \in [1 .. n -> rows]
  BY DEF Files
<1>3. n \in Nat /\ DOMAIN f = 1 .. n
  BY <1>2 DEF TypeOK
<1>4. f \in Seq(Rows) /\ Len(f) = n
  BY <1>1, <1>2, <1>3
<1> QED BY <1>3, <1>4 DEF Files

-----------------------------------------------------------------------------
(* Type correctness.                                                       *)

\* The types of an execution's variables.
ExecutionType ==
  /\ step \in [Executions -> Steps] /\ running \in [Executions -> BOOLEAN]
  /\ attempts \in [Executions -> Nat]
  /\ asked \in [Executions -> Nat] /\ since \in [Executions -> Nat]
  /\ hasRun \in [Executions -> BOOLEAN] /\ file \in [Executions -> Seq(Rows)]
  /\ processed \in [Executions -> Nat] /\ sent \in [Executions -> Nat]

\* Those of the delivery.
DeliveryType ==
  /\ queue \subseteq Messages /\ dead \subseteq Rows
  /\ table \in [Subscriptions -> Nat]
  /\ written \subseteq Rows /\ reported \subseteq Rows

\* Those of the parameter store and the container.
ClockType == lastTime \in Nat /\ loaded \subseteq Nat /\ latePuts \subseteq Nat

\* The type invariant by its three parts and the history of changes.
LEMMA TypeParts ==
  TypeOK <=> changes \in Seq(Subscriptions) /\ ClockType /\ ExecutionType /\ DeliveryType
BY DEF TypeOK, ClockType, ExecutionType, DeliveryType

\* Entering a state keeps the types.
LEMMA EnterType ==
  ASSUME ExecutionType, NEW x \in Executions, NEW s \in Steps, Enter(x, s),
         UNCHANGED query, processed' \in [Executions -> Nat]
  PROVE  ExecutionType'
BY DEF ExecutionType, Enter, query

\* Ending keeps the types.
LEMMA EndType ==
  ASSUME ExecutionType, NEW x \in Executions, NEW s \in Steps, End(x, s)
  PROVE  ExecutionType'
<1>1. <<>> \in Seq(Rows)
  OBVIOUS
<1> QED BY <1>1 DEF ExecutionType, End, Enter

\* So does an error.
LEMMA ErrorType ==
  ASSUME ExecutionType, NEW x \in Executions, LambdaError(x)
  PROVE  ExecutionType'
<1>1. CASE attempts[x] < MaxAttempts(step[x])
  <2>1. /\ running' = [running EXCEPT ![x] = FALSE]
        /\ attempts' = [attempts EXCEPT ![x] = @ + 1]
        /\ sent' = [sent EXCEPT ![x] = 0]
        /\ UNCHANGED <<step, asked, since, hasRun, file, processed>>
    BY <1>1 DEF LambdaError, query
  <2> QED BY <2>1 DEF ExecutionType
<1>2. CASE ~(attempts[x] < MaxAttempts(step[x]))
  BY <1>2, EndType DEF LambdaError, Steps
<1> QED BY <1>1, <1>2

\* A part of a file's lines holds rows, and enqueuing them keeps the queue's type.
LEMMA BatchType ==
  ASSUME TypeOK, NEW x \in Executions, NEW I \in SUBSET Batch(x)
  PROVE  RowsOf(x, I) \subseteq Rows /\ Enqueue(RowsOf(x, I)) \subseteq Messages
<1>1. file[x] \in Seq(Rows) /\ sent[x] \in Nat
  BY DEF TypeOK
<1>2. \A i \in I : i \in 1 .. Len(file[x])
  BY <1>1, SyncAssumption DEF Batch, BatchEnd, Smaller
<1>3. RowsOf(x, I) \subseteq Rows
  BY <1>1, <1>2 DEF RowsOf
<1> QED BY <1>3 DEF Enqueue, Messages, TypeOK

\* A message that comes back or not keeps the types.
LEMMA MessageType ==
  ASSUME TypeOK, NEW m \in queue, Delete(m) \/ Redeliver(m)
  PROVE  queue' \subseteq Messages /\ dead' \subseteq Rows
<1>1. m \in Messages
  BY DEF TypeOK
<1>2. m.row \in Rows /\ m.received \in Nat
  BY <1>1 DEF Messages
<1>3. Returned(m) = [row |-> m.row, received |-> m.received + 1]
  BY <1>1 DEF Returned, Messages
<1>4. Returned(m) \in Messages
  BY <1>2, <1>3 DEF Messages
<1> QED BY <1>2, <1>4 DEF Delete, Redeliver, TypeOK

\* The types hold at first.
LEMMA TypeInit == Init => TypeOK
<1> SUFFICES ASSUME Init PROVE TypeOK
  OBVIOUS
<1>1. <<>> \in Seq(Rows) /\ <<>> \in Seq(Subscriptions)
  OBVIOUS
<1> QED BY <1>1 DEF Init, TypeOK, Steps

\* Every step keeps them.
LEMMA TypeStep == TypeOK /\ [Next]_vars => TypeOK'
<1> SUFFICES ASSUME TypeOK, [Next]_vars PROVE TypeOK'
  OBVIOUS
<1>0. changes \in Seq(Subscriptions) /\ ClockType /\ ExecutionType /\ DeliveryType
  BY TypeParts
<1> USE DEF clock, machine, query, counts, delivery
<1>1. ASSUME NEW s \in Subscriptions, Change(s) PROVE TypeOK'
  BY <1>1 DEF Change, TypeOK
<1>2. ASSUME NEW x \in Executions, Schedule(x) \/ QueryAccepted(x) PROVE TypeOK'
  <2>1. ExecutionType'
    BY <1>0, <1>2, EnterType DEF Schedule, QueryAccepted, Steps, ExecutionType
  <2> QED BY <1>0, <1>2, <2>1
       DEF TypeOK, Schedule, QueryAccepted, ClockType, DeliveryType, ExecutionType
<1>3. ASSUME NEW x \in Executions, QueryZuora(x) PROVE TypeOK'
  <2>1. asked' \in [Executions -> Nat]
    BY <1>3 DEF QueryZuora, QueryTimes, TypeOK
  <2>2. since' \in [Executions -> Nat] /\ loaded' \subseteq Nat
    BY <1>3 DEF QueryZuora, TypeOK
  <2> QED BY <1>3, <2>1, <2>2 DEF QueryZuora, TypeOK
<1>4. ASSUME NEW x \in Executions, RunQuery(x) PROVE TypeOK'
  <2>1. since[x] \in Nat
    BY DEF TypeOK
  <2>2. file' \in [Executions -> Seq(Rows)]
    BY <1>4, <2>1, FileOfRows DEF RunQuery, TypeOK
  <2> QED BY <1>4, <2>2 DEF RunQuery, TypeOK
<1>5. ASSUME NEW x \in Executions, Invoke(x) PROVE TypeOK'
  BY <1>5 DEF Invoke, TypeOK
<1>6. ASSUME NEW x \in Executions, FetchResults(x) PROVE TypeOK'
  <2>1. ExecutionType'
    <3>1. CASE file[x] = <<>>
      BY <1>0, <1>6, <3>1, EndType DEF FetchResults, Steps
    <3>2. CASE file[x] # <<>>
      BY <1>0, <1>6, <3>2, EnterType DEF FetchResults, Steps, ExecutionType
    <3> QED BY <3>1, <3>2
  <2>2. ClockType'
    <3>1. asked[x] \in Nat
      BY <1>0 DEF ExecutionType
    <3>2. latePuts' \in {latePuts, latePuts \cup {asked[x]}} /\ UNCHANGED <<lastTime, loaded>>
      BY <1>6 DEF FetchResults
    <3> QED BY <1>0, <3>1, <3>2 DEF ClockType
  <2> QED BY <1>0, <1>6, <2>1, <2>2 DEF TypeOK, FetchResults, DeliveryType, ClockType, ExecutionType
<1>7. ASSUME NEW x \in Executions, QueryFails(x) PROVE TypeOK'
  <2>1. ExecutionType'
    BY <1>0, <1>7, ErrorType DEF QueryFails
  <2>2. ClockType'
    BY <1>0, <1>7 DEF QueryFails, ClockType, ExecutionType
  <2> QED BY <1>0, <1>7, <2>1, <2>2 DEF TypeOK, QueryFails, DeliveryType, ClockType, ExecutionType
<1>8. ASSUME NEW x \in Executions, SendBatch(x) PROVE TypeOK'
  <2>1. PICK first, failed \in SUBSET Batch(x) :
          /\ queue' = Enqueue(RowsOf(x, first \cup (Batch(x) \ failed)))
          /\ reported' = reported \cup RowsOf(x, failed)
    BY <1>8 DEF SendBatch
  <2>2. queue' \subseteq Messages /\ reported' \subseteq Rows
    <3>1. first \cup (Batch(x) \ failed) \in SUBSET Batch(x)
      OBVIOUS
    <3> QED BY <2>1, <3>1, BatchType DEF TypeOK
  <2>3. sent' \in [Executions -> Nat]
    BY <1>8, SyncAssumption DEF SendBatch, BatchEnd, Smaller, TypeOK
  <2> QED BY <1>8, <2>2, <2>3 DEF SendBatch, TypeOK
<1>9. ASSUME NEW x \in Executions, SendBatchThrows(x) PROVE TypeOK'
  <2>1. ExecutionType'
    BY <1>0, <1>9, ErrorType DEF SendBatchThrows
  <2>2. queue' \subseteq Messages
    BY <1>9, BatchType DEF SendBatchThrows
  <2> QED BY <1>0, <1>9, <2>1, <2>2 DEF TypeOK, SendBatchThrows, ClockType, DeliveryType, ExecutionType
<1>10. ASSUME NEW x \in Executions, StopBeforeTimeout(x) PROVE TypeOK'
  <2>1. ExecutionType'
    BY <1>0, <1>10, EnterType DEF StopBeforeTimeout, Steps, ExecutionType
  <2> QED BY <1>0, <1>10, <2>1 DEF TypeOK, StopBeforeTimeout, ClockType, DeliveryType, ExecutionType
<1>11. ASSUME NEW x \in Executions, AllSent(x) PROVE TypeOK'
  <2>1. ExecutionType'
    BY <1>0, <1>11, EndType DEF AllSent, Steps
  <2> QED BY <1>0, <1>11, <2>1 DEF TypeOK, AllSent, ClockType, DeliveryType, ExecutionType
<1>12. ASSUME NEW x \in Executions, AddFails(x) PROVE TypeOK'
  <2>1. ExecutionType'
    BY <1>0, <1>12, ErrorType DEF AddFails
  <2> QED BY <1>0, <1>12, <2>1 DEF TypeOK, AddFails, ClockType, DeliveryType, ExecutionType
<1>13. ASSUME LatePut PROVE TypeOK'
  BY <1>13 DEF LatePut, TypeOK
<1>14. ASSUME NEW m \in queue, WriteItem(m) \/ WriteFails(m) \/ ProcessFails(m) PROVE TypeOK'
  <2>1. queue' \subseteq Messages /\ dead' \subseteq Rows
    BY <1>14, MessageType DEF WriteItem, WriteFails, ProcessFails
  <2>2. m.row \in Rows /\ m.row.sub \in Subscriptions /\ m.row.version \in Nat
    BY DEF TypeOK, Messages, Rows
  <2>3. table' \in [Subscriptions -> Nat] /\ written' \subseteq Rows /\ reported' \subseteq Rows
    BY <1>14, <2>2 DEF WriteItem, WriteFails, ProcessFails, TypeOK
  <2> QED BY <1>14, <2>1, <2>3 DEF WriteItem, WriteFails, ProcessFails, TypeOK
<1>15. ASSUME UNCHANGED vars PROVE TypeOK'
  BY <1>15 DEF vars, TypeOK
<1> QED BY <1>1, <1>2, <1>3, <1>4, <1>5, <1>6, <1>7, <1>8, <1>9, <1>10, <1>11, <1>12, <1>13,
           <1>14, <1>15 DEF Next, Execution

\* Every variable keeps its type.
THEOREM TypeCorrect == Spec => []TypeOK
<1> QED BY TypeInit, TypeStep, PTL DEF Spec

-----------------------------------------------------------------------------
(* Nothing is lost.                                                        *)

\* The times that lastSuccessfulQueryTime has, or may get, from others than the executions.
Times == {lastTime} \cup loaded \cup latePuts

\* None of them is ahead of what is accounted for.
ClockInv == \A t \in Times : t <= Len(changes) /\ Covered(t)

\* Row r is at a line of x's file.
InFile(x, r) == \E k \in 1 .. Len(file[x]) : file[x][k] = r

\* The result of x's query covers its window.
WindowInFile(x) ==
  \A i \in 1 .. Len(changes) :
    since[x] < i /\ i <= asked[x] =>
      \E j \in i .. Len(changes) : changes[j] = changes[i] /\ InFile(x, RowAt(j))

\* The rows before those that x has still to send are accounted for.
SentInv(x) ==
  \A k \in 1 .. Len(file[x]) : k <= sent[x] \/ k <= processed[x] => Accounted(file[x][k])

\* An execution queries from a covered time to one that has come, and gets what it asks for.
ExecutionInv(x) ==
  /\ asked[x] <= Len(changes)
  /\ since[x] <= Len(changes) /\ Covered(since[x])
  /\ processed[x] <= Len(file[x]) /\ sent[x] <= Len(file[x])
  /\ hasRun[x] => WindowInFile(x)
  /\ SentInv(x)
  /\ step[x] = Add => hasRun[x]
  /\ step[x] \notin {"FetchResults", Add} => ~hasRun[x]
  /\ step[x] # Add => sent[x] = 0 /\ processed[x] = 0

\* The inductive invariant.
SyncInv == TypeOK /\ ClockInv /\ \A x \in Executions : ExecutionInv(x)

-----------------------------------------------------------------------------
(* What stays.                                                             *)

\* History is only added to.
LEMMA HistoryStays ==
  ASSUME TypeOK, [Next]_vars
  PROVE  /\ Len(changes) \in Nat /\ Len(changes') \in Nat /\ Len(changes) <= Len(changes')
         /\ \A i \in 1 .. Len(changes) : changes'[i] = changes[i]
<1>1. CASE changes' = changes
  BY <1>1 DEF TypeOK
<1>2. ASSUME NEW s \in Subscriptions, Change(s)
      PROVE  /\ Len(changes) \in Nat /\ Len(changes') \in Nat /\ Len(changes) <= Len(changes')
             /\ \A i \in 1 .. Len(changes) : changes'[i] = changes[i]
  BY <1>2 DEF TypeOK, Change
<1>3. changes' = changes \/ \E s \in Subscriptions : Change(s)
  BY DEF Next, Execution, vars, Schedule, QueryZuora, QueryAccepted, RunQuery, Invoke, FetchResults,
         QueryFails, SendBatch, SendBatchThrows, StopBeforeTimeout, AllSent, AddFails, LatePut,
         WriteItem, WriteFails, ProcessFails
<1> QED BY <1>1, <1>2, <1>3

\* A row that is accounted for stays so.
LEMMA AccountedStays ==
  ASSUME TypeOK, [Next]_vars
  PROVE  \A row : Accounted(row) => Accounted(row)'
<1> SUFFICES ASSUME NEW row, Accounted(row) PROVE Accounted(row)'
  OBVIOUS
<1> USE DEF Accounted, Queued
<1>1. ASSUME NEW m \in queue, WriteItem(m) \/ WriteFails(m) \/ ProcessFails(m)
      PROVE  Accounted(row)'
  <2>1. dead \subseteq dead' /\ written \subseteq written' /\ reported \subseteq reported'
    BY <1>1 DEF WriteItem, WriteFails, ProcessFails, Delete, Redeliver
  <2>2. ASSUME NEW n \in queue, n.row = row PROVE Accounted(row)'
    <3>1. \/ n = m /\ ~ProcessFails(m)
          \/ \E q \in queue' : q.row = n.row
          \/ n.row \in dead'
      <4>1. CASE Redeliver(m)
        <5>1. Returned(m).row = m.row
          BY DEF Returned, TypeOK, Messages
        <5> QED BY <4>1, <5>1 DEF Redeliver
      <4>2. CASE Delete(m) /\ ~ProcessFails(m)
        BY <4>2 DEF Delete
      <4> QED BY <1>1, <4>1, <4>2 DEF WriteItem, WriteFails, ProcessFails
    <3>2. WriteItem(m) \/ WriteFails(m) => m.row \in written' \cup reported'
      BY DEF WriteItem, WriteFails
    <3> QED BY <1>1, <2>2, <3>1, <3>2
  <2> QED BY <2>1, <2>2
<1>2. ASSUME NEW x \in Executions, SendBatch(x) \/ SendBatchThrows(x) PROVE Accounted(row)'
  BY <1>2 DEF SendBatch, SendBatchThrows, Enqueue
<1>3. CASE UNCHANGED delivery
  BY <1>3 DEF delivery
<1>4. \/ UNCHANGED delivery
      \/ \E x \in Executions : SendBatch(x) \/ SendBatchThrows(x)
      \/ \E m \in queue : WriteItem(m) \/ WriteFails(m) \/ ProcessFails(m)
  BY DEF Next, Execution, vars, Change, Schedule, QueryZuora, QueryAccepted, RunQuery, Invoke,
         FetchResults, QueryFails, StopBeforeTimeout, AllSent, AddFails, LatePut
<1> QED BY <1>1, <1>2, <1>3, <1>4

\* So does a time that has come.
LEMMA CoveredStays ==
  ASSUME TypeOK, [Next]_vars, NEW t \in Nat, t <= Len(changes), Covered(t)
  PROVE  t <= Len(changes') /\ Covered(t)'
<1>1. /\ Len(changes) \in Nat /\ Len(changes') \in Nat /\ Len(changes) <= Len(changes')
      /\ \A i \in 1 .. Len(changes) : changes'[i] = changes[i]
  BY HistoryStays
<1>2. ASSUME NEW i \in 1 .. Len(changes'), i <= t
      PROVE  \E j \in i .. Len(changes') : changes'[j] = changes'[i] /\ Accounted(RowAt(j))'
  <2>1. i \in 1 .. Len(changes)
    BY <1>1, <1>2
  <2>2. PICK j \in i .. Len(changes) : changes[j] = changes[i] /\ Accounted(RowAt(j))
    BY <1>2, <2>1 DEF Covered
  <2>3. j \in 1 .. Len(changes) /\ j \in i .. Len(changes')
    BY <1>1, <2>1
  <2>4. RowAt(j)' = RowAt(j)
    BY <1>1, <2>3 DEF RowAt
  <2>5. Accounted(RowAt(j))'
    BY <2>2, <2>4, AccountedStays DEF Accounted, Queued
  <2> QED BY <1>1, <2>1, <2>2, <2>3, <2>5
<1> QED BY <1>1, <1>2 DEF Covered

-----------------------------------------------------------------------------
(* What a step does to an execution.                                       *)

\* An execution that keeps its query keeps the invariant if the rows before its counts are accounted for.
LEMMA SameQuery ==
  ASSUME TypeOK, TypeOK', [Next]_vars, NEW x \in Executions, ExecutionInv(x),
         asked'[x] = asked[x], since'[x] = since[x], hasRun'[x] = hasRun[x], file'[x] = file[x],
         processed'[x] <= Len(file[x]), sent'[x] <= Len(file[x]),
         \A k \in 1 .. Len(file[x]) :
           k <= sent'[x] \/ k <= processed'[x] => Accounted(file[x][k]) \/ Accounted(file[x][k])',
         step'[x] = Add => hasRun[x],
         step'[x] \notin {"FetchResults", Add} => ~hasRun[x],
         step'[x] # Add => sent'[x] = 0 /\ processed'[x] = 0
  PROVE  ExecutionInv(x)'
<1>1. asked[x] \in Nat /\ since[x] \in Nat
  BY DEF TypeOK
<1>2. asked[x] <= Len(changes')
  BY <1>1, HistoryStays DEF ExecutionInv
<1>3. since[x] <= Len(changes') /\ Covered(since[x])'
  BY <1>1, CoveredStays DEF ExecutionInv
<1>4. since'[x] <= Len(changes') /\ Covered(since[x])'
  BY <1>3
<1>5. ASSUME hasRun[x] PROVE WindowInFile(x)'
  <2>1. ASSUME NEW i \in 1 .. Len(changes'), since[x] < i, i <= asked[x]
        PROVE  \E j \in i .. Len(changes') : changes'[j] = changes'[i] /\ InFile(x, RowAt(j))'
    <3>1. i \in 1 .. Len(changes)
      BY <1>1, <2>1, HistoryStays DEF ExecutionInv
    <3>2. PICK j \in i .. Len(changes) : changes[j] = changes[i] /\ InFile(x, RowAt(j))
      BY <1>5, <2>1, <3>1 DEF ExecutionInv, WindowInFile
    <3>3. j \in 1 .. Len(changes) /\ j \in i .. Len(changes')
      BY <3>1, HistoryStays
    <3>4. RowAt(j)' = RowAt(j)
      BY <3>3, HistoryStays DEF RowAt
    <3>5. InFile(x, RowAt(j))'
      BY <3>2, <3>4 DEF InFile
    <3> QED BY <3>1, <3>2, <3>3, <3>5, HistoryStays
  <2> QED BY <2>1 DEF WindowInFile
<1>6. SentInv(x)'
  <2>1. \A k \in 1 .. Len(file[x]) : k <= sent'[x] \/ k <= processed'[x] => Accounted(file[x][k])'
    BY AccountedStays DEF Accounted, Queued
  <2> QED BY <2>1 DEF SentInv, Accounted, Queued
<1> QED BY <1>2, <1>4, <1>5, <1>6 DEF ExecutionInv, Covered

\* An execution that a step does not touch keeps the invariant.
LEMMA Untouched ==
  ASSUME TypeOK, TypeOK', [Next]_vars, NEW x \in Executions, ExecutionInv(x),
         step'[x] = step[x], asked'[x] = asked[x], since'[x] = since[x], hasRun'[x] = hasRun[x],
         file'[x] = file[x], processed'[x] = processed[x], sent'[x] = sent[x]
  PROVE  ExecutionInv(x)'
BY SameQuery DEF ExecutionInv, SentInv

\* An execution that has ended has nothing to keep.
LEMMA EndKeeps ==
  ASSUME TypeOK, TypeOK', NEW x \in Executions, NEW s \in {"SUCCEEDED", "FAILED"}, End(x, s)
  PROVE  ExecutionInv(x)'
<1>1. /\ asked'[x] = 0 /\ since'[x] = 0 /\ ~hasRun'[x] /\ file'[x] = <<>>
      /\ processed'[x] = 0 /\ sent'[x] = 0 /\ step'[x] = s
  BY DEF End, Enter, TypeOK
<1>2. Len(file'[x]) = 0 /\ Len(changes') \in Nat
  BY <1>1 DEF TypeOK
<1>3. \A i \in 1 .. Len(changes') : ~(i <= 0)
  BY <1>2
<1> QED BY <1>1, <1>2, <1>3 DEF ExecutionInv, SentInv, Covered, Add

\* An error ends the execution, or keeps its query and its processed count.
LEMMA ErrorKeeps ==
  ASSUME TypeOK, TypeOK', [Next]_vars, NEW x \in Executions, ExecutionInv(x), LambdaError(x)
  PROVE  ExecutionInv(x)'
<1>1. CASE attempts[x] < MaxAttempts(step[x])
  <2>1. /\ step'[x] = step[x] /\ asked'[x] = asked[x] /\ since'[x] = since[x]
        /\ hasRun'[x] = hasRun[x] /\ file'[x] = file[x]
        /\ processed'[x] = processed[x] /\ sent'[x] = 0
    BY <1>1 DEF LambdaError, query, TypeOK
  <2>2. Len(file[x]) \in Nat /\ processed[x] \in Nat
    BY DEF TypeOK
  <2>3. \A k \in 1 .. Len(file[x]) : ~(k <= 0)
    BY <2>2
  <2>4. \A k \in 1 .. Len(file[x]) :
          k <= sent'[x] \/ k <= processed'[x] => Accounted(file[x][k]) \/ Accounted(file[x][k])'
    BY <2>1, <2>3 DEF ExecutionInv, SentInv
  <2>5. /\ processed'[x] <= Len(file[x]) /\ sent'[x] <= Len(file[x])
        /\ step'[x] = Add => hasRun[x]
        /\ step'[x] \notin {"FetchResults", Add} => ~hasRun[x]
        /\ step'[x] # Add => sent'[x] = 0 /\ processed'[x] = 0
    BY <2>1, <2>2 DEF ExecutionInv
  <2> QED BY <2>1, <2>4, <2>5, SameQuery
<1>2. CASE ~(attempts[x] < MaxAttempts(step[x]))
  BY <1>2, EndKeeps DEF LambdaError
<1> QED BY <1>1, <1>2

\* A query all of whose result is sent covers the time it asked for.
LEMMA SentCovers ==
  ASSUME TypeOK, NEW x \in Executions, ExecutionInv(x), hasRun[x], sent[x] = Len(file[x])
  PROVE  asked[x] \in Nat /\ asked[x] <= Len(changes) /\ Covered(asked[x])
<1>1. ASSUME NEW i \in 1 .. Len(changes), i <= asked[x]
      PROVE  \E j \in i .. Len(changes) : changes[j] = changes[i] /\ Accounted(RowAt(j))
  <2>1. CASE i <= since[x]
    BY <2>1 DEF ExecutionInv, Covered
  <2>2. CASE since[x] < i
    <3>1. PICK j \in i .. Len(changes) : changes[j] = changes[i] /\ InFile(x, RowAt(j))
      BY <1>1, <2>2 DEF ExecutionInv, WindowInFile
    <3>2. PICK k \in 1 .. Len(file[x]) : file[x][k] = RowAt(j)
      BY <3>1 DEF InFile
    <3>3. k <= sent[x]
      BY DEF TypeOK
    <3>4. Accounted(file[x][k])
      BY <3>3 DEF ExecutionInv, SentInv
    <3> QED BY <3>1, <3>2, <3>4
  <2>3. i \in Nat /\ since[x] \in Nat
    BY DEF TypeOK
  <2> QED BY <2>1, <2>2, <2>3
<1> QED BY <1>1 DEF Covered, ExecutionInv, TypeOK

\* The invariant of the times is kept by a step whose new times are those of queries all sent.
LEMMA ClockStep ==
  ASSUME TypeOK, [Next]_vars, ClockInv,
         \A t \in Times' : \/ t \in Times
                           \/ \E x \in Executions :
                                ExecutionInv(x) /\ hasRun[x] /\ sent[x] = Len(file[x]) /\ t = asked[x]
  PROVE  ClockInv'
<1>1. ASSUME NEW t \in Times' PROVE t <= Len(changes') /\ Covered(t)'
  <2>1. t \in Nat /\ t <= Len(changes) /\ Covered(t)
    <3>1. CASE t \in Times
      BY <3>1 DEF ClockInv, Times, TypeOK
    <3>2. CASE \E x \in Executions :
                 ExecutionInv(x) /\ hasRun[x] /\ sent[x] = Len(file[x]) /\ t = asked[x]
      BY <3>2, SentCovers
    <3> QED BY <3>1, <3>2
  <2> QED BY <2>1, CoveredStays
<1> QED BY <1>1 DEF ClockInv, Covered

-----------------------------------------------------------------------------
(* The invariant holds at first, and every step keeps it.                  *)

\* The executions that an execution's step leaves alone, and any at a step of others.
LEMMA OthersKeep ==
  ASSUME TypeOK, TypeOK', [Next]_vars, NEW x \in Executions, NEW y \in Executions, ExecutionInv(y),
         \/ y # x /\ Execution(x)
         \/ UNCHANGED <<machine, query, counts>>
  PROVE  ExecutionInv(y)'
<1>1. CASE UNCHANGED <<machine, query, counts>>
  BY <1>1, Untouched DEF machine, query, counts
<1> USE DEF machine, query, counts
<1>2. ASSUME y # x, Execution(x)
      PROVE  /\ step'[y] = step[y] /\ asked'[y] = asked[y] /\ since'[y] = since[y]
             /\ hasRun'[y] = hasRun[y] /\ file'[y] = file[y]
             /\ processed'[y] = processed[y] /\ sent'[y] = sent[y]
  <2> DEFINE SameQueryOf == /\ asked'[y] = asked[y] /\ since'[y] = since[y]
                            /\ hasRun'[y] = hasRun[y] /\ file'[y] = file[y]
                            /\ processed'[y] = processed[y]
             Same == step'[y] = step[y] /\ sent'[y] = sent[y] /\ SameQueryOf
  <2>1. ASSUME NEW s, Enter(x, s) PROVE step'[y] = step[y] /\ sent'[y] = sent[y]
    BY <1>2, <2>1 DEF TypeOK, Enter
  <2>2. ASSUME NEW s, End(x, s) PROVE Same
    <3>1. SameQueryOf
      BY <1>2, <2>2 DEF TypeOK, End
    <3> QED BY <2>1, <2>2, <3>1 DEF End
  <2>3. CASE LambdaError(x)
    <3>1. CASE attempts[x] < MaxAttempts(step[x])
      <4>1. sent'[y] = sent[y] /\ UNCHANGED <<step, asked, since, hasRun, file, processed>>
        BY <1>2, <2>3, <3>1 DEF TypeOK, LambdaError
      <4> QED BY <4>1
    <3> QED BY <2>2, <2>3, <3>1 DEF LambdaError
  <2>4. CASE Schedule(x) \/ QueryAccepted(x)
    BY <2>1, <2>4 DEF Schedule, QueryAccepted
  <2>5. CASE FetchResults(x)
    BY <2>1, <2>2, <2>5 DEF FetchResults
  <2>6. CASE QueryZuora(x)
    BY <1>2, <2>6 DEF TypeOK, QueryZuora
  <2>7. CASE RunQuery(x)
    BY <1>2, <2>7 DEF TypeOK, RunQuery
  <2>8. CASE Invoke(x)
    BY <1>2, <2>8 DEF TypeOK, Invoke
  <2>9. CASE SendBatch(x)
    BY <1>2, <2>9 DEF TypeOK, SendBatch
  <2>10. CASE StopBeforeTimeout(x)
    <3>1. processed'[y] = processed[y]
      BY <1>2, <2>10 DEF TypeOK, StopBeforeTimeout
    <3> QED BY <2>1, <2>10, <3>1 DEF StopBeforeTimeout
  <2>11. CASE AllSent(x)
    BY <2>2, <2>11 DEF AllSent
  <2> QED BY <1>2, <2>3, <2>4, <2>5, <2>6, <2>7, <2>8, <2>9, <2>10, <2>11
       DEF Execution, QueryFails, SendBatchThrows, AddFails
<1> QED BY <1>1, <1>2, Untouched

\* QueryZuora asks from a covered time.
LEMMA QueryKeeps ==
  ASSUME TypeOK, TypeOK', [Next]_vars, ClockInv, NEW x \in Executions, ExecutionInv(x), QueryZuora(x)
  PROVE  ExecutionInv(x)'
<1>1. /\ step'[x] = "QueryZuora" /\ ~hasRun[x] /\ ~hasRun'[x] /\ file'[x] = file[x]
      /\ sent'[x] = 0 /\ processed'[x] = 0 /\ changes' = changes
  BY DEF QueryZuora, ExecutionInv, counts, Add
<1>2. asked'[x] <= Len(changes)
  BY DEF QueryZuora, QueryTimes, TypeOK
<1>3. since'[x] \in {0, lastTime} \cup loaded
  BY DEF QueryZuora, TypeOK
<1>4. since'[x] \in Nat /\ since'[x] <= Len(changes) /\ Covered(since'[x])
  <2>1. Len(changes) \in Nat /\ \A i \in 1 .. Len(changes) : ~(i <= 0)
    BY DEF TypeOK
  <2>2. 0 <= Len(changes) /\ Covered(0)
    BY <2>1 DEF Covered
  <2> QED BY <1>3, <2>2 DEF ClockInv, Times, TypeOK
<1>5. since'[x] <= Len(changes') /\ Covered(since[x])'
  BY <1>1, <1>4 DEF QueryZuora, delivery, Covered, Accounted, Queued, RowAt
<1>6. Len(file[x]) \in Nat /\ \A k \in 1 .. Len(file[x]) : ~(k <= 0)
  BY DEF TypeOK
<1>7. SentInv(x)'
  BY <1>1, <1>6 DEF SentInv
<1> QED BY <1>1, <1>2, <1>5, <1>6, <1>7 DEF ExecutionInv, Add

\* Zuora's result covers the query's window.
LEMMA RunKeeps ==
  ASSUME TypeOK, TypeOK', [Next]_vars, NEW x \in Executions, ExecutionInv(x), RunQuery(x)
  PROVE  ExecutionInv(x)'
<1>1. /\ step'[x] = "FetchResults" /\ asked'[x] = asked[x] /\ since'[x] = since[x]
      /\ sent'[x] = 0 /\ processed'[x] = 0 /\ changes' = changes
  BY DEF RunQuery, ExecutionInv, machine, counts, Add
<1>2. since[x] \in Nat /\ Len(changes) \in Nat
  BY DEF TypeOK
<1>3. PICK rows \in Results(since[x]) : \E f \in Files(rows) : file' = [file EXCEPT ![x] = f]
  BY DEF RunQuery
<1>4. PICK f \in Files(rows) : file' = [file EXCEPT ![x] = f]
  BY <1>3
<1>5. file'[x] = f /\ f \in Seq(Rows) /\ \A row \in rows : \E k \in 1 .. Len(f) : f[k] = row
  <2>1. file'[x] = f
    BY <1>4 DEF TypeOK
  <2> QED BY <1>2, <2>1, FileOfRows
<1>6. PICK W \in SUBSET (since[x] + 1 .. Len(changes)) :
        /\ rows = {RowAt(i) : i \in W}
        /\ \A i \in since[x] + 1 .. Len(changes) : \E j \in W : j >= i /\ changes[j] = changes[i]
  BY DEF Results
<1>7. ASSUME NEW i \in 1 .. Len(changes), since[x] < i
      PROVE  \E j \in i .. Len(changes) : changes[j] = changes[i] /\ InFile(x, RowAt(j))'
  <2>1. i \in since[x] + 1 .. Len(changes)
    BY <1>2, <1>7
  <2>2. PICK j \in W : j >= i /\ changes[j] = changes[i]
    BY <1>6, <2>1
  <2>3. j \in i .. Len(changes)
    BY <1>2, <2>1, <2>2
  <2>4. RowAt(j) \in rows
    BY <1>6
  <2>5. RowAt(j)' = RowAt(j)
    BY <1>1 DEF RowAt
  <2>6. InFile(x, RowAt(j))'
    BY <1>5, <2>4, <2>5 DEF InFile
  <2> QED BY <2>2, <2>3, <2>6
<1>8. WindowInFile(x)'
  BY <1>1, <1>7 DEF WindowInFile
<1>9. Len(f) \in Nat /\ \A k \in 1 .. Len(f) : ~(k <= 0)
  BY <1>5
<1>10. SentInv(x)'
  BY <1>1, <1>5, <1>9 DEF SentInv
<1>11. asked[x] <= Len(changes) /\ since[x] <= Len(changes) /\ Covered(since[x])'
  BY <1>1 DEF ExecutionInv, RunQuery, delivery, Covered, Accounted, Queued, RowAt
<1> QED BY <1>1, <1>5, <1>8, <1>9, <1>10, <1>11 DEF ExecutionInv, Add, RunQuery

\* A batch that has been sent is accounted for, rejected entries included.
LEMMA SendKeeps ==
  ASSUME TypeOK, TypeOK', [Next]_vars, NEW x \in Executions, ExecutionInv(x), SendBatch(x)
  PROVE  ExecutionInv(x)'
<1>1. /\ sent[x] \in Nat /\ Len(file[x]) \in Nat /\ processed[x] \in Nat
      /\ BatchEnd(x) \in Nat /\ BatchEnd(x) <= Len(file[x])
  BY SyncAssumption DEF TypeOK, BatchEnd, Smaller
<1>2. /\ step'[x] = Add /\ asked'[x] = asked[x] /\ since'[x] = since[x] /\ hasRun'[x] = hasRun[x]
      /\ file'[x] = file[x] /\ processed'[x] = processed[x] /\ sent'[x] = BatchEnd(x)
  BY DEF SendBatch, Adding, Add, machine, query, TypeOK
<1>3. ASSUME NEW k \in 1 .. Len(file[x]), k <= BatchEnd(x), ~(k <= sent[x])
      PROVE  Accounted(file[x][k])'
  <2>1. k \in Batch(x)
    BY <1>1, <1>3 DEF Batch
  <2>2. PICK first, failed \in SUBSET Batch(x) :
          /\ queue' = Enqueue(RowsOf(x, first \cup (Batch(x) \ failed)))
          /\ reported' = reported \cup RowsOf(x, failed)
    BY DEF SendBatch
  <2>3. CASE k \in failed
    BY <1>2, <2>2, <2>3 DEF RowsOf, Accounted
  <2>4. CASE k \notin failed
    <3>1. file[x][k] \in RowsOf(x, first \cup (Batch(x) \ failed))
      BY <2>1, <2>4 DEF RowsOf
    <3>2. [row |-> file[x][k], received |-> 0] \in queue'
      BY <2>2, <3>1 DEF Enqueue
    <3> QED BY <1>2, <3>2 DEF Accounted, Queued
  <2> QED BY <2>3, <2>4
<1>4. \A k \in 1 .. Len(file[x]) :
        k <= sent'[x] \/ k <= processed'[x] => Accounted(file[x][k]) \/ Accounted(file[x][k])'
  <2> SUFFICES ASSUME NEW k \in 1 .. Len(file[x]), k <= sent'[x] \/ k <= processed'[x]
               PROVE  Accounted(file[x][k]) \/ Accounted(file[x][k])'
    OBVIOUS
  <2>1. CASE k <= sent[x] \/ k <= processed[x]
    BY <2>1 DEF ExecutionInv, SentInv
  <2>2. CASE ~(k <= sent[x]) /\ k <= BatchEnd(x)
    BY <1>3, <2>2
  <2> QED BY <1>2, <2>1, <2>2
<1>5. /\ processed'[x] <= Len(file[x]) /\ sent'[x] <= Len(file[x])
      /\ step'[x] = Add => hasRun[x]
      /\ step'[x] \notin {"FetchResults", Add} => ~hasRun[x]
      /\ step'[x] # Add => sent'[x] = 0 /\ processed'[x] = 0
  BY <1>1, <1>2 DEF ExecutionInv, SendBatch, Adding, Add
<1> QED BY <1>2, <1>4, <1>5, SameQuery

\* An execution's own step keeps its invariant.
LEMMA OwnStepKeeps ==
  ASSUME TypeOK, TypeOK', [Next]_vars, ClockInv, NEW x \in Executions, ExecutionInv(x), Execution(x)
  PROVE  ExecutionInv(x)'
<1>1. /\ Len(file[x]) \in Nat /\ processed[x] \in Nat /\ sent[x] \in Nat
      /\ \A k \in 1 .. Len(file[x]) : ~(k <= 0)
  BY DEF TypeOK
<1> USE DEF query, Add
<1>2. CASE Schedule(x) \/ QueryAccepted(x)
  <2>1. /\ step[x] \in {"scheduled", "QueryZuora"} /\ step'[x] \in {"QueryZuora", "FetchResults"}
        /\ sent'[x] = 0 /\ UNCHANGED <<asked, since, hasRun, file, processed>>
    BY <1>2 DEF Schedule, QueryAccepted, Enter, TypeOK
  <2> QED BY <1>1, <2>1, SameQuery DEF ExecutionInv
<1>3. CASE Invoke(x)
  <2>1. /\ step'[x] = step[x] /\ step[x] = Add /\ sent'[x] = processed[x]
        /\ UNCHANGED <<asked, since, hasRun, file, processed>>
    BY <1>3 DEF Invoke, TypeOK
  <2> QED BY <2>1, SameQuery DEF ExecutionInv, SentInv
<1>4. CASE FetchResults(x)
  <2>1. CASE file[x] = <<>>
    BY <1>4, <2>1, EndKeeps DEF FetchResults
  <2>2. CASE file[x] # <<>>
    <3>1. /\ step'[x] = Add /\ step[x] = "FetchResults" /\ hasRun[x] /\ sent'[x] = 0
          /\ UNCHANGED <<asked, since, hasRun, file, processed>>
      BY <1>4, <2>2 DEF FetchResults, Enter, TypeOK
    <3> QED BY <1>1, <3>1, SameQuery DEF ExecutionInv
  <2> QED BY <2>1, <2>2
<1>5. CASE StopBeforeTimeout(x)
  <2>1. /\ step'[x] = Add /\ step[x] = Add /\ sent'[x] = 0 /\ processed'[x] = sent[x]
        /\ UNCHANGED <<asked, since, hasRun, file>>
    BY <1>5 DEF StopBeforeTimeout, Adding, Enter, TypeOK
  <2>2. \A k \in 1 .. Len(file[x]) :
          k <= sent'[x] \/ k <= processed'[x] => Accounted(file[x][k]) \/ Accounted(file[x][k])'
    BY <1>1, <2>1 DEF ExecutionInv, SentInv
  <2> QED BY <1>1, <2>1, <2>2, SameQuery DEF ExecutionInv
<1>6. CASE AllSent(x)
  BY <1>6, EndKeeps DEF AllSent
<1>7. CASE QueryFails(x) \/ SendBatchThrows(x) \/ AddFails(x)
  BY <1>7, ErrorKeeps DEF QueryFails, SendBatchThrows, AddFails
<1> QED BY <1>2, <1>3, <1>4, <1>5, <1>6, <1>7, QueryKeeps, RunKeeps, SendKeeps DEF Execution

\* No step takes lastSuccessfulQueryTime, or a write of it, past what is accounted for.
LEMMA ClockKeeps ==
  ASSUME SyncInv, [Next]_vars
  PROVE  ClockInv'
<1> DEFINE AllSentAt(t) ==
      \E x \in Executions : ExecutionInv(x) /\ hasRun[x] /\ sent[x] = Len(file[x]) /\ t = asked[x]
<1> SUFFICES ASSUME NEW t \in Times' PROVE t \in Times \/ AllSentAt(t)
  BY ClockStep DEF SyncInv
<1> USE DEF Times, clock
<1>1. ASSUME NEW x \in Executions, AllSent(x) \/ AddFails(x) PROVE t \in Times \/ AllSentAt(t)
  <2>1. hasRun[x] /\ ExecutionInv(x)
    BY <1>1 DEF AllSent, AddFails, Adding, SyncInv, ExecutionInv, Add
  <2>2. \/ t \in Times
        \/ sent[x] = Len(file[x]) /\ t = asked[x]
    BY <1>1 DEF AllSent, AddFails
  <2> QED BY <2>1, <2>2
<1>2. ASSUME NEW x \in Executions, FetchResults(x) \/ QueryFails(x) PROVE t \in Times \/ AllSentAt(t)
  <2>1. \/ t \in Times
        \/ step[x] = "FetchResults" /\ hasRun[x] /\ file[x] = <<>> /\ t = asked[x]
    BY <1>2 DEF FetchResults, QueryFails
  <2>2. file[x] = <<>> /\ step[x] = "FetchResults" => sent[x] = Len(file[x])
    BY DEF SyncInv, ExecutionInv, Add
  <2> QED BY <2>1, <2>2 DEF SyncInv
<1>3. CASE LatePut
  BY <1>3 DEF LatePut
<1>4. ASSUME NEW x \in Executions, QueryZuora(x) PROVE t \in Times
  BY <1>4 DEF QueryZuora
<1>5. CASE UNCHANGED clock
  BY <1>5
<1> QED BY <1>1, <1>2, <1>3, <1>4, <1>5
    DEF Next, Execution, vars, Change, Schedule, QueryAccepted, RunQuery, Invoke,
        SendBatch, SendBatchThrows, StopBeforeTimeout, WriteItem, WriteFails, ProcessFails

\* The invariant holds at first.
LEMMA SyncInit == Init => SyncInv
<1> SUFFICES ASSUME Init PROVE SyncInv
  OBVIOUS
<1>1. TypeOK
  BY TypeInit
<1>2. Len(changes) = 0 /\ \A i \in 1 .. Len(changes) : FALSE
  BY DEF Init
<1>3. ClockInv
  BY <1>2 DEF Init, ClockInv, Times, Covered
<1>4. ASSUME NEW x \in Executions PROVE ExecutionInv(x)
  <2>1. /\ asked[x] = 0 /\ since[x] = 0 /\ processed[x] = 0 /\ sent[x] = 0 /\ ~hasRun[x]
        /\ file[x] = <<>> /\ Len(file[x]) = 0 /\ step[x] = "scheduled"
    BY DEF Init
  <2> QED BY <1>2, <2>1 DEF ExecutionInv, SentInv, Covered, Add
<1> QED BY <1>1, <1>3, <1>4 DEF SyncInv

\* Every step keeps it.
LEMMA SyncStep == SyncInv /\ [Next]_vars => SyncInv'
<1> SUFFICES ASSUME SyncInv, [Next]_vars PROVE SyncInv'
  OBVIOUS
<1>1. TypeOK /\ TypeOK' /\ ClockInv /\ ClockInv'
  BY TypeStep, ClockKeeps DEF SyncInv
<1>2. ASSUME NEW y \in Executions PROVE ExecutionInv(y)'
  <2>1. ExecutionInv(y)
    BY <1>2 DEF SyncInv
  <2>2. ASSUME NEW x \in Executions, Execution(x) PROVE ExecutionInv(y)'
    <3>1. CASE y = x
      BY <1>1, <2>1, <2>2, <3>1, OwnStepKeeps
    <3>2. CASE y # x
      BY <1>1, <2>1, <2>2, <3>2, OthersKeep
    <3> QED BY <3>1, <3>2
  <2>3. CASE UNCHANGED <<machine, query, counts>>
    BY <1>1, <2>1, <2>3, OthersKeep
  <2> QED BY <2>2, <2>3 DEF Next, vars, Change, LatePut, WriteItem, WriteFails, ProcessFails
<1> QED BY <1>1, <1>2 DEF SyncInv

\* Every change before lastSuccessfulQueryTime is accounted for.
THEOREM NothingLostCorrect == Spec => []NothingLost
<1>1. SyncInv => NothingLost
  BY DEF SyncInv, ClockInv, Times, NothingLost
<1> QED BY <1>1, SyncInit, SyncStep, PTL DEF Spec

=============================================================================

------------------------ MODULE SupporterProductSync ------------------------
(***************************************************************************)
(* The synchronisation of the supporter product data table with Zuora: a   *)
(* Step Functions execution every five minutes queries what has changed    *)
(* since the last successful query, fetches the resulting file and puts    *)
(* its rows on an SQS queue, from which a lambda writes them to the table. *)
(* Executions overlap when a query takes long.                             *)
(*                                                                         *)
(* Time is counted in changes: the i-th change of a subscription in Zuora  *)
(* happens at time i and makes its version i, cancellations included.      *)
(***************************************************************************)
EXTENDS Naturals, Sequences, FiniteSets

CONSTANTS
  Executions,     \* the executions that are scheduled
  Full,           \* those started by hand with queryType "full"
  Subscriptions,  \* subscriptions in Zuora, a set of numbers in the order of their names
  MaxChanges,     \* bound on the changes of one behaviour
  BatchSize,      \* rows of one call of SQS (10 in the code)
  QueryAttempts, FetchAttempts, AddAttempts,  \* MaxAttempts of the states (3, 20, 3)
  MaxReceives     \* maxReceiveCount of the queue (10)

ASSUME SyncAssumption ==
  /\ Full \subseteq Executions
  /\ Subscriptions \subseteq Nat
  /\ MaxChanges \in Nat /\ BatchSize \in Nat \ {0} /\ MaxReceives \in Nat \ {0}
  /\ QueryAttempts \in Nat /\ FetchAttempts \in Nat /\ AddAttempts \in Nat

Steps == {"scheduled", "QueryZuora", "FetchResults", "AddSupporterRatePlanItemToQueue",
          "SUCCEEDED", "FAILED"}
Rows == [sub : Subscriptions, version : Nat]
Messages == [row : Rows, received : Nat]

VARIABLES
  changes,     \* the subscriptions changed in Zuora, oldest first
  lastTime,    \* lastSuccessfulQueryTime in the parameter store
  loaded,      \* its values that containers of QueryZuoraLambda read when they started
  latePuts,    \* writes of lastSuccessfulQueryTime that nobody waits for
  step,        \* the state each execution is in
  running,     \* its lambda has been invoked and has not answered
  attempts,    \* attempts its retrier has counted
  asked,       \* $.attemptedQueryTime
  since,       \* incrementalTime of the query
  hasRun,      \* Zuora has executed the query
  file,        \* its result, $.filename, with $.recordCount rows
  processed,   \* $.processedCount
  sent,        \* the count of the invocation under way
  queue,       \* messages on the SQS queue
  dead,        \* rows on the dead letter queue
  table,       \* version of each subscription in the table, 0 for none
  written,     \* rows that have been written to the table
  reported     \* rows whose failure is in the error log, with an alarm asked for

clock == <<lastTime, loaded, latePuts>>
machine == <<step, running, attempts>>
query == <<asked, since, hasRun, file>>
counts == <<processed, sent>>
delivery == <<queue, dead, table, written, reported>>
vars == <<changes, clock, machine, query, counts, delivery>>

-----------------------------------------------------------------------------
RowAt(i) == [sub |-> changes[i], version |-> i]
Queued(row) == \E m \in queue : m.row = row

Init ==
  /\ changes = <<>> /\ lastTime = 0 /\ loaded = {} /\ latePuts = {}
  /\ step = [x \in Executions |-> "scheduled"]
  /\ running = [x \in Executions |-> FALSE]
  /\ attempts = [x \in Executions |-> 0]
  /\ asked = [x \in Executions |-> 0] /\ since = [x \in Executions |-> 0]
  /\ hasRun = [x \in Executions |-> FALSE]
  /\ file = [x \in Executions |-> <<>>]
  /\ processed = [x \in Executions |-> 0] /\ sent = [x \in Executions |-> 0]
  /\ queue = {} /\ dead = {} /\ written = {} /\ reported = {}
  /\ table = [s \in Subscriptions |-> 0]

\* A subscription is bought, amended or cancelled.
Change(s) ==
  /\ Len(changes) < MaxChanges
  /\ changes' = Append(changes, s)
  /\ UNCHANGED <<clock, machine, query, counts, delivery>>

-----------------------------------------------------------------------------
(* The state machine.                                                      *)

Enter(x, s) ==
  /\ step' = [step EXCEPT ![x] = s]
  /\ running' = [running EXCEPT ![x] = FALSE]
  /\ attempts' = [attempts EXCEPT ![x] = 0]
  /\ sent' = [sent EXCEPT ![x] = 0]

\* An execution that ends takes its data with it.
End(x, s) ==
  /\ Enter(x, s)
  /\ asked' = [asked EXCEPT ![x] = 0] /\ since' = [since EXCEPT ![x] = 0]
  /\ hasRun' = [hasRun EXCEPT ![x] = FALSE] /\ file' = [file EXCEPT ![x] = <<>>]
  /\ processed' = [processed EXCEPT ![x] = 0]

MaxAttempts(s) ==
  CASE s = "QueryZuora" -> QueryAttempts
    [] s = "FetchResults" -> FetchAttempts
    [] OTHER -> AddAttempts

\* Retry on States.ALL; there is no Catch.
LambdaError(x) ==
  IF attempts[x] < MaxAttempts(step[x])
  THEN /\ running' = [running EXCEPT ![x] = FALSE]
       /\ attempts' = [attempts EXCEPT ![x] = @ + 1]
       /\ sent' = [sent EXCEPT ![x] = 0]
       /\ UNCHANGED <<step, query, processed>>
  ELSE End(x, "FAILED")

Schedule(x) ==
  /\ step[x] = "scheduled"
  /\ Enter(x, "QueryZuora")
  /\ UNCHANGED <<changes, clock, query, processed, delivery>>

(* attemptedQueryTime is a minute ago: the newest change may be younger.   *)
QueryTimes == {t \in 0 .. Len(changes) : t + 1 >= Len(changes)}

(* QueryZuora up to the request: the time first, then the query, which is  *)
(* incremental from the time the container knows: one that is still warm,  *)
(* or one that has just been started and has read it.                      *)
QueryZuora(x) ==
  /\ step[x] = "QueryZuora" /\ ~running[x]
  /\ running' = [running EXCEPT ![x] = TRUE]
  /\ \E t \in QueryTimes : asked' = [asked EXCEPT ![x] = t]
  /\ \E known \in loaded \cup {lastTime} :
       /\ loaded' = loaded \cup {known}
       /\ since' = [since EXCEPT ![x] = IF x \in Full THEN 0 ELSE known]
  /\ UNCHANGED <<changes, lastTime, latePuts, step, attempts, hasRun, file, counts, delivery>>

\* Zuora's answer with the job id.
QueryAccepted(x) ==
  /\ step[x] = "QueryZuora" /\ running[x]
  /\ Enter(x, "FetchResults")
  /\ UNCHANGED <<changes, clock, query, processed, delivery>>

(* The rows of the query: the newest version of every subscription changed *)
(* in the window, and perhaps others, "in case we have both".              *)
Results(t) ==
  LET window == t + 1 .. Len(changes) IN
  {{RowAt(i) : i \in W} : W \in
     {V \in SUBSET window : \A i \in window : \E j \in V : j >= i /\ changes[j] = changes[i]}}

\* ORDER BY subscription name and version.
Precedes(a, b) == a.sub < b.sub \/ (a.sub = b.sub /\ a.version < b.version)
Files(rows) ==
  {f \in UNION {[1 .. n -> rows] : n \in 0 .. Len(changes)} :
     /\ \A row \in rows : \E i \in DOMAIN f : f[i] = row
     /\ \A i, j \in DOMAIN f : i < j => Precedes(f[i], f[j])}

\* Zuora executes the job.
RunQuery(x) ==
  /\ step[x] = "FetchResults" /\ ~hasRun[x]
  /\ hasRun' = [hasRun EXCEPT ![x] = TRUE]
  /\ \E rows \in Results(since[x]) : \E f \in Files(rows) : file' = [file EXCEPT ![x] = f]
  /\ UNCHANGED <<changes, clock, machine, asked, since, counts, delivery>>

\* Mutant: the state is taken for the one that follows it.
StopsAtNoNewSubscriptions(x) ==
  /\ step[x] = "FetchResults" /\ hasRun[x]
  /\ Enter(x, IF file[x] = <<>> THEN "NoNewSubscriptions" ELSE "AddSupporterRatePlanItemToQueue")
  /\ UNCHANGED <<changes, clock, query, processed, delivery>>

(* FetchResults copies the file to S3.  Without rows the execution ends    *)
(* and the time is saved by a future that the lambda does not wait for.    *)
FetchResults(x) ==
  /\ step[x] = "FetchResults" /\ hasRun[x]
  /\ IF file[x] = <<>>
     THEN End(x, "SUCCEEDED") /\ latePuts' = latePuts \cup {asked[x]}
     ELSE /\ Enter(x, "AddSupporterRatePlanItemToQueue")
          /\ UNCHANGED <<latePuts, query, processed>>
  /\ UNCHANGED <<changes, lastTime, loaded, delivery>>

LatePut ==
  \E t \in latePuts :
    /\ lastTime' = t /\ latePuts' = latePuts \ {t}
    /\ UNCHANGED <<changes, loaded, machine, query, counts, delivery>>

(* An invocation of QueryZuora or FetchResults fails, the latter whenever  *)
(* the job is not completed yet, and perhaps only with its answer lost.    *)
QueryFails(x) ==
  /\ \/ step[x] = "QueryZuora" /\ running[x] /\ UNCHANGED latePuts
     \/ step[x] = "FetchResults" /\ UNCHANGED latePuts
     \/ /\ step[x] = "FetchResults" /\ hasRun[x] /\ file[x] = <<>>
        /\ latePuts' = latePuts \cup {asked[x]}
  /\ LambdaError(x)
  /\ UNCHANGED <<changes, lastTime, loaded, delivery>>

-----------------------------------------------------------------------------
(* AddSupporterRatePlanItemToQueue.                                        *)

Smaller(m, n) == IF m < n THEN m ELSE n
BatchEnd(x) == Smaller(sent[x] + BatchSize, Len(file[x]))
Batch(x) == sent[x] + 1 .. BatchEnd(x)
RowsOf(x, I) == {file[x][i] : i \in I}
Enqueue(rows) == queue \cup [row : rows, received : {0}]

\* The lambda reads the file from where the last invocation that answered stopped.
Invoke(x) ==
  /\ step[x] = "AddSupporterRatePlanItemToQueue" /\ ~running[x]
  /\ running' = [running EXCEPT ![x] = TRUE]
  /\ sent' = [sent EXCEPT ![x] = processed[x]]
  /\ UNCHANGED <<changes, clock, step, attempts, query, processed, delivery>>

Adding(x) == step[x] = "AddSupporterRatePlanItemToQueue" /\ running[x]

(* sendBatch sends the batch twice.  What the first call rejects is not    *)
(* looked at; what the second rejects is reported, which is all of it  *)
(* if the call throws.  The id of a rejected entry is its index in the     *)
(* file, and it is used as an index into the batch.                        *)
SendBatch(x) ==
  /\ Adding(x) /\ sent[x] < Len(file[x])
  /\ \E first, failed \in SUBSET Batch(x) :
       /\ failed = Batch(x) \/ \A i \in failed : i - 1 < Cardinality(Batch(x))
       /\ queue' = Enqueue(RowsOf(x, first \cup (Batch(x) \ failed)))
       /\ reported' = reported \cup RowsOf(x, failed)
  /\ sent' = [sent EXCEPT ![x] = BatchEnd(x)]
  /\ UNCHANGED <<changes, clock, machine, query, processed, dead, table, written>>

(* sendBatch ends the invocation: the first call throws, or the id of a    *)
(* rejected entry is out of the batch's range.                             *)
SendBatchThrows(x) ==
  /\ Adding(x) /\ sent[x] < Len(file[x])
  /\ \E accepted \in SUBSET Batch(x) : queue' = Enqueue(RowsOf(x, accepted))
  /\ LambdaError(x)
  /\ UNCHANGED <<changes, clock, dead, table, written, reported>>

\* Mutant: the batch there was no time for is counted.
StopAfterCounting(x) ==
  /\ Adding(x) /\ sent[x] < Len(file[x])
  /\ processed' = [processed EXCEPT ![x] = BatchEnd(x)]
  /\ Enter(x, "AddSupporterRatePlanItemToQueue")
  /\ UNCHANGED <<changes, clock, query, delivery>>

\* Less than 25 seconds are left: the next invocation goes on from here.
StopBeforeTimeout(x) ==
  /\ Adding(x) /\ sent[x] < Len(file[x])
  /\ processed' = [processed EXCEPT ![x] = sent[x]]
  /\ Enter(x, "AddSupporterRatePlanItemToQueue")
  /\ UNCHANGED <<changes, clock, query, delivery>>

\* All of the file is queued and the time is saved.
AllSent(x) ==
  /\ Adding(x) /\ sent[x] = Len(file[x])
  /\ lastTime' = asked[x]
  /\ End(x, "SUCCEEDED")
  /\ UNCHANGED <<changes, loaded, latePuts, delivery>>

\* The invocation fails or is killed, perhaps with the time already saved.
AddFails(x) ==
  /\ Adding(x)
  /\ \/ UNCHANGED lastTime
     \/ sent[x] = Len(file[x]) /\ lastTime' = asked[x]
  /\ LambdaError(x)
  /\ UNCHANGED <<changes, loaded, latePuts, delivery>>

-----------------------------------------------------------------------------
(* ProcessSupporterRatePlanItem: a standard queue hands out its messages   *)
(* in any order and perhaps again, and a batch of them is processed        *)
(* concurrently.  A message comes back when another one of its batch has   *)
(* failed, too.                                                            *)

Returned(m) == [m EXCEPT !.received = @ + 1]
Redeliver(m) ==
  IF m.received + 1 < MaxReceives
  THEN queue' = (queue \ {m}) \cup {Returned(m)} /\ UNCHANGED dead
  ELSE queue' = queue \ {m} /\ dead' = dead \cup {m.row}
Delete(m) == queue' = queue \ {m} /\ UNCHANGED dead

\* updateItem, whichever version the row has.
WriteItem(m) ==
  /\ m \in queue
  /\ table' = [table EXCEPT ![m.row.sub] = m.row.version]
  /\ written' = written \cup {m.row}
  /\ Delete(m) \/ Redeliver(m)
  /\ UNCHANGED <<changes, clock, machine, query, counts, reported>>

\* A failed write raises an alarm and counts as processed.
WriteFails(m) ==
  /\ m \in queue
  /\ reported' = reported \cup {m.row}
  /\ Delete(m) \/ Redeliver(m)
  /\ UNCHANGED <<changes, clock, machine, query, counts, table, written>>

\* The contribution's amount cannot be fetched, or the lambda is killed.
ProcessFails(m) ==
  /\ m \in queue
  /\ Redeliver(m)
  /\ UNCHANGED <<changes, clock, machine, query, counts, table, written, reported>>

-----------------------------------------------------------------------------
Execution(x) ==
  \/ Schedule(x) \/ QueryZuora(x) \/ QueryAccepted(x) \/ RunQuery(x) \/ Invoke(x)
  \/ FetchResults(x) \/ QueryFails(x)
  \/ SendBatch(x) \/ SendBatchThrows(x) \/ StopBeforeTimeout(x) \/ AllSent(x) \/ AddFails(x)

Next ==
  \/ \E s \in Subscriptions : Change(s)
  \/ \E x \in Executions : Execution(x)
  \/ LatePut
  \/ \E m \in queue : WriteItem(m) \/ WriteFails(m) \/ ProcessFails(m)

Spec == Init /\ [][Next]_vars

-----------------------------------------------------------------------------
(* Properties.                                                             *)

\* Every variable keeps its type.
TypeOK ==
  /\ changes \in Seq(Subscriptions)
  /\ lastTime \in Nat /\ loaded \subseteq Nat /\ latePuts \subseteq Nat
  /\ step \in [Executions -> Steps]
  /\ running \in [Executions -> BOOLEAN]
  /\ attempts \in [Executions -> Nat]
  /\ asked \in [Executions -> Nat] /\ since \in [Executions -> Nat]
  /\ hasRun \in [Executions -> BOOLEAN]
  /\ file \in [Executions -> Seq(Rows)]
  /\ processed \in [Executions -> Nat] /\ sent \in [Executions -> Nat]
  /\ queue \subseteq Messages /\ dead \subseteq Rows
  /\ table \in [Subscriptions -> Nat]
  /\ written \subseteq Rows /\ reported \subseteq Rows

Accounted(row) == Queued(row) \/ row \in dead \cup written \cup reported

\* A change up to t, or a later one of its subscription, is accounted for.
Covered(t) ==
  \A i \in 1 .. Len(changes) :
    i <= t => \E j \in i .. Len(changes) : changes[j] = changes[i] /\ Accounted(RowAt(j))

(* The next incremental query starts at lastSuccessfulQueryTime and never  *)
(* looks back.  Every change before it, or a later one of its subscription,*)
(* has been written or is on its way to the table, is a dead letter or is  *)
(* reported: whatever failed, was retried, overlapped or came late.        *)
NothingLost == Covered(lastTime)

(* The comment on the query: its order "makes sure that cancellations come *)
(* after the active version of the sub".  When everything has been         *)
(* delivered, the table holds the newest version that was written to it.   *)
CancellationsComeAfter ==
  queue = {} => \A row \in written : row.version <= table[row.sub]

=============================================================================

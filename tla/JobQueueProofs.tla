--------------------------- MODULE JobQueueProofs ---------------------------
(***************************************************************************)
(* Theorems about JobQueue, for every set of CDNs and workers, every retry *)
(* configuration and every number of flushes, stops and crashes.           *)
(***************************************************************************)
EXTENDS JobQueue, TLAPS

-----------------------------------------------------------------------------
(* Lemmas about the operators on the jobs table *)

(* The UPDATE of one row keeps the table's length and every other row. *)
LEMMA UpdateRows ==
  ASSUME NEW t \in Seq(Row), NEW id, NEW row \in Row
  PROVE  /\ Update(t, id, row) \in Seq(Row)
         /\ Len(Update(t, id, row)) = Len(t)
         /\ \A j \in 1..Len(t) :
              Update(t, id, row)[j] = IF j = id THEN row ELSE t[j]
BY DEF Update

(* The statuses of a row. *)
LEMMA RowFields ==
  ASSUME NEW r \in Row
  PROVE  /\ r.cdn \in CDNs /\ r.urls \in Nat /\ r.attempts \in Nat
         /\ r.wait \in Nat /\ r.status \in Status
BY DEF Row

(* Assigning a status keeps a row a row and its other columns. *)
LEMMA WithStatus ==
  ASSUME NEW r \in Row, NEW s \in Status
  PROVE  LET q == [r EXCEPT !.status = s]
         IN  /\ q \in Row
             /\ q.status = s
             /\ q.cdn = r.cdn /\ q.urls = r.urls /\ q.attempts = r.attempts
BY DEF Row

(* So does assigning the columns of a retry. *)
LEMMA WithRetry ==
  ASSUME NEW r \in Row, NEW a \in Nat, NEW b \in Nat, NEW q,
         q = [r EXCEPT !.status = "pending", !.attempts = a, !.wait = b]
  PROVE  /\ q \in Row
         /\ q.status = "pending" /\ q.attempts = a
         /\ q.cdn = r.cdn /\ q.urls = r.urls
BY DEF Row, Status

(* The backoff is a delay between 0 and the ceiling. *)
LEMMA BackoffBounded ==
  ASSUME NEW a
  PROVE  exponential_backoff(a) \in 0..MaxBackoff
BY QueueAssumption DEF exponential_backoff

(* reset_in_flight touches only the status of rows in flight. *)
LEMMA ResetRows ==
  ASSUME NEW t \in Seq(Row)
  PROVE  /\ Reset(t) \in Seq(Row)
         /\ Len(Reset(t)) = Len(t)
         /\ \A i \in 1..Len(t) :
              /\ Reset(t)[i].cdn = t[i].cdn
              /\ Reset(t)[i].urls = t[i].urls
              /\ Reset(t)[i].attempts = t[i].attempts
              /\ Reset(t)[i].status =
                   IF t[i].status = "in_flight" THEN "pending" ELSE t[i].status
<1> DEFINE R(i) == IF t[i].status = "in_flight"
                   THEN [t[i] EXCEPT !.status = "pending"] ELSE t[i]
<1>1. DOMAIN t = 1..Len(t) /\ Len(t) \in Nat
  OBVIOUS
<1>2. ASSUME NEW i \in 1..Len(t)
      PROVE  /\ R(i) \in Row
             /\ R(i).cdn = t[i].cdn
             /\ R(i).urls = t[i].urls
             /\ R(i).attempts = t[i].attempts
             /\ R(i).status = IF t[i].status = "in_flight" THEN "pending" ELSE t[i].status
  <2>1. t[i] \in Row
    OBVIOUS
  <2> QED BY <2>1, WithStatus DEF Status
<1>3. Reset(t) = [i \in 1..Len(t) |-> R(i)]
  BY <1>1 DEF Reset
<1> HIDE DEF R
<1>4. [i \in 1..Len(t) |-> R(i)] \in Seq(Row)
  BY <1>1, <1>2
<1> QED BY <1>1, <1>2, <1>3, <1>4

(* Aging a row changes its wait alone. *)
LEMMA AgedRow ==
  ASSUME NEW r \in Row
  PROVE  /\ Aged(r) \in Row
         /\ Aged(r).cdn = r.cdn
         /\ Aged(r).urls = r.urls
         /\ Aged(r).attempts = r.attempts
         /\ Aged(r).status = r.status
BY DEF Row, Aged

(* The clock changes nothing but the remaining wait. *)
LEMMA AgedRows ==
  ASSUME NEW t \in Seq(Row), NEW u, u = [i \in DOMAIN t |-> Aged(t[i])]
  PROVE  /\ u \in Seq(Row)
         /\ Len(u) = Len(t)
         /\ \A i \in 1..Len(t) :
              /\ u[i].cdn = t[i].cdn
              /\ u[i].urls = t[i].urls
              /\ u[i].attempts = t[i].attempts
              /\ u[i].status = t[i].status
<1>1. DOMAIN t = 1..Len(t) /\ Len(t) \in Nat
  OBVIOUS
<1>3. \A i \in 1..Len(t) : t[i] \in Row
  OBVIOUS
<1>4. u = [i \in 1..Len(t) |-> Aged(t[i])]
  BY <1>1
<1>5. u \in [1..Len(t) -> Row]
  BY <1>3, <1>4, AgedRow
<1>6. u \in Seq(Row) /\ Len(u) = Len(t)
  BY <1>1, <1>5
<1>7. \A i \in 1..Len(t) : u[i] = Aged(t[i])
  BY <1>4
<1> QED BY <1>3, <1>6, <1>7, AgedRow

-----------------------------------------------------------------------------
(* Type correctness *)

(* TypeOK is inductive by itself. *)
LEMMA TypeStep == TypeOK /\ [Next]_vars => TypeOK'
<1> SUFFICES ASSUME TypeOK, [Next]_vars PROVE TypeOK'
  OBVIOUS
<1> USE QueueAssumption
<1>1. ASSUME NEW c \in CDNs, EnqueueInsert(c) PROVE TypeOK'
  <2>1. [cdn |-> c, urls |-> flushes + 1, attempts |-> 0,
         wait |-> 0, status |-> "pending"] \in Row
    BY DEF Row, Status, TypeOK
  <2> QED BY <1>1, <2>1 DEF EnqueueInsert, TypeOK, worker
<1>2. CASE EnqueueCommit
  BY <1>2 DEF EnqueueCommit, TypeOK, worker
<1>3. CASE EnqueueCancel
  BY <1>3 DEF EnqueueCancel, TypeOK, worker, table, ghosts
<1>4. ASSUME NEW w \in Workers, ClaimSelect(w) PROVE TypeOK'
  <2>1. PICK i \in Ready(CdnOf[w]) :
          job' = [job EXCEPT ![w] = [id |-> i, urls |-> conn[i].urls,
                                     attempts |-> conn[i].attempts]]
    BY <1>4 DEF ClaimSelect
  <2>2. i \in 1..Len(conn) /\ conn[i] \in Row
    BY <2>1 DEF Ready, TypeOK
  <2>3. [id |-> i, urls |-> conn[i].urls, attempts |-> conn[i].attempts] \in Job
    BY <2>2, RowFields DEF Job
  <2>4. job' \in [Workers -> Job]
    BY <2>1, <2>3 DEF TypeOK
  <2> QED BY <1>4, <2>4 DEF ClaimSelect, Goto, TypeOK, PC, table, ghosts
<1>5. ASSUME NEW w \in Workers, ClaimUpdate(w) PROVE TypeOK'
  <2>1. CASE ClaimHits(w)
    <3>1. conn[job[w].id] \in Row
      BY <2>1 DEF ClaimHits, TypeOK
    <3>2. [conn[job[w].id] EXCEPT !.status = "in_flight"] \in Row
      BY <3>1, WithStatus DEF Status
    <3>3. conn' \in Seq(Row)
      BY <1>5, <2>1, <3>2, UpdateRows DEF ClaimUpdate, TypeOK
    <3> QED BY <1>5, <3>3 DEF ClaimUpdate, Goto, TypeOK, PC, ghosts
  <2>2. CASE ~ClaimHits(w)
    BY <1>5, <2>2 DEF ClaimUpdate, Goto, TypeOK, PC, ghosts
  <2> QED BY <2>1, <2>2
<1>6. ASSUME NEW w \in Workers, ClaimCommit(w) PROVE TypeOK'
  <2>1. NoJob \in Job
    BY DEF NoJob, Job
  <2> QED BY <1>6, <2>1 DEF ClaimCommit, Again, Goto, TypeOK, PC, ghosts
<1>7. ASSUME NEW w \in Workers, CallProvider(w) PROVE TypeOK'
  <2>1. ASSUME NEW g \in [1..MaxFlushes -> Nat], NEW f
        PROVE  [g EXCEPT ![f] = g[f] + 1] \in [1..MaxFlushes -> Nat]
    <3>1. CASE f \in 1..MaxFlushes
      BY <3>1
    <3>2. CASE f \notin 1..MaxFlushes
      BY <3>2
    <3> QED BY <3>1, <3>2
  <2>2. calls' \in [1..MaxFlushes -> Nat]
    BY <1>7, <2>1 DEF CallProvider, TypeOK
  <2> QED BY <1>7, <2>2 DEF CallProvider, Goto, TypeOK, PC, table
<1>8. ASSUME NEW w \in Workers, NEW row \in Row, conn' = Update(conn, job[w].id, row)
      PROVE  conn' \in Seq(Row)
  BY <1>8, UpdateRows DEF TypeOK
<1>9. ASSUME NEW w \in Workers, NEW s \in Status,
             conn' = Update(conn, job[w].id, [conn[job[w].id] EXCEPT !.status = s])
      PROVE  conn' \in Seq(Row)
  <2>1. CASE job[w].id \in DOMAIN conn
    <3>1. conn[job[w].id] \in Row
      BY <2>1 DEF TypeOK
    <3>2. [conn[job[w].id] EXCEPT !.status = s] \in Row
      BY <3>1, WithStatus
    <3> QED BY <1>8, <1>9, <3>2
  <2>2. CASE job[w].id \notin DOMAIN conn
    BY <1>9, <2>2 DEF TypeOK, Update
  <2> QED BY <2>1, <2>2
<1>10. ASSUME NEW w \in Workers, MarkDone(w) PROVE TypeOK'
  <2>1. conn' \in Seq(Row)
    BY <1>9, <1>10 DEF MarkDone, Status, Settled
  <2>2. job[w].urls \in Nat
    BY DEF TypeOK, Job
  <2> QED BY <1>10, <2>1, <2>2 DEF MarkDone, Goto, TypeOK, PC
<1>11. ASSUME NEW w \in Workers, Reschedule(w) PROVE TypeOK'
  <2>1. conn' \in Seq(Row)
    <3>1. CASE job[w].id \in DOMAIN conn
      <4>1. conn[job[w].id] \in Row /\ Attempt(w) \in Nat
        BY <3>1 DEF TypeOK, Attempt, Job
      <4>2. exponential_backoff(Attempt(w)) \in Nat
        BY BackoffBounded
      <4> QED BY <1>8, <1>11, <4>1, <4>2, WithRetry DEF Reschedule
    <3>2. CASE job[w].id \notin DOMAIN conn
      BY <1>11, <3>2 DEF TypeOK, Update, Reschedule
    <3> QED BY <3>1, <3>2
  <2> QED BY <1>11, <2>1 DEF Reschedule, Goto, TypeOK, PC, ghosts
<1>12. ASSUME NEW w \in Workers, NEW r \in BOOLEAN, MarkFailed(w, r) PROVE TypeOK'
  <2>1. conn' \in Seq(Row)
    BY <1>9, <1>12 DEF MarkFailed, Status, Settled
  <2> QED BY <1>12, <2>1 DEF MarkFailed, Goto, TypeOK, PC, ghosts
<1>13. ASSUME NEW w \in Workers, SettleCommit(w) PROVE TypeOK'
  <2>1. NoJob \in Job
    BY DEF NoJob, Job
  <2> QED BY <1>13, <2>1 DEF SettleCommit, Again, Goto, TypeOK, PC, ghosts
<1>14. CASE Start
  BY <1>14, ResetRows DEF Start, TypeOK, Phase, worker, ghosts
<1>15. CASE Recovered
  BY <1>15 DEF Recovered, TypeOK, Phase, PC, ghosts
<1>16. NoJob \in Job
  BY DEF NoJob, Job
<1>17. CASE Stop
  BY <1>16, <1>17 DEF Stop, AllOff, TypeOK, Phase, PC, table
<1>18. CASE Close
  BY <1>18 DEF Close, TypeOK, Phase, worker, ghosts
<1>19. CASE Crash
  BY <1>16, <1>19 DEF Crash, AllOff, TypeOK, Phase, PC
<1>20. CASE Tick
  BY <1>20, AgedRows DEF Tick, TypeOK, worker, ghosts
<1>21. CASE UNCHANGED vars
  BY <1>21 DEF vars, TypeOK
<1> QED BY <1>1, <1>2, <1>3, <1>4, <1>5, <1>6, <1>7, <1>10, <1>11, <1>12, <1>13,
           <1>14, <1>15, <1>17, <1>18, <1>19, <1>20, <1>21 DEF Next, WorkerStep

(* The initial state of a fresh database. *)
LEMMA TypeInit == Init => TypeOK
<1>1. NoJob \in Job
  BY DEF NoJob, Job
<1> QED BY <1>1, QueueAssumption DEF Init, TypeOK, Phase, PC

(* What a fault that rolls nothing back leaves of the processes. *)
LEMMA FaultEffect ==
  ASSUME TypeOK, KeepingFault
  PROVE  /\ UNCHANGED <<disk, conn, flushes, acked, delivered, calls>>
         /\ stops' \in {stops, stops + 1}
         /\ \/ enq # 0 /\ enq' = 0 /\ UNCHANGED <<phase, pc, job>> /\ stops' = stops + 1
            \/ /\ phase = "running" /\ phase' = "stopping" /\ enq' \in {enq, 0}
               /\ pc' = [w \in Workers |-> "off"] /\ job' = [w \in Workers |-> NoJob]
               /\ stops' = stops + 1 \/ \E w \in Workers : pc[w] = "dead"
            \/ \E w \in Workers :
                 /\ phase = "running" /\ UNCHANGED <<phase, enq, job>>
                 /\ pc[w] # "dead" /\ pc' = [pc EXCEPT ![w] = "dead"]
                 /\ stops' = stops + 1
<1>1. CASE EnqueueFails
  BY <1>1 DEF KeepingFault, EnqueueFails, AllOff, worker
<1>2. ASSUME NEW w \in Workers, WorkerFails(w)
      PROVE  /\ UNCHANGED <<disk, flushes, acked, delivered, calls, phase, enq, job>>
             /\ phase = "running" /\ pc[w] # "dead" /\ pc' = [pc EXCEPT ![w] = "dead"]
             /\ stops' = stops + 1
  BY <1>2 DEF WorkerFails, Goto
<1>3. CASE Abort
  BY <1>3 DEF Abort, AllOff, table, ghosts
<1> QED
  BY <1>1, <1>2, <1>3 DEF KeepingFault

(* Faults keep the types. *)
LEMMA FaultType == TypeOK /\ KeepingFault => TypeOK'
<1> SUFFICES ASSUME TypeOK, KeepingFault PROVE TypeOK'
  OBVIOUS
<1>1. NoJob \in Job
  BY DEF NoJob, Job
<1>2. stops' \in Nat
  BY FaultEffect DEF TypeOK
<1>3. pc' \in [Workers -> PC] /\ job' \in [Workers -> Job] /\ phase' \in Phase
  <2>1. [w \in Workers |-> "off"] \in [Workers -> PC] /\ [w \in Workers |-> NoJob] \in [Workers -> Job]
    BY <1>1 DEF PC
  <2>2. \A w \in Workers : [pc EXCEPT ![w] = "dead"] \in [Workers -> PC]
    BY DEF TypeOK, PC
  <2> QED
    BY <2>1, <2>2, FaultEffect DEF TypeOK, Phase
<1>4. enq' \in 0..MaxFlushes
  BY FaultEffect, QueueAssumption DEF TypeOK
<1> QED
  BY <1>2, <1>3, <1>4, FaultEffect DEF TypeOK

(* Every variable keeps its type, and every row of the jobs table, on disk *)
(* and in the open transaction, stays a well-formed row.                   *)
THEOREM TypeCorrect == Spec => []TypeOK
BY TypeInit, TypeStep, PTL DEF Spec

-----------------------------------------------------------------------------
(* The inductive invariant *)

(* A worker's UPDATE of its own row, seen from the rest of the table. *)
LEMMA OwnRow ==
  ASSUME TypeOK, NEW id \in 1..Len(conn), NEW row \in Row,
         row.cdn = conn[id].cdn, row.urls = conn[id].urls,
         conn' = Update(conn, id, row)
  PROVE  /\ Len(conn') = Len(conn)
         /\ \A j \in 1..Len(conn) :
              /\ conn'[j].cdn = conn[j].cdn
              /\ conn'[j].urls = conn[j].urls
              /\ conn'[j].status = IF j = id THEN row.status ELSE conn[j].status
<1>1. conn \in Seq(Row)
  BY DEF TypeOK
<1> QED BY <1>1, UpdateRows

(* A table whose rows keep their payload preserves what does not depend on *)
(* a status.                                                               *)
LEMMA SamePayload ==
  ASSUME TypeOK, TypeOK', OneRowPerFlush, flushes' = flushes,
         Len(conn') = Len(conn),
         \A j \in 1..Len(conn) : conn'[j].urls = conn[j].urls
  PROVE  OneRowPerFlush'
BY DEF OneRowPerFlush

(* The initial state satisfies the invariant. *)
LEMMA InvInit == Init => QueueInv
<1> SUFFICES ASSUME Init PROVE QueueInv
  OBVIOUS
<1>1. TypeOK
  BY TypeInit
<1>2. Len(disk) = 0 /\ Len(conn) = 0 /\ conn = disk
  BY DEF Init
<1>3. \A w \in Workers : pc[w] = "off"
  BY DEF Init
<1>4. ~ \E i : i \in 1..0
  OBVIOUS
<1> QED BY <1>1, <1>2, <1>3, <1>4 DEF Init, QueueInv, Control, Agreement, OneRowPerFlush,
           Knowledge, ClaimIsExclusive, Owned, Truthful, Durable, Holds

(* enqueue's INSERT adds a row of a new flush. *)
LEMMA InsertStep ==
  ASSUME QueueInv, TypeOK', NEW c \in CDNs, EnqueueInsert(c)
  PROVE  QueueInv'
<1> DEFINE row == [cdn |-> c, urls |-> flushes + 1, attempts |-> 0,
                   wait |-> 0, status |-> "pending"]
           n == Len(conn)
<1> USE QueueAssumption
<1>1. TypeOK
  BY DEF QueueInv
<1>2. n \in Nat /\ flushes \in Nat /\ flushes' = flushes + 1 /\ enq' = flushes + 1
  BY <1>1 DEF TypeOK, EnqueueInsert
<1>3. /\ Len(conn') = n + 1
      /\ \A i \in 1..n : conn'[i] = conn[i]
      /\ conn'[n + 1] = row
  BY <1>1 DEF EnqueueInsert, TypeOK
<1>4. row.status = "pending" /\ row.urls = flushes + 1
  OBVIOUS
<1> HIDE DEF row, n
<1>5. \A i \in 1..(n + 1) : i \in 1..n \/ i = n + 1
  BY <1>2
<1>6. UNCHANGED <<disk, phase, pc, job, acked, delivered>>
  BY DEF EnqueueInsert, worker
<1>7. Control'
  BY <1>6 DEF Control, QueueInv, EnqueueInsert
<1>8. Agreement'
  <2>1. Len(disk) \in Nat /\ Len(disk) <= n
    BY <1>1 DEF QueueInv, Agreement, TypeOK, n
  <2> QED BY <1>2, <1>3, <1>6, <2>1 DEF Agreement, QueueInv, n
<1>9. OneRowPerFlush'
  <2>1. \A i \in 1..n : conn[i].urls \in 1..flushes
    BY DEF OneRowPerFlush, QueueInv, n
  <2>2. \A i, j \in 1..n : conn[i].urls = conn[j].urls => i = j
    BY DEF OneRowPerFlush, QueueInv, n
  <2>3. \A k \in 1..flushes : k \in 1..flushes' /\ k # flushes + 1
    BY <1>2
  <2>4. flushes + 1 \in 1..flushes'
    BY <1>2
  <2>5. \A i \in 1..n : conn'[i].urls = conn[i].urls
    BY <1>3
  <2>6. conn'[n + 1].urls = flushes + 1
    BY <1>3, <1>4
  <2>7. \A i \in 1..(n + 1) : conn'[i].urls \in 1..flushes'
    BY <1>5, <2>1, <2>3, <2>4, <2>5, <2>6
  <2>8. ASSUME NEW i \in 1..(n + 1), NEW j \in 1..(n + 1), conn'[i].urls = conn'[j].urls
        PROVE  i = j
    BY <1>5, <2>1, <2>2, <2>3, <2>5, <2>6, <2>8
  <2> QED BY <1>3, <2>7, <2>8 DEF OneRowPerFlush
<1>10. Knowledge' /\ ClaimIsExclusive'
  <2>1. \A i \in 1..n : i \in 1..(n + 1)
    BY <1>2
  <2> QED BY <1>3, <1>6, <2>1 DEF Knowledge, ClaimIsExclusive, QueueInv, Holds, n
<1>11. Owned'
  <2>1. phase \in {"running", "stopping"}
    BY DEF EnqueueInsert
  <2> QED BY <1>3, <1>4, <1>5, <1>6, <2>1 DEF Owned, QueueInv, Holds, n
<1>12. Truthful'
  BY <1>3, <1>4, <1>5, <1>6 DEF Truthful, QueueInv, Settled, n
<1>13. Durable'
  <2>1. n + 1 \in 1..(n + 1)
    BY <1>2
  <2> QED BY <1>2, <1>3, <1>4, <1>6, <2>1 DEF Durable, QueueInv
<1> QED BY <1>7, <1>8, <1>9, <1>10, <1>11, <1>12, <1>13 DEF QueueInv

(* A COMMIT, whoever issues it, makes the connection's table the committed *)
(* one and changes no row.                                                 *)
LEMMA CommitRows ==
  ASSUME QueueInv, TypeOK', disk' = conn, conn' = conn,
         UNCHANGED <<flushes, delivered>>
  PROVE  Agreement' /\ OneRowPerFlush' /\ Truthful'
<1>1. Len(conn) \in Nat
  BY DEF QueueInv, TypeOK
<1> QED BY <1>1 DEF QueueInv, Agreement, OneRowPerFlush, Truthful

(* Whatever the committed table had, the connection's table has. *)
LEMMA CommitKeepsAcked ==
  ASSUME QueueInv, disk' = conn
  PROVE  \A f \in acked : \E i \in 1..Len(disk') : disk'[i].urls = f
<1> SUFFICES ASSUME NEW f \in acked PROVE \E i \in 1..Len(conn) : conn[i].urls = f
  OBVIOUS
<1>1. PICK i \in 1..Len(disk) : disk[i].urls = f
  BY DEF QueueInv, Durable
<1>2. Len(disk) \in Nat /\ Len(conn) \in Nat /\ Len(disk) <= Len(conn)
  BY DEF QueueInv, TypeOK, Agreement
<1>3. i \in 1..Len(conn)
  BY <1>2
<1> QED BY <1>1, <1>3 DEF QueueInv, Agreement

(* The COMMIT of enqueue keeps the invariant. *)
LEMMA EnqueueCommitStep ==
  ASSUME QueueInv, TypeOK', EnqueueCommit
  PROVE  QueueInv'
<1>1. disk' = conn /\ UNCHANGED <<conn, phase, pc, job, flushes, delivered>>
      /\ enq' = 0 /\ acked' = acked \cup {enq} /\ enq # 0
  BY DEF EnqueueCommit, worker
<1>2. Agreement' /\ OneRowPerFlush' /\ Truthful'
  BY <1>1, CommitRows
<1>3. Control' /\ ClaimIsExclusive' /\ Owned'
  BY <1>1 DEF QueueInv, Control, ClaimIsExclusive, Owned, Holds
<1>4. Knowledge'
  BY <1>1 DEF QueueInv, Knowledge, Holds
<1>5. Durable'
  <2>1. \A f \in acked : \E i \in 1..Len(disk') : disk'[i].urls = f
    BY <1>1, CommitKeepsAcked
  <2>2. \E i \in 1..Len(disk') : disk'[i].urls = enq
    BY <1>1 DEF QueueInv, Durable
  <2> QED BY <1>1, <2>1, <2>2 DEF Durable
<1> QED BY <1>2, <1>3, <1>4, <1>5 DEF QueueInv

(* A cancelled enqueue, whose INSERT stays in the transaction, keeps it. *)
LEMMA EnqueueCancelStep ==
  ASSUME QueueInv, TypeOK', EnqueueCancel
  PROVE  QueueInv'
<1>1. enq' = 0 /\ UNCHANGED <<disk, conn, phase, pc, job, flushes, acked, delivered>>
  BY DEF EnqueueCancel, table, worker, ghosts
<1> QED BY <1>1 DEF QueueInv, Control, Agreement, OneRowPerFlush, Knowledge,
           ClaimIsExclusive, Owned, Truthful, Durable, Holds

(* A worker that takes up, drops or carries on with its row, the tables    *)
(* being unchanged.                                                        *)
LEMMA ClaimSelectStep ==
  ASSUME QueueInv, TypeOK', NEW w \in Workers, ClaimSelect(w)
  PROVE  QueueInv'
<1>1. PICK i \in Ready(CdnOf[w]) :
        job' = [job EXCEPT ![w] = [id |-> i, urls |-> conn[i].urls,
                                   attempts |-> conn[i].attempts]]
  BY DEF ClaimSelect
<1>2. i \in 1..Len(conn) /\ conn[i].cdn = CdnOf[w]
  BY <1>1 DEF Ready, QueueInv, TypeOK
<1>3. /\ UNCHANGED <<disk, conn, phase, enq, flushes, acked, delivered>>
      /\ phase = "running" /\ pc[w] = "claim" /\ pc' = [pc EXCEPT ![w] = "selected"]
  BY DEF ClaimSelect, Goto, table, ghosts
<1>4. /\ pc'[w] = "selected" /\ job'[w].id = i /\ job'[w].urls = conn[i].urls
      /\ \A v \in Workers : v # w => pc'[v] = pc[v] /\ job'[v] = job[v]
  BY <1>1, <1>3 DEF QueueInv, TypeOK
<1>5. \A v \in Workers : Holds(v)' <=> v # w /\ Holds(v)
  BY <1>3, <1>4 DEF Holds
<1>6. \A v \in Workers : Holds(v) => v # w
  BY <1>3 DEF Holds
<1>7. Knowledge'
  <2> SUFFICES ASSUME NEW v \in Workers
               PROVE
    /\ pc'[v] \in {"selected", "won", "claimed", "purging"} =>
         /\ job'[v].id \in 1..Len(conn)
         /\ conn[job'[v].id].urls = job'[v].urls
         /\ conn[job'[v].id].cdn = CdnOf[v]
    /\ Holds(v)' => conn[job'[v].id].status = "in_flight"
    /\ pc'[v] \in {"claimed", "purging"} => job'[v].id \in 1..Len(disk)
    BY <1>3 DEF Knowledge
  <2>1. CASE v = w
    BY <1>2, <1>4, <1>5, <2>1
  <2>2. CASE v # w
    BY <1>4, <1>5, <2>2 DEF QueueInv, Knowledge
  <2> QED BY <2>1, <2>2
<1>8. Control' /\ Agreement' /\ OneRowPerFlush' /\ Truthful' /\ Durable'
  BY <1>3, <1>4, SMTT(30) DEF QueueInv, Control, Agreement, OneRowPerFlush, Truthful, Durable
<1>9. ClaimIsExclusive'
  BY <1>4, <1>5 DEF QueueInv, ClaimIsExclusive
<1>10. Owned'
  <2>1. ASSUME NEW k \in 1..Len(conn), conn[k].status = "in_flight",
               \A v \in Workers : pc'[v] # "dead"
        PROVE  \E v \in Workers : Holds(v)' /\ job'[v].id = k
    <3>1. \A v \in Workers : pc[v] # "dead"
      BY <1>3, <1>4, <2>1
    <3>2. PICK v \in Workers : Holds(v) /\ job[v].id = k
      BY <1>3, <2>1, <3>1 DEF QueueInv, Owned
    <3> QED BY <1>4, <1>5, <1>6, <3>2
  <2> QED BY <1>3, <2>1 DEF Owned
<1> QED BY <1>7, <1>8, <1>9, <1>10 DEF QueueInv

(* What a row update by the worker that may touch the row leaves alone. *)
LEMMA OwnRowFrame ==
  ASSUME QueueInv, TypeOK', NEW id \in 1..Len(conn), NEW row \in Row,
         row.cdn = conn[id].cdn, row.urls = conn[id].urls,
         conn' = Update(conn, id, row),
         conn[id].status \notin Settled,
         row.status \in Settled => id \in 1..Len(disk),
         row.status = "done" => row.urls \in delivered',
         UNCHANGED <<disk, enq, flushes, acked>>, delivered \subseteq delivered'
  PROVE  /\ Agreement' /\ OneRowPerFlush' /\ Truthful' /\ Durable'
         /\ Len(conn') = Len(conn)
         /\ \A j \in 1..Len(conn) :
              /\ conn'[j].cdn = conn[j].cdn
              /\ conn'[j].urls = conn[j].urls
              /\ conn'[j].status = IF j = id THEN row.status ELSE conn[j].status
<1>1. /\ Len(conn') = Len(conn)
      /\ \A j \in 1..Len(conn) :
           /\ conn'[j].cdn = conn[j].cdn
           /\ conn'[j].urls = conn[j].urls
           /\ conn'[j].status = IF j = id THEN row.status ELSE conn[j].status
  BY OwnRow DEF QueueInv
<1>2. Len(disk) \in Nat /\ Len(conn) \in Nat /\ Len(disk) <= Len(conn)
  BY DEF QueueInv, TypeOK, Agreement
<1>3. Agreement'
  <2>1. \A j \in 1..Len(disk) : j \in 1..Len(conn)
    BY <1>2
  <2>2. \A j \in 1..Len(disk) : disk[j].status \in Settled => j # id
    BY DEF QueueInv, Agreement
  <2> QED BY <1>1, <1>2, <2>1, <2>2 DEF QueueInv, Agreement
<1>4. OneRowPerFlush'
  BY <1>1, SamePayload DEF QueueInv
<1>5. Truthful'
  BY <1>1 DEF QueueInv, Truthful
<1>6. Durable'
  BY <1>1 DEF QueueInv, Durable
<1> QED BY <1>1, <1>3, <1>4, <1>5, <1>6

(* claim_ready's guarded UPDATE keeps it, whether it hits a row or not. *)
LEMMA ClaimUpdateStep ==
  ASSUME QueueInv, TypeOK', NEW w \in Workers, ClaimUpdate(w)
  PROVE  QueueInv'
<1> DEFINE id == job[w].id
           row == [conn[id] EXCEPT !.status = "in_flight"]
<1>1. /\ UNCHANGED <<disk, phase, enq, job, flushes, acked, delivered>>
      /\ phase = "running" /\ pc[w] = "selected"
  BY DEF ClaimUpdate, ghosts
<1>2. id \in 1..Len(conn) /\ conn[id] \in Row /\ conn[id].urls = job[w].urls
      /\ conn[id].cdn = CdnOf[w]
  BY <1>1 DEF QueueInv, Knowledge, TypeOK
<1>3. CASE ClaimHits(w)
  <2>1. conn' = Update(conn, id, row) /\ pc' = [pc EXCEPT ![w] = "won"]
        /\ conn[id].status = "pending"
    BY <1>3 DEF ClaimUpdate, Goto, ClaimHits
  <2>2. row \in Row /\ row.status = "in_flight" /\ row.cdn = conn[id].cdn
        /\ row.urls = conn[id].urls
    BY <1>2, WithStatus DEF Status
  <2>3. "pending" \notin Settled /\ "in_flight" \notin Settled
        /\ "in_flight" # "done" /\ "in_flight" # "pending"
    BY DEF Settled
  <2> HIDE DEF id, row
  <2>4. /\ Agreement' /\ OneRowPerFlush' /\ Truthful' /\ Durable'
        /\ Len(conn') = Len(conn)
        /\ \A j \in 1..Len(conn) :
              /\ conn'[j].cdn = conn[j].cdn
              /\ conn'[j].urls = conn[j].urls
              /\ conn'[j].status = IF j = id THEN row.status ELSE conn[j].status
    BY <1>1, <1>2, <2>1, <2>2, <2>3, OwnRowFrame
  <2>5. pc'[w] = "won" /\ \A v \in Workers : v # w => pc'[v] = pc[v]
    BY <2>1 DEF QueueInv, TypeOK
  <2>6. ~Holds(w) /\ Holds(w)' /\ \A v \in Workers : v # w => (Holds(v)' <=> Holds(v))
    BY <1>1, <2>5 DEF Holds
  <2>7. \A v \in Workers : Holds(v) => /\ job[v].id \in 1..Len(conn)
                                       /\ conn[job[v].id].status = "in_flight"
    BY DEF QueueInv, Knowledge, Holds
  <2>8. \A v \in Workers : Holds(v) => job[v].id # id
    BY <2>1, <2>3, <2>7
  <2>9. Control'
    BY <1>1, <2>1, <2>5 DEF QueueInv, Control
  <2>10. Knowledge'
    <3> SUFFICES ASSUME NEW v \in Workers
                 PROVE
      /\ pc'[v] \in {"selected", "won", "claimed", "purging"} =>
           /\ job[v].id \in 1..Len(conn)
           /\ conn'[job[v].id].urls = job[v].urls
           /\ conn'[job[v].id].cdn = CdnOf[v]
      /\ Holds(v)' => conn'[job[v].id].status = "in_flight"
      /\ pc'[v] \in {"claimed", "purging"} => job[v].id \in 1..Len(disk)
      BY <1>1, <2>4 DEF Knowledge
    <3>1. CASE v = w
      BY <1>2, <2>2, <2>4, <2>5, <3>1 DEF id
    <3>2. CASE v # w
      BY <2>4, <2>5, <2>6, <2>7, <2>8, <3>2 DEF QueueInv, Knowledge
    <3> QED BY <3>1, <3>2
  <2>11. ClaimIsExclusive'
    BY <1>1, <2>6, <2>8 DEF QueueInv, ClaimIsExclusive, id
  <2>12. Owned'
    <3>1. ASSUME NEW k \in 1..Len(conn), conn'[k].status = "in_flight",
                 \A v \in Workers : pc'[v] # "dead"
          PROVE  \E v \in Workers : Holds(v)' /\ job'[v].id = k
      <4>1. CASE k = id
        BY <1>1, <2>6, <4>1 DEF id
      <4>2. CASE k # id
        <5>1. \A v \in Workers : pc[v] # "dead"
          BY <1>1, <2>5, <3>1
        <5>2. PICK v \in Workers : Holds(v) /\ job[v].id = k
          BY <1>1, <2>4, <3>1, <4>2, <5>1 DEF QueueInv, Owned
        <5> QED BY <1>1, <2>6, <5>2
      <4> QED BY <4>1, <4>2
    <3> QED BY <1>1, <2>4, <3>1 DEF Owned
  <2> QED BY <2>4, <2>9, <2>10, <2>11, <2>12 DEF QueueInv
<1>4. CASE ~ClaimHits(w)
  <2>1. UNCHANGED conn /\ pc' = [pc EXCEPT ![w] = "lost"]
    BY <1>4 DEF ClaimUpdate, Goto
  <2>2. pc'[w] = "lost" /\ \A v \in Workers : v # w => pc'[v] = pc[v]
    BY <2>1 DEF QueueInv, TypeOK
  <2>3. \A v \in Workers : Holds(v)' <=> Holds(v)
    BY <1>1, <2>2 DEF Holds
  <2>4. Control' /\ Agreement' /\ OneRowPerFlush' /\ Truthful' /\ Durable'
    BY <1>1, <2>1, <2>2 DEF QueueInv, Control, Agreement, OneRowPerFlush, Truthful, Durable
  <2>5. Knowledge'
    BY <1>1, <2>1, <2>2, <2>3 DEF QueueInv, Knowledge
  <2>6. ClaimIsExclusive' /\ Owned'
    BY <1>1, <2>1, <2>2, <2>3 DEF QueueInv, ClaimIsExclusive, Owned
  <2> QED BY <2>4, <2>5, <2>6 DEF QueueInv
<1> QED BY <1>3, <1>4

(* claim_ready's COMMIT keeps it. *)
LEMMA ClaimCommitStep ==
  ASSUME QueueInv, TypeOK', NEW w \in Workers, ClaimCommit(w)
  PROVE  QueueInv'
<1>1. disk' = conn /\ UNCHANGED <<conn, phase, enq, flushes, acked, delivered>>
      /\ phase = "running"
  BY DEF ClaimCommit, ghosts
<1>2. Agreement' /\ OneRowPerFlush' /\ Truthful'
  BY <1>1, CommitRows
<1>3. Durable'
  BY <1>1, CommitKeepsAcked DEF QueueInv, Durable
<1>4. Len(disk) \in Nat /\ Len(conn) \in Nat /\ Len(disk) <= Len(conn)
  BY DEF QueueInv, TypeOK, Agreement
<1>5. CASE pc[w] = "won"
  <2>1. pc' = [pc EXCEPT ![w] = "claimed"] /\ job' = job
    BY <1>5 DEF ClaimCommit, Goto
  <2>2. pc'[w] = "claimed" /\ \A v \in Workers : v # w => pc'[v] = pc[v]
    BY <2>1 DEF QueueInv, TypeOK
  <2>3. \A v \in Workers : Holds(v)' <=> Holds(v)
    BY <1>5, <2>2 DEF Holds
  <2>4. \A v \in Workers : /\ pc[v] \in {"claimed", "purging"} => job[v].id \in 1..Len(conn)
                           /\ pc[v] = "won" => job[v].id \in 1..Len(conn)
    BY DEF QueueInv, Knowledge
  <2>5. Knowledge'
    BY <1>1, <1>5, <2>1, <2>2, <2>3, <2>4 DEF QueueInv, Knowledge
  <2>6. Control' /\ ClaimIsExclusive'
    BY <1>1, <2>1, <2>2, <2>3 DEF QueueInv, Control, ClaimIsExclusive
  <2>7. (\A v \in Workers : pc'[v] # "dead") => \A v \in Workers : pc[v] # "dead"
    BY <1>5, <2>2
  <2>8. Owned'
    BY <1>1, <2>1, <2>3, <2>7 DEF QueueInv, Owned
  <2> QED BY <1>2, <1>3, <2>5, <2>6, <2>8 DEF QueueInv
<1>6. CASE pc[w] = "lost"
  <2>1. pc' = [pc EXCEPT ![w] = "claim"] /\ job' = [job EXCEPT ![w] = NoJob]
    BY <1>6 DEF ClaimCommit, Goto, Again
  <2>2. pc'[w] = "claim" /\ \A v \in Workers : v # w => pc'[v] = pc[v] /\ job'[v] = job[v]
    BY <2>1 DEF QueueInv, TypeOK
  <2>3. ~Holds(w) /\ ~Holds(w)' /\ \A v \in Workers : Holds(v)' <=> Holds(v)
    BY <1>6, <2>2 DEF Holds
  <2>4. \A v \in Workers : pc[v] \in {"claimed", "purging"} => job[v].id \in 1..Len(conn)
    BY DEF QueueInv, Knowledge
  <2>5. Knowledge'
    BY <1>1, <2>2, <2>3, <2>4 DEF QueueInv, Knowledge
  <2>6. Control' /\ ClaimIsExclusive'
    BY <1>1, <2>2, <2>3 DEF QueueInv, Control, ClaimIsExclusive
  <2>7. (\A v \in Workers : pc'[v] # "dead") => \A v \in Workers : pc[v] # "dead"
    BY <1>6, <2>2
  <2>8. Owned'
    BY <1>1, <2>2, <2>3, <2>7 DEF QueueInv, Owned
  <2> QED BY <1>2, <1>3, <2>5, <2>6, <2>8 DEF QueueInv
<1> QED BY <1>5, <1>6 DEF ClaimCommit

(* Any answer of the provider keeps it. *)
LEMMA CallProviderStep ==
  ASSUME QueueInv, TypeOK', NEW w \in Workers, CallProvider(w)
  PROVE  QueueInv'
<1>1. /\ UNCHANGED <<disk, conn, phase, enq, job, flushes, acked, delivered>>
      /\ phase = "running" /\ pc[w] = "claimed" /\ pc' = [pc EXCEPT ![w] = "purging"]
  BY DEF CallProvider, Goto, table
<1>2. pc'[w] = "purging" /\ \A v \in Workers : v # w => pc'[v] = pc[v]
  BY <1>1 DEF QueueInv, TypeOK
<1>3. \A v \in Workers : Holds(v)' <=> Holds(v)
  BY <1>1, <1>2 DEF Holds
<1>4. Knowledge'
  BY <1>1, <1>2, <1>3 DEF QueueInv, Knowledge
<1> QED BY <1>1, <1>2, <1>3, <1>4 DEF QueueInv, Control, Agreement, OneRowPerFlush,
           ClaimIsExclusive, Owned, Truthful, Durable

(* mark_done, reschedule and mark_failed: the worker's UPDATE takes its    *)
(* row out of in_flight.                                                   *)
LEMMA SettleUpdate ==
  ASSUME QueueInv, TypeOK', NEW w \in Workers, NEW row \in Row,
         phase = "running", pc[w] = "purging", Goto(w, "settling"),
         conn' = Update(conn, job[w].id, row),
         row.cdn = conn[job[w].id].cdn, row.urls = conn[job[w].id].urls,
         row.status # "in_flight",
         row.status = "done" => row.urls \in delivered',
         UNCHANGED <<disk, phase, enq, job, flushes, acked>>,
         delivered \subseteq delivered'
  PROVE  QueueInv'
<1> DEFINE id == job[w].id
<1>1. id \in 1..Len(conn) /\ id \in 1..Len(disk) /\ conn[id].status = "in_flight"
  BY DEF QueueInv, Knowledge, Holds
<1>2. "in_flight" \notin Settled
  BY DEF Settled
<1> HIDE DEF id
<1>3. /\ Agreement' /\ OneRowPerFlush' /\ Truthful' /\ Durable'
      /\ Len(conn') = Len(conn)
      /\ \A j \in 1..Len(conn) :
            /\ conn'[j].cdn = conn[j].cdn
            /\ conn'[j].urls = conn[j].urls
            /\ conn'[j].status = IF j = id THEN row.status ELSE conn[j].status
  <2>1. conn' = Update(conn, id, row) /\ row.cdn = conn[id].cdn /\ row.urls = conn[id].urls
    BY DEF id
  <2> QED BY <1>1, <1>2, <2>1, OwnRowFrame
<1>4. pc'[w] = "settling" /\ \A v \in Workers : v # w => pc'[v] = pc[v]
  BY DEF QueueInv, TypeOK, Goto
<1>5. Holds(w) /\ ~Holds(w)' /\ \A v \in Workers : v # w => (Holds(v)' <=> Holds(v))
  BY <1>4 DEF Holds
<1>6. \A v \in Workers : v # w /\ Holds(v) => job[v].id # id
  BY <1>5 DEF QueueInv, ClaimIsExclusive, id
<1>7. \A v \in Workers : Holds(v) => job[v].id \in 1..Len(conn)
                                     /\ conn[job[v].id].status = "in_flight"
  BY DEF QueueInv, Knowledge, Holds
<1>8. Control'
  BY <1>4 DEF QueueInv, Control
<1>9. Knowledge'
  BY <1>3, <1>4, <1>5, <1>6, <1>7 DEF QueueInv, Knowledge
<1>10. ClaimIsExclusive'
  BY <1>5 DEF QueueInv, ClaimIsExclusive
<1>11. Owned'
  <2>1. ASSUME NEW k \in 1..Len(conn), conn'[k].status = "in_flight",
               \A v \in Workers : pc'[v] # "dead"
        PROVE  \E v \in Workers : Holds(v)' /\ job'[v].id = k
    <3>1. k # id /\ conn[k].status = "in_flight"
      BY <1>3, <2>1
    <3>2. \A v \in Workers : pc[v] # "dead"
      BY <1>4, <2>1
    <3>3. PICK v \in Workers : Holds(v) /\ job[v].id = k
      BY <3>1, <3>2 DEF QueueInv, Owned
    <3> QED BY <1>5, <3>1, <3>3 DEF id
  <2> QED BY <1>3, <2>1 DEF Owned
<1> QED BY <1>3, <1>8, <1>9, <1>10, <1>11 DEF QueueInv

(* mark_done keeps it. *)
LEMMA MarkDoneStep ==
  ASSUME QueueInv, TypeOK', NEW w \in Workers, MarkDone(w)
  PROVE  QueueInv'
<1>1. conn[job[w].id] \in Row /\ conn[job[w].id].urls = job[w].urls
  BY DEF MarkDone, QueueInv, Knowledge, TypeOK
<1>2. PICK row : row = [conn[job[w].id] EXCEPT !.status = "done"]
  OBVIOUS
<1>3. /\ row \in Row /\ row.status = "done"
      /\ row.cdn = conn[job[w].id].cdn /\ row.urls = conn[job[w].id].urls
  BY <1>1, <1>2, WithStatus DEF Status, Settled
<1>4. conn' = Update(conn, job[w].id, row)
  BY <1>2 DEF MarkDone
<1>5. /\ phase = "running" /\ pc[w] = "purging" /\ Goto(w, "settling")
      /\ UNCHANGED <<disk, phase, enq, job, flushes, acked>>
      /\ delivered' = delivered \cup {job[w].urls}
  BY DEF MarkDone
<1> QED BY <1>1, <1>3, <1>4, <1>5, SettleUpdate

(* reschedule keeps it. *)
LEMMA RescheduleStep ==
  ASSUME QueueInv, TypeOK', NEW w \in Workers, Reschedule(w)
  PROVE  QueueInv'
<1>1. conn[job[w].id] \in Row /\ Attempt(w) \in Nat
  BY DEF Reschedule, QueueInv, Knowledge, TypeOK, Attempt, Job
<1>2. exponential_backoff(Attempt(w)) \in Nat
  BY BackoffBounded
<1>3. PICK row : row = [conn[job[w].id] EXCEPT
                          !.status = "pending", !.attempts = Attempt(w),
                          !.wait = exponential_backoff(Attempt(w))]
  OBVIOUS
<1>5. /\ row \in Row /\ row.status = "pending"
      /\ row.cdn = conn[job[w].id].cdn /\ row.urls = conn[job[w].id].urls
  <2>1. PICK r \in Row, a \in Nat, b \in Nat :
          r = conn[job[w].id] /\ a = Attempt(w) /\ b = exponential_backoff(Attempt(w))
    BY <1>1, <1>2
  <2>2. row = [r EXCEPT !.status = "pending", !.attempts = a, !.wait = b]
    BY <1>3, <2>1
  <2> QED BY <2>1, <2>2 DEF Row, Status
<1>6. conn' = Update(conn, job[w].id, row)
  BY <1>3 DEF Reschedule
<1>7. /\ phase = "running" /\ pc[w] = "purging" /\ Goto(w, "settling")
      /\ UNCHANGED <<disk, phase, enq, job, flushes, acked, delivered>>
  BY DEF Reschedule, ghosts
<1> QED BY <1>5, <1>6, <1>7, SettleUpdate

(* mark_failed keeps it. *)
LEMMA MarkFailedStep ==
  ASSUME QueueInv, TypeOK', NEW w \in Workers, NEW r \in BOOLEAN, MarkFailed(w, r)
  PROVE  QueueInv'
<1>1. conn[job[w].id] \in Row
  BY DEF MarkFailed, QueueInv, Knowledge, TypeOK
<1>2. PICK row : row = [conn[job[w].id] EXCEPT !.status = "failed"]
  OBVIOUS
<1>3. /\ row \in Row /\ row.status = "failed"
      /\ row.cdn = conn[job[w].id].cdn /\ row.urls = conn[job[w].id].urls
  BY <1>1, <1>2, WithStatus DEF Status, Settled
<1>4. conn' = Update(conn, job[w].id, row)
  BY <1>2 DEF MarkFailed
<1>5. /\ phase = "running" /\ pc[w] = "purging" /\ Goto(w, "settling")
      /\ UNCHANGED <<disk, phase, enq, job, flushes, acked, delivered>>
  BY DEF MarkFailed, ghosts
<1> QED BY <1>3, <1>4, <1>5, SettleUpdate

(* The COMMIT that ends a settling call keeps it. *)
LEMMA SettleCommitStep ==
  ASSUME QueueInv, TypeOK', NEW w \in Workers, SettleCommit(w)
  PROVE  QueueInv'
<1>1. /\ disk' = conn /\ UNCHANGED <<conn, phase, enq, flushes, acked, delivered>>
      /\ phase = "running" /\ pc[w] = "settling"
      /\ pc' = [pc EXCEPT ![w] = "claim"] /\ job' = [job EXCEPT ![w] = NoJob]
  BY DEF SettleCommit, Again, Goto, ghosts
<1>2. Agreement' /\ OneRowPerFlush' /\ Truthful'
  BY <1>1, CommitRows
<1>3. Durable'
  BY <1>1, CommitKeepsAcked DEF QueueInv, Durable
<1>4. pc'[w] = "claim" /\ \A v \in Workers : v # w => pc'[v] = pc[v] /\ job'[v] = job[v]
  BY <1>1 DEF QueueInv, TypeOK
<1>5. ~Holds(w) /\ ~Holds(w)' /\ \A v \in Workers : Holds(v)' <=> Holds(v)
  BY <1>1, <1>4 DEF Holds
<1>6. \A v \in Workers : pc[v] \in {"claimed", "purging"} => job[v].id \in 1..Len(conn)
  BY DEF QueueInv, Knowledge
<1>7. Knowledge'
  BY <1>1, <1>4, <1>5, <1>6 DEF QueueInv, Knowledge
<1>8. Control' /\ ClaimIsExclusive' /\ Owned'
  BY <1>1, <1>4, <1>5 DEF QueueInv, Control, ClaimIsExclusive, Owned
<1> QED BY <1>2, <1>3, <1>7, <1>8 DEF QueueInv

(* A start's reset_in_flight keeps it. *)
LEMMA StartStep ==
  ASSUME QueueInv, TypeOK', Start
  PROVE  QueueInv'
<1>1. /\ UNCHANGED <<disk, enq, pc, job, flushes, acked, delivered>>
      /\ phase = "down" /\ phase' = "recovering" /\ conn' = Reset(conn)
      /\ conn = disk /\ enq = 0 /\ \A w \in Workers : pc[w] = "off"
  BY DEF Start, worker, ghosts, QueueInv, Control
<1>2. /\ Len(conn') = Len(conn)
      /\ \A i \in 1..Len(conn) :
           /\ conn'[i].cdn = conn[i].cdn
           /\ conn'[i].urls = conn[i].urls
           /\ conn'[i].status =
                IF conn[i].status = "in_flight" THEN "pending" ELSE conn[i].status
  BY <1>1, ResetRows DEF QueueInv, TypeOK
<1>3. Len(conn) \in Nat
  BY DEF QueueInv, TypeOK
<1>4. Agreement'
  BY <1>1, <1>2, <1>3 DEF Agreement, Settled
<1>5. OneRowPerFlush' /\ Truthful'
  BY <1>1, <1>2 DEF QueueInv, OneRowPerFlush, Truthful, Settled
<1>6. Control' /\ Knowledge' /\ ClaimIsExclusive' /\ Durable'
  BY <1>1 DEF QueueInv, Control, Knowledge, ClaimIsExclusive, Durable, Holds
<1>7. Owned'
  BY <1>1, <1>2 DEF Owned
<1> QED BY <1>4, <1>5, <1>6, <1>7 DEF QueueInv

(* The COMMIT of reset_in_flight keeps it. *)
LEMMA RecoveredStep ==
  ASSUME QueueInv, TypeOK', Recovered
  PROVE  QueueInv'
<1>1. /\ disk' = conn /\ UNCHANGED <<conn, enq, job, flushes, acked, delivered>>
      /\ phase = "recovering" /\ phase' = "running" /\ enq = 0
      /\ \A w \in Workers : pc'[w] = "claim"
  BY DEF Recovered, ghosts, QueueInv, Control
<1>2. Agreement' /\ OneRowPerFlush' /\ Truthful'
  BY <1>1, CommitRows
<1>3. Durable'
  BY <1>1, CommitKeepsAcked DEF QueueInv, Durable
<1> QED BY <1>1, <1>2, <1>3 DEF QueueInv, Control, Knowledge, ClaimIsExclusive, Owned, Holds

(* A stop, which cancels every worker, keeps it. *)
LEMMA StopStep ==
  ASSUME QueueInv, TypeOK', Stop
  PROVE  QueueInv'
<1>1. /\ UNCHANGED <<disk, conn, enq, flushes, acked, delivered>>
      /\ phase' = "stopping" /\ \A w \in Workers : pc'[w] = "off"
  BY DEF Stop, AllOff, table
<1> QED BY <1>1 DEF QueueInv, Control, Agreement, OneRowPerFlush, Knowledge,
           ClaimIsExclusive, Owned, Truthful, Durable, Holds

(* Rolling back to the committed table, with no worker left. *)
LEMMA RollBack ==
  ASSUME QueueInv, TypeOK', conn' = disk, phase' = "down", enq' = 0,
         \A w \in Workers : pc'[w] = "off",
         UNCHANGED <<disk, flushes, acked, delivered>>
  PROVE  QueueInv'
<1>1. Len(disk) \in Nat /\ Len(conn) \in Nat /\ Len(disk) <= Len(conn)
  BY DEF QueueInv, TypeOK, Agreement
<1>2. \A i \in 1..Len(disk) : i \in 1..Len(conn)
  BY <1>1
<1>3. Agreement'
  BY <1>1 DEF Agreement
<1>4. OneRowPerFlush'
  BY <1>2 DEF QueueInv, Agreement, OneRowPerFlush
<1>5. Truthful'
  BY <1>2 DEF QueueInv, Agreement, Truthful, Settled
<1> QED BY <1>3, <1>4, <1>5 DEF QueueInv, Control, Knowledge, ClaimIsExclusive,
           Owned, Durable, Holds

(* The passing of time keeps it. *)
LEMMA TickStep ==
  ASSUME QueueInv, TypeOK', Tick
  PROVE  QueueInv'
<1>1. UNCHANGED <<phase, enq, pc, job, flushes, acked, delivered>>
  BY DEF Tick, worker, ghosts
<1>13. /\ conn' = [i \in DOMAIN conn |-> Aged(conn[i])]
      /\ disk' = [i \in DOMAIN disk |-> Aged(disk[i])]
      /\ conn \in Seq(Row) /\ disk \in Seq(Row)
  BY DEF Tick, QueueInv, TypeOK
<1>2. /\ Len(conn') = Len(conn)
      /\ \A i \in 1..Len(conn) :
           /\ conn'[i].cdn = conn[i].cdn
           /\ conn'[i].urls = conn[i].urls
           /\ conn'[i].status = conn[i].status
  BY <1>13, AgedRows
<1>3. /\ Len(disk') = Len(disk)
      /\ \A i \in 1..Len(disk) :
           /\ disk'[i].cdn = disk[i].cdn
           /\ disk'[i].urls = disk[i].urls
           /\ disk'[i].status = disk[i].status
  BY <1>13, AgedRows
<1>4. \A i \in 1..Len(disk) : i \in 1..Len(conn)
  BY <1>13 DEF QueueInv, Agreement
<1>5. Control'
  BY <1>13, <1>1 DEF QueueInv, Control
<1>6. Agreement'
  BY <1>2, <1>3, <1>4 DEF QueueInv, Agreement
<1>7. OneRowPerFlush' /\ Truthful'
  BY <1>1, <1>2, <1>3 DEF QueueInv, OneRowPerFlush, Truthful
<1>8. \A w \in Workers : Holds(w)' <=> Holds(w)
  BY <1>1 DEF Holds
<1>9. \A w \in Workers : Holds(w) => job[w].id \in 1..Len(conn)
  BY DEF QueueInv, Knowledge, Holds
<1>10. Knowledge'
  BY <1>1, <1>2, <1>3, <1>8, <1>9 DEF QueueInv, Knowledge
<1>11. ClaimIsExclusive' /\ Owned'
  BY <1>1, <1>2, <1>8 DEF QueueInv, ClaimIsExclusive, Owned
<1>12. Durable'
  BY <1>1, <1>2, <1>3 DEF QueueInv, Durable
<1> QED BY <1>5, <1>6, <1>7, <1>10, <1>11, <1>12 DEF QueueInv

(* Every step of the queue preserves the invariant. *)
LEMMA InvStep == QueueInv /\ [Next]_vars => QueueInv'
<1> SUFFICES ASSUME QueueInv, [Next]_vars PROVE QueueInv'
  OBVIOUS
<1>1. TypeOK'
  BY TypeStep DEF QueueInv
<1>2. ASSUME NEW c \in CDNs, EnqueueInsert(c) PROVE QueueInv'
  BY <1>1, <1>2, InsertStep
<1>3. CASE EnqueueCommit
  BY <1>1, <1>3, EnqueueCommitStep
<1>4. CASE EnqueueCancel
  BY <1>1, <1>4, EnqueueCancelStep
<1>5. ASSUME NEW w \in Workers, WorkerStep(w) PROVE QueueInv'
  <2>1. CASE ClaimSelect(w)
    BY <1>1, <2>1, ClaimSelectStep
  <2>2. CASE ClaimUpdate(w)
    BY <1>1, <2>2, ClaimUpdateStep
  <2>3. CASE ClaimCommit(w)
    BY <1>1, <2>3, ClaimCommitStep
  <2>4. CASE CallProvider(w)
    BY <1>1, <2>4, CallProviderStep
  <2>5. CASE MarkDone(w)
    BY <1>1, <2>5, MarkDoneStep
  <2>6. CASE Reschedule(w)
    BY <1>1, <2>6, RescheduleStep
  <2>7. ASSUME NEW r \in BOOLEAN, MarkFailed(w, r) PROVE QueueInv'
    BY <1>1, <2>7, MarkFailedStep
  <2>8. CASE SettleCommit(w)
    BY <1>1, <2>8, SettleCommitStep
  <2> QED BY <1>5, <2>1, <2>2, <2>3, <2>4, <2>5, <2>6, <2>7, <2>8 DEF WorkerStep
<1>6. CASE Start
  BY <1>1, <1>6, StartStep
<1>7. CASE Recovered
  BY <1>1, <1>7, RecoveredStep
<1>8. CASE Stop
  BY <1>1, <1>8, StopStep
<1>9. CASE Close
  <2>1. /\ conn' = disk /\ phase = "stopping" /\ phase' = "down" /\ enq' = 0
        /\ UNCHANGED <<disk, pc, job, flushes, acked, delivered>>
    BY <1>9 DEF Close, worker, ghosts
  <2>2. \A w \in Workers : pc'[w] = "off"
    BY <2>1 DEF QueueInv, Control
  <2> QED BY <1>1, <2>1, <2>2, RollBack
<1>10. CASE Crash
  <2>1. /\ conn' = disk /\ phase' = "down" /\ enq' = 0
        /\ UNCHANGED <<disk, flushes, acked, delivered>>
        /\ \A w \in Workers : pc'[w] = "off"
    BY <1>10 DEF Crash, AllOff
  <2> QED BY <1>1, <2>1, RollBack
<1>11. CASE Tick
  BY <1>1, <1>11, TickStep
<1>12. CASE UNCHANGED vars
  BY <1>12 DEF vars, QueueInv, TypeOK, Control, Agreement, OneRowPerFlush, Knowledge,
               ClaimIsExclusive, Owned, Truthful, Durable, Holds
<1> QED BY <1>2, <1>3, <1>4, <1>5, <1>6, <1>7, <1>8, <1>9, <1>10, <1>11, <1>12 DEF Next

(* So does every failure that rolls nothing back: what a dead worker held  *)
(* is nobody's until the daemon, which it ends, is started again.          *)
LEMMA FaultStep ==
  ASSUME QueueInv, KeepingFault
  PROVE  QueueInv'
<1>1. TypeOK'
  BY FaultType DEF QueueInv
<1>2. UNCHANGED <<disk, conn, flushes, acked, delivered>>
  BY FaultEffect DEF QueueInv
<1>3. Agreement' /\ OneRowPerFlush' /\ Truthful'
  BY <1>2 DEF QueueInv, Agreement, OneRowPerFlush, Truthful
<1>4. CASE enq # 0 /\ enq' = 0 /\ UNCHANGED <<phase, pc, job>>
  BY <1>1, <1>2, <1>3, <1>4
     DEF QueueInv, Control, Knowledge, ClaimIsExclusive, Owned, Durable, Holds
<1>5. CASE /\ phase = "running" /\ phase' = "stopping" /\ enq' \in {enq, 0}
           /\ pc' = [w \in Workers |-> "off"]
  <2>1. \A w \in Workers : pc'[w] = "off"
    BY <1>5
  <2> QED
    BY <1>1, <1>2, <1>3, <1>5, <2>1
       DEF QueueInv, Control, Knowledge, ClaimIsExclusive, Owned, Durable, Holds
<1>6. ASSUME NEW w \in Workers, phase = "running", UNCHANGED <<phase, enq, job>>,
             pc' = [pc EXCEPT ![w] = "dead"]
      PROVE  QueueInv'
  <2>1. pc'[w] = "dead" /\ \A v \in Workers : v # w => pc'[v] = pc[v]
    BY <1>6 DEF QueueInv, TypeOK
  <2>2. \A v \in Workers : Holds(v)' => Holds(v)
    BY <2>1 DEF Holds
  <2>3. Knowledge'
    BY <1>2, <1>6, <2>1, <2>2 DEF QueueInv, Knowledge
  <2>4. ClaimIsExclusive'
    BY <1>6, <2>2 DEF QueueInv, ClaimIsExclusive
  <2>5. Control' /\ Durable'
    BY <1>2, <1>6 DEF QueueInv, Control, Durable
  <2>6. Owned'
    BY <1>6, <2>1 DEF Owned
  <2> QED
    BY <1>1, <1>3, <2>3, <2>4, <2>5, <2>6 DEF QueueInv
<1> QED
  BY <1>4, <1>5, <1>6, FaultEffect DEF QueueInv

(* The invariant holds in every reachable state, whatever statements fail, *)
(* as long as nothing is rolled back.                                      *)
THEOREM Invariance == KeepingSpec => []QueueInv
<1>1. QueueInv /\ [KeepingNext]_vars => QueueInv'
  BY InvStep, FaultStep DEF KeepingNext
<1> QED BY <1>1, InvInit, PTL DEF KeepingSpec

(* No statement has to fail. *)
LEMMA SpecKeeps == Spec => KeepingSpec
<1>1. [Next]_vars => [KeepingNext]_vars
  BY DEF KeepingNext
<1> QED BY <1>1, PTL DEF Spec, KeepingSpec

-----------------------------------------------------------------------------
(* Safety *)

(* What follows from the invariant in each state. *)
LEMMA InvSafety ==
  QueueInv => AcknowledgedIsDurable /\ ClaimIsExclusive /\ NoOrphanInFlight /\ DoneIsDelivered
<1> SUFFICES ASSUME QueueInv
             PROVE  AcknowledgedIsDurable /\ ClaimIsExclusive /\ NoOrphanInFlight /\ DoneIsDelivered
  OBVIOUS
<1>1. AcknowledgedIsDurable
  BY DEF QueueInv, TypeOK, Durable, AcknowledgedIsDurable
<1>2. ClaimIsExclusive
  BY DEF QueueInv
<1>3. NoOrphanInFlight
  BY DEF QueueInv, TypeOK, Owned, NoOrphanInFlight
<1>4. DoneIsDelivered
  <2>1. DOMAIN disk = 1..Len(disk) /\ Len(disk) \in Nat /\ Len(conn) \in Nat
        /\ Len(disk) <= Len(conn)
    BY DEF QueueInv, TypeOK, Agreement
  <2>2. \A i \in 1..Len(disk) : i \in 1..Len(conn)
    BY <2>1
  <2> QED BY <2>1, <2>2 DEF QueueInv, Agreement, Truthful, Settled, DoneIsDelivered
<1> QED BY <1>1, <1>2, <1>3, <1>4

(* A batch whose enqueue() returned is in the committed table for good,    *)
(* through every stop, crash and rollback of the shared transaction.       *)
THEOREM Durability == Spec => []AcknowledgedIsDurable
BY InvSafety, Invariance, SpecKeeps, PTL

(* However many workers drain a CDN, no two of them hold the same job:     *)
(* the status predicate of claim_ready's UPDATE decides the race.          *)
THEOREM Exclusion == Spec => []ClaimIsExclusive
BY InvSafety, Invariance, SpecKeeps, PTL

(* While the daemon runs every in_flight row has a worker that will settle *)
(* it.                                                                     *)
THEOREM NoOrphans == Spec => []NoOrphanInFlight
BY InvSafety, Invariance, SpecKeeps, PTL

(* A job recorded as done was accepted by its CDN. *)
THEOREM DoneIsTrue == Spec => []DoneIsDelivered
BY InvSafety, Invariance, SpecKeeps, PTL

-----------------------------------------------------------------------------
(* Steps on the committed table *)

(* A step leaves the committed table alone, ages its rows, or replaces it  *)
(* by the connection's table.                                              *)
LEMMA DiskStep ==
  ASSUME QueueInv, [KeepingNext]_vars
  PROVE  \/ disk' = disk
         \/ /\ disk' = [i \in DOMAIN disk |-> Aged(disk[i])]
            /\ delivered' = delivered
         \/ disk' = conn /\ delivered' = delivered
BY FaultEffect
   DEF QueueInv, KeepingNext, Next, vars, EnqueueInsert, EnqueueCommit, EnqueueCancel, WorkerStep,
       ClaimSelect, ClaimUpdate, ClaimCommit, CallProvider, MarkDone, Reschedule,
       MarkFailed, SettleCommit, Start, Recovered, Stop, Close, Crash, Tick,
       table, worker, ghosts

(* mark_done, reschedule, mark_failed and reset_in_flight never take a job *)
(* out of done or failed, nor change what it carried, whatever statements  *)
(* fail without rolling others back.                                       *)
LEMMA KeptFinality == KeepingSpec => SettledIsFinal
<1> DEFINE Final == \A i \in DOMAIN disk : disk[i].status \in Settled =>
                      /\ i \in DOMAIN disk'
                      /\ disk'[i].status = disk[i].status
                      /\ disk'[i].urls = disk[i].urls
<1>1. ASSUME QueueInv, [KeepingNext]_vars PROVE Final
  <2>1. DOMAIN disk = 1..Len(disk) /\ DOMAIN conn = 1..Len(conn)
        /\ Len(disk) \in Nat /\ Len(conn) \in Nat /\ Len(disk) <= Len(conn)
    BY <1>1 DEF QueueInv, TypeOK, Agreement
  <2>2. CASE disk' = disk
    BY <2>2
  <2>3. CASE disk' = [i \in DOMAIN disk |-> Aged(disk[i])]
    <3>1. /\ disk' \in Seq(Row) /\ Len(disk') = Len(disk)
          /\ \A i \in 1..Len(disk) : /\ disk'[i].urls = disk[i].urls
                                     /\ disk'[i].status = disk[i].status
      BY <1>1, <2>3, AgedRows DEF QueueInv, TypeOK
    <3> QED BY <2>1, <3>1
  <2>4. CASE disk' = conn
    <3>1. \A i \in 1..Len(disk) : i \in 1..Len(conn)
      BY <2>1
    <3> QED BY <1>1, <2>1, <2>4, <3>1 DEF QueueInv, Agreement
  <2> QED BY <1>1, <2>2, <2>3, <2>4, DiskStep
<1>2. QueueInv /\ [KeepingNext]_vars => [Final]_vars
  BY <1>1
<1> QED BY <1>2, Invariance, PTL DEF KeepingSpec, SettledIsFinal

(* In particular if none fails. *)
THEOREM Finality == Spec => SettledIsFinal
BY KeptFinality, SpecKeeps, PTL

-----------------------------------------------------------------------------
(* The queue implements the ledger of batches *)

(* Read off a table: a batch's state is that of its one row. *)
LEMMA LedgerRead ==
  ASSUME NEW t \in Seq(Row), NEW f \in 1..MaxFlushes,
         \A i, j \in 1..Len(t) : t[i].urls = t[j].urls => i = j
  PROVE  /\ (\A i \in 1..Len(t) : t[i].urls # f) => LedgerOf(t)[f] = "none"
         /\ \A i \in 1..Len(t) : t[i].urls = f =>
              LedgerOf(t)[f] = IF t[i].status \in Settled THEN t[i].status ELSE "queued"
<1>1. DOMAIN t = 1..Len(t)
  OBVIOUS
<1>2. \A S : Recorded(t, f, S) <=>
             \E i \in 1..Len(t) : t[i].urls = f /\ t[i].status \in S
  BY <1>1 DEF Recorded
<1>3. LedgerOf(t)[f] = IF Recorded(t, f, {"done"}) THEN "done"
                       ELSE IF Recorded(t, f, {"failed"}) THEN "failed"
                       ELSE IF Recorded(t, f, Status) THEN "queued" ELSE "none"
  BY DEF LedgerOf
<1>4. ASSUME \A i \in 1..Len(t) : t[i].urls # f
      PROVE  LedgerOf(t)[f] = "none"
  BY <1>2, <1>3, <1>4
<1>5. ASSUME NEW i \in 1..Len(t), t[i].urls = f
      PROVE  LedgerOf(t)[f] = IF t[i].status \in Settled THEN t[i].status ELSE "queued"
  <2>1. t[i].status \in Status
    BY RowFields
  <2>2. \A S : Recorded(t, f, S) <=> t[i].status \in S
    BY <1>2, <1>5
  <2> QED BY <1>3, <2>1, <2>2 DEF Settled
<1> QED BY <1>4, <1>5

(* Tables that differ in their waits only read the same. *)
LEMMA LedgerSame ==
  ASSUME NEW t \in Seq(Row), NEW u \in Seq(Row), Len(u) = Len(t),
         \A i \in 1..Len(t) : u[i].urls = t[i].urls /\ u[i].status = t[i].status
  PROVE  LedgerOf(u) = LedgerOf(t)
<1>1. DOMAIN t = 1..Len(t) /\ DOMAIN u = 1..Len(t)
  OBVIOUS
<1>2. \A f, S : Recorded(u, f, S) <=> Recorded(t, f, S)
  BY <1>1 DEF Recorded
<1> QED BY <1>2 DEF LedgerOf

(* The committed table has one row per flush too. *)
LEMMA DiskUnique ==
  ASSUME QueueInv
  PROVE  \A i, j \in 1..Len(disk) : disk[i].urls = disk[j].urls => i = j
<1>1. Len(disk) \in Nat /\ Len(conn) \in Nat /\ Len(disk) <= Len(conn)
  BY DEF QueueInv, TypeOK, Agreement
<1>2. \A i \in 1..Len(disk) : i \in 1..Len(conn)
  BY <1>1
<1> QED BY <1>2 DEF QueueInv, Agreement, OneRowPerFlush

(* The initial states of the queue map to those of the ledger. *)
LEMMA LedgerInit == Init => Ledger!Init
<1> SUFFICES ASSUME Init PROVE Ledger!Init
  OBVIOUS
<1>1. TypeOK /\ Len(disk) = 0 /\ delivered = {}
  BY TypeInit DEF Init
<1>2. ~ \E i : i \in 1..0
  OBVIOUS
<1>3. \A f \in 1..MaxFlushes : LedgerOf(disk)[f] = "none"
  BY <1>1, <1>2, LedgerRead DEF TypeOK
<1>4. LedgerOf(disk) = [f \in 1..MaxFlushes |-> "none"]
  BY <1>3 DEF LedgerOf
<1> QED BY <1>1, <1>4 DEF Ledger!Init

(* A COMMIT moves every batch legally. *)
LEMMA LedgerCommit ==
  ASSUME QueueInv, disk' = conn, delivered' = delivered, NEW f \in 1..MaxFlushes
  PROVE  Ledger!Legal(f)
<1>1. \A i \in 1..Len(disk) : i \in 1..Len(conn)
  BY DEF QueueInv, TypeOK, Agreement
<1>2. disk \in Seq(Row) /\ conn \in Seq(Row)
  BY DEF QueueInv, TypeOK
<1>3. /\ (\A i \in 1..Len(disk) : disk[i].urls # f) => LedgerOf(disk)[f] = "none"
      /\ \A i \in 1..Len(disk) : disk[i].urls = f =>
           LedgerOf(disk)[f] = IF disk[i].status \in Settled THEN disk[i].status
                                                        ELSE "queued"
  BY <1>2, DiskUnique, LedgerRead
<1>4. /\ (\A i \in 1..Len(conn) : conn[i].urls # f) => LedgerOf(conn)[f] = "none"
      /\ \A i \in 1..Len(conn) : conn[i].urls = f =>
           LedgerOf(conn)[f] = IF conn[i].status \in Settled THEN conn[i].status
                                                          ELSE "queued"
  <2>1. \A i, j \in 1..Len(conn) : conn[i].urls = conn[j].urls => i = j
    BY DEF QueueInv, OneRowPerFlush
  <2> QED BY <1>2, <2>1, LedgerRead
<1>5. CASE \A i \in 1..Len(conn) : conn[i].urls # f
  BY <1>1, <1>3, <1>4, <1>5 DEF QueueInv, Agreement, Ledger!Legal
<1>6. ASSUME NEW i \in 1..Len(conn), conn[i].urls = f
      PROVE  Ledger!Legal(f)
  <2>1. CASE i \in 1..Len(disk)
    <3>1. disk[i].urls = f /\ (disk[i].status \in Settled => conn[i].status = disk[i].status)
      BY <1>6, <2>1 DEF QueueInv, Agreement
    <3>2. conn[i].status = "done" => f \in delivered
      BY <1>6 DEF QueueInv, Truthful
    <3> QED BY <1>3, <1>4, <1>6, <2>1, <3>1, <3>2 DEF Settled, Ledger!Legal
  <2>2. CASE i \notin 1..Len(disk)
    <3>1. conn[i].status \notin Settled
      BY <2>2 DEF QueueInv, Truthful
    <3>2. \A j \in 1..Len(disk) : disk[j].urls # f
      BY <1>1, <1>6, <2>2 DEF QueueInv, Agreement, OneRowPerFlush
    <3> QED BY <1>3, <1>4, <1>6, <3>1, <3>2 DEF Ledger!Legal
  <2> QED BY <2>1, <2>2
<1> QED BY <1>5, <1>6

(* mark_done's UPDATE is where the ledger learns of a delivery. *)
LEMMA LedgerDeliver ==
  ASSUME QueueInv, NEW w \in Workers, MarkDone(w)
  PROVE  Ledger!Next \/ UNCHANGED Ledger!vars
<1> DEFINE f == job[w].urls
           i == job[w].id
<1>1. disk' = disk /\ delivered' = delivered \cup {f}
  BY DEF MarkDone
<1>2. i \in 1..Len(conn) /\ i \in 1..Len(disk) /\ conn[i].urls = f
      /\ conn[i].status = "in_flight"
  BY DEF MarkDone, QueueInv, Knowledge, Holds
<1>3. f \in 1..MaxFlushes
  BY <1>2, QueueAssumption DEF QueueInv, OneRowPerFlush, TypeOK
<1>4. disk[i].urls = f /\ disk[i].status \notin Settled
  BY <1>2 DEF QueueInv, Agreement, Settled
<1>5. LedgerOf(disk)[f] = "queued"
  BY <1>2, <1>3, <1>4, DiskUnique, LedgerRead DEF QueueInv, TypeOK
<1> QED BY <1>1, <1>3, <1>5 DEF Ledger!Next, Ledger!Deliver

(* Every step of the queue maps to a step of the ledger or to none. *)
LEMMA LedgerStep ==
  ASSUME QueueInv, QueueInv', [KeepingNext]_vars
  PROVE  Ledger!Next \/ UNCHANGED Ledger!vars
<1>1. CASE \E w \in Workers : MarkDone(w)
  BY <1>1, LedgerDeliver
<1>2. CASE disk' = conn /\ delivered' = delivered
  <2>1. LedgerOf(disk)' \in [1..MaxFlushes -> Ledger!State]
    BY DEF LedgerOf, Ledger!State
  <2>2. \A f \in 1..MaxFlushes : Ledger!Legal(f)
    BY <1>2, LedgerCommit
  <2> QED BY <1>2, <2>1, <2>2 DEF Ledger!Next, Ledger!Commit
<1>3. CASE disk' = disk /\ delivered' = delivered
  BY <1>3 DEF Ledger!vars
<1>4. CASE disk' = [i \in DOMAIN disk |-> Aged(disk[i])] /\ delivered' = delivered
  <2>1. /\ disk' \in Seq(Row) /\ Len(disk') = Len(disk) /\ disk \in Seq(Row)
        /\ \A i \in 1..Len(disk) : /\ disk'[i].urls = disk[i].urls
                                   /\ disk'[i].status = disk[i].status
    BY <1>4, AgedRows DEF QueueInv, TypeOK
  <2>2. LedgerOf(disk') = LedgerOf(disk)
    BY <2>1, LedgerSame
  <2> QED BY <1>4, <2>2 DEF Ledger!vars
<1>5. (\E w \in Workers : MarkDone(w)) \/ delivered' = delivered
  BY FaultEffect
     DEF QueueInv, KeepingNext, Next, vars, EnqueueInsert, EnqueueCommit, EnqueueCancel, WorkerStep,
       ClaimSelect, ClaimUpdate, ClaimCommit, CallProvider, Reschedule,
       MarkFailed, SettleCommit, Start, Recovered, Stop, Close, Crash, Tick,
       table, worker, ghosts
<1> QED BY <1>1, <1>2, <1>3, <1>4, <1>5, DiskStep

(* The queue, with its shared transaction, its workers, its restarts and   *)
(* statements that fail without undoing others, implements the ledger: a   *)
(* recorded batch is never lost, moves only forward, and is done only      *)
(* after its delivery.                                                     *)
LEMMA KeptRefinement == KeepingSpec => ImplementsLedger
<1>1. QueueInv /\ QueueInv' /\ [KeepingNext]_vars => [Ledger!Next]_Ledger!vars
  BY LedgerStep
<1> QED BY <1>1, LedgerInit, Invariance, PTL DEF KeepingSpec, ImplementsLedger, Ledger!Spec

(* In particular if none fails. *)
THEOREM Refinement == Spec => ImplementsLedger
BY KeptRefinement, SpecKeeps, PTL

(* Statements that fail do no harm to what others have done, unless SQLite *)
(* undoes it with them: what enqueue() acknowledged stays, one worker has  *)
(* each job, no row is stranded while all workers live, and done means     *)
(* delivered.  (With such a rollback every one of these fails: FaultySpec.)*)
THEOREM FaultsSpareSafety ==
  KeepingSpec => [](/\ AcknowledgedIsDurable /\ ClaimIsExclusive
                    /\ NoOrphanInFlight /\ DoneIsDelivered)
BY Invariance, InvSafety, PTL

(* Nor does it revive what is settled, or move a batch of the ledger but   *)
(* forward.                                                                *)
THEOREM FaultsSpareTheLedger == KeepingSpec => SettledIsFinal /\ ImplementsLedger
BY KeptFinality, KeptRefinement, PTL

-----------------------------------------------------------------------------
(* The bound on provider calls, for a queue drained by one worker per CDN. *)
(* The assumption is needed: with two workers on a CDN one may claim a row *)
(* it selected before the other rescheduled it, and retry from the stale   *)
(* count of attempts it then holds.                                        *)

(* daemon.run starts one _queue_worker per provider. *)
OneWorkerPerCDN == \A v, w \in Workers : CdnOf[v] = CdnOf[w] => v = w

(* Workers of different CDNs hold different rows. *)
LEMMA DifferentRows ==
  ASSUME QueueInv, OneWorkerPerCDN, NEW v \in Workers, NEW w \in Workers, v # w,
         pc[v] \in {"selected", "won", "claimed", "purging"},
         pc[w] \in {"selected", "won", "claimed", "purging"}
  PROVE  job[v].id # job[w].id
BY DEF QueueInv, Knowledge, OneWorkerPerCDN

(* The number of calls a job is allowed is a natural number. *)
LEMMA LimitNat == Limit \in Nat /\ Limit > 0 /\ (\A a \in Int : a < MaxAttempts => a < Limit)
BY QueueAssumption DEF Limit

(* At most one call of a row is not on its account yet. *)
LEMMA CallingNat == \A i : Calling(i) \in {0, 1}
BY DEF Calling

(* The stops that are over are some of the stops. *)
LEMMA PastNat ==
  ASSUME QueueInv, CallInv
  PROVE  Past \in Nat /\ stops \in Nat /\ Past <= stops
BY DEF QueueInv, TypeOK, CallInv, CallsBelow, Past

(* A step in which nobody dies, revives or stops adds none. *)
LEMMA PastSame ==
  ASSUME UNCHANGED stops, \A w \in Workers : pc'[w] = "dead" <=> pc[w] = "dead"
  PROVE  Past' = Past
BY DEF Past

(* No call has been made initially. *)
LEMMA CallInit == Init => CallInv
<1> SUFFICES ASSUME Init PROVE CallInv
  OBVIOUS
<1>1. Len(disk) = 0 /\ Len(conn) = 0 /\ stops = 0 /\ flushes = 0
      /\ \A w \in Workers : pc[w] = "off"
  BY DEF Init
<1>2. \A f \in 1..MaxFlushes : calls[f] = 0
  BY DEF Init
<1>3. ~ \E i : i \in 1..0
  OBVIOUS
<1>4. Past = 0
  BY <1>1 DEF Past
<1> QED
  BY <1>1, <1>2, <1>3, <1>4, LimitNat
     DEF CallInv, CallsBelow, ConnCalls, DiskCalls, AttemptsKnown

(* Steps that leave calls, stops, rows and knowledge alone. *)
LEMMA InsertCalls ==
  ASSUME QueueInv, QueueInv', CallInv, NEW c \in CDNs, EnqueueInsert(c)
  PROVE  CallInv'
<1> DEFINE n == Len(conn)
<1>1. n \in Nat /\ flushes \in Nat /\ Past \in Nat /\ Len(disk) \in Nat /\ Len(disk) <= n
  <2>1. Past \in Nat
    BY PastNat
  <2> QED BY <2>1, QueueAssumption DEF QueueInv, TypeOK, Agreement
<1>2. /\ Len(conn') = n + 1
      /\ \A i \in 1..n : conn'[i] = conn[i]
      /\ conn'[n + 1].attempts = 0 /\ conn'[n + 1].urls = flushes + 1
  BY DEF EnqueueInsert, QueueInv, TypeOK
<1>3. /\ UNCHANGED <<disk, phase, pc, job, calls, stops>> /\ flushes' = flushes + 1
      /\ flushes + 1 \in 1..MaxFlushes
  BY <1>1, QueueAssumption DEF EnqueueInsert, worker
<1>4. \A w \in Workers : pc[w] \in {"selected", "won", "claimed", "purging"} =>
                           job[w].id \in 1..n
  BY DEF QueueInv, Knowledge
<1>5. Past' = Past /\ \A i : Calling(i)' = Calling(i)
  BY <1>3 DEF Past, Calling
<1>6. calls[flushes + 1] = 0
  BY <1>1, <1>3 DEF CallInv, CallsBelow
<1>7. \A i \in 1..(n + 1) : i \in 1..n \/ i = n + 1
  BY <1>1
<1> HIDE DEF n
<1>8. \A i \in 1..n : Calling(i) \in {0, 1}
  BY CallingNat
<1>9. Calling(n + 1) \in {0, 1}
  BY CallingNat
<1>10. CallsBelow'
  BY <1>1, <1>3, <1>5 DEF CallInv, CallsBelow
<1>11. ConnCalls'
  <2> SUFFICES ASSUME NEW i \in 1..(n + 1)
               PROVE  /\ conn'[i].attempts < Limit
                      /\ conn'[i].status \notin Settled =>
                           calls[conn'[i].urls] <= conn'[i].attempts + Past + Calling(i)
    BY <1>2, <1>3, <1>5 DEF ConnCalls
  <2>1. CASE i \in 1..n
    BY <1>2, <2>1 DEF CallInv, ConnCalls, n
  <2>2. CASE i = n + 1
    BY <1>1, <1>2, <1>6, <1>9, <2>2, LimitNat
  <2> QED BY <1>7, <2>1, <2>2
<1>12. DiskCalls'
  BY <1>3, <1>5 DEF CallInv, DiskCalls
<1>13. AttemptsKnown'
  BY <1>2, <1>3, <1>4 DEF CallInv, AttemptsKnown
<1> QED BY <1>10, <1>11, <1>12, <1>13 DEF CallInv

(* A COMMIT: while the daemon runs the committed count may lag by the call *)
(* under way, when it is stopping nobody calls.                            *)
LEMMA CommitCalls ==
  ASSUME QueueInv, CallInv, disk' = conn, phase' \in {phase, "running"},
         calls' = calls, Past' = Past
  PROVE  DiskCalls'
<1>1. Past \in Nat
  BY PastNat
<1>2. phase # "running" => \A i : Calling(i) = 0
  BY DEF QueueInv, Control, Calling
<1>3. SUFFICES ASSUME NEW i \in 1..Len(conn), conn[i].status \notin Settled
      PROVE  calls[conn[i].urls] <=
               conn[i].attempts + Past + (IF phase' = "running" THEN 1 ELSE 0)
  BY DEF CallInv, ConnCalls, DiskCalls
<1>4. conn[i] \in Row /\ conn[i].attempts \in Nat /\ conn[i].urls \in 1..MaxFlushes
  <2>1. flushes <= MaxFlushes /\ flushes \in Nat /\ MaxFlushes \in Nat
    BY QueueAssumption DEF QueueInv, TypeOK
  <2>2. conn[i].urls \in 1..flushes
    BY DEF QueueInv, OneRowPerFlush
  <2> QED BY <2>1, <2>2, RowFields DEF QueueInv, TypeOK
<1>5. calls[conn[i].urls] \in Nat
  BY <1>4 DEF QueueInv, TypeOK
<1>6. calls[conn[i].urls] <= conn[i].attempts + Past + Calling(i)
  BY <1>3 DEF CallInv, ConnCalls
<1>7. Calling(i) \in {0, 1}
  BY CallingNat
<1>8. CASE phase' = "running"
  BY <1>1, <1>4, <1>5, <1>6, <1>7, <1>8
<1>9. CASE phase' # "running"
  BY <1>1, <1>2, <1>4, <1>5, <1>6, <1>7, <1>9
<1> QED BY <1>8, <1>9

(* The committing steps. *)
LEMMA EnqueueEndCalls ==
  ASSUME QueueInv, QueueInv', CallInv, EnqueueCommit \/ EnqueueCancel
  PROVE  CallInv'
<1>1. /\ UNCHANGED <<conn, phase, pc, job, flushes, calls, stops>>
      /\ disk' = conn \/ disk' = disk
  BY DEF EnqueueCommit, EnqueueCancel, worker, table, ghosts
<1>3. Past' = Past /\ \A i : Calling(i)' = Calling(i)
  BY <1>1 DEF Past, Calling
<1>2. DiskCalls'
  <2>1. CASE disk' = conn
    BY <1>1, <1>3, <2>1, CommitCalls
  <2>2. CASE disk' = disk
    BY <1>1, <1>3, <2>2 DEF CallInv, DiskCalls
  <2> QED BY <1>1, <2>1, <2>2
<1>4. AttemptsKnown'
  BY <1>1 DEF CallInv, AttemptsKnown
<1> QED BY <1>1, <1>2, <1>3, <1>4 DEF CallInv, CallsBelow, ConnCalls

(* A worker's COMMIT makes no call. *)
LEMMA WorkerCommitCalls ==
  ASSUME QueueInv, QueueInv', CallInv, NEW w \in Workers,
         ClaimCommit(w) \/ SettleCommit(w)
  PROVE  CallInv'
<1>1. /\ UNCHANGED <<conn, phase, flushes, calls, stops>> /\ disk' = conn
      /\ pc[w] \in {"won", "lost", "settling"}
      /\ \/ pc[w] = "won" /\ pc' = [pc EXCEPT ![w] = "claimed"] /\ job' = job
         \/ pc' = [pc EXCEPT ![w] = "claim"] /\ job' = [job EXCEPT ![w] = NoJob]
  BY DEF ClaimCommit, SettleCommit, Again, Goto, ghosts
<1>2. /\ \A v \in Workers : v # w => pc'[v] = pc[v] /\ job'[v] = job[v]
      /\ \/ pc[w] = "won" /\ pc'[w] = "claimed" /\ job'[w] = job[w]
         \/ pc'[w] = "claim"
  BY <1>1 DEF QueueInv, TypeOK
<1>4. Past' = Past /\ \A i : Calling(i)' = Calling(i)
  BY <1>1, <1>2, PastSame DEF Calling
<1>3. DiskCalls'
  BY <1>1, <1>4, CommitCalls
<1>5. ConnCalls'
  BY <1>1, <1>4 DEF CallInv, ConnCalls
<1>6. AttemptsKnown'
  BY <1>1, <1>2 DEF CallInv, AttemptsKnown
<1> QED BY <1>1, <1>3, <1>4, <1>5, <1>6 DEF CallInv, CallsBelow

(* The COMMIT of reset_in_flight makes no call. *)
LEMMA RecoveredCalls ==
  ASSUME QueueInv, QueueInv', CallInv, Recovered
  PROVE  CallInv'
<1>1. /\ UNCHANGED <<conn, job, flushes, calls, stops>> /\ disk' = conn
      /\ phase = "recovering" /\ phase' = "running" /\ \A w \in Workers : pc'[w] = "claim"
      /\ \A w \in Workers : pc[w] = "off"
  BY DEF Recovered, ghosts, QueueInv, Control
<1>3. Past' = Past /\ \A i : Calling(i)' = Calling(i)
  BY <1>1, PastSame DEF Calling
<1>2. DiskCalls'
  BY <1>1, <1>3, CommitCalls
<1>4. ConnCalls'
  BY <1>1, <1>3 DEF CallInv, ConnCalls
<1> QED BY <1>1, <1>2, <1>3, <1>4 DEF CallInv, CallsBelow, AttemptsKnown

(* claim_ready's SELECT reads the attempts of the row as it is. *)
LEMMA SelectCalls ==
  ASSUME QueueInv, QueueInv', CallInv, NEW w \in Workers, ClaimSelect(w)
  PROVE  CallInv'
<1>1. PICK i \in Ready(CdnOf[w]) :
        job' = [job EXCEPT ![w] = [id |-> i, urls |-> conn[i].urls,
                                   attempts |-> conn[i].attempts]]
  BY DEF ClaimSelect
<1>2. /\ UNCHANGED <<disk, conn, phase, flushes, calls, stops>>
      /\ pc[w] = "claim" /\ pc' = [pc EXCEPT ![w] = "selected"]
  BY DEF ClaimSelect, Goto, table, ghosts
<1>3. /\ pc'[w] = "selected" /\ job'[w].id = i /\ job'[w].attempts = conn[i].attempts
      /\ \A v \in Workers : v # w => pc'[v] = pc[v] /\ job'[v] = job[v]
  BY <1>1, <1>2 DEF QueueInv, TypeOK
<1>4. Past' = Past /\ \A k : Calling(k)' = Calling(k)
  BY <1>2, <1>3, PastSame DEF Calling
<1>5. AttemptsKnown'
  BY <1>2, <1>3 DEF CallInv, AttemptsKnown
<1> QED BY <1>2, <1>4, <1>5 DEF CallInv, CallsBelow, ConnCalls, DiskCalls

(* The claiming UPDATE changes a status from pending to in_flight. *)
LEMMA ClaimCalls ==
  ASSUME QueueInv, QueueInv', CallInv, NEW w \in Workers, ClaimUpdate(w)
  PROVE  CallInv'
<1> DEFINE id == job[w].id
<1>1. /\ UNCHANGED <<disk, phase, job, flushes, calls, stops>>
      /\ pc[w] = "selected"
      /\ \/ pc' = [pc EXCEPT ![w] = "won"]
         \/ pc' = [pc EXCEPT ![w] = "lost"]
  BY DEF ClaimUpdate, Goto, ghosts
<1>2. /\ pc'[w] \in {"won", "lost"}
      /\ \A v \in Workers : v # w => pc'[v] = pc[v]
  BY <1>1 DEF QueueInv, TypeOK
<1>3. id \in 1..Len(conn) /\ conn[id] \in Row
  BY <1>1 DEF QueueInv, Knowledge, TypeOK
<1>4. /\ Len(conn') = Len(conn)
      /\ \A j \in 1..Len(conn) :
           /\ conn'[j].urls = conn[j].urls /\ conn'[j].attempts = conn[j].attempts
           /\ conn'[j].status \notin Settled => conn[j].status \notin Settled
  <2>1. CASE ClaimHits(w)
    <3>1. PICK row : row = [conn[id] EXCEPT !.status = "in_flight"]
      OBVIOUS
    <3>2. row \in Row /\ row.urls = conn[id].urls /\ row.attempts = conn[id].attempts
      BY <1>3, <3>1, WithStatus DEF Status
    <3>3. conn' = Update(conn, id, row) /\ conn[id].status \notin Settled
      BY <2>1, <3>1 DEF ClaimUpdate, ClaimHits, Settled
    <3>4. conn \in Seq(Row)
      BY DEF QueueInv, TypeOK
    <3> HIDE DEF id
    <3>5. Len(conn') = Len(conn)
          /\ \A j \in 1..Len(conn) : conn'[j] = IF j = id THEN row ELSE conn[j]
      BY <3>2, <3>3, <3>4, UpdateRows
    <3> QED BY <3>2, <3>3, <3>5
  <2>2. CASE ~ClaimHits(w)
    BY <2>2 DEF ClaimUpdate
  <2> QED BY <2>1, <2>2
<1>5. Past' = Past /\ \A k : Calling(k)' = Calling(k)
  BY <1>1, <1>2, PastSame DEF Calling
<1>6. ConnCalls'
  BY <1>1, <1>4, <1>5 DEF CallInv, ConnCalls
<1>7. AttemptsKnown'
  <2>1. \A v \in Workers : pc[v] \in {"selected", "won", "claimed", "purging"} =>
                             job[v].id \in 1..Len(conn)
    BY DEF QueueInv, Knowledge
  <2> QED BY <1>1, <1>2, <1>4, <2>1 DEF CallInv, AttemptsKnown
<1> QED BY <1>1, <1>5, <1>6, <1>7 DEF CallInv, CallsBelow, DiskCalls

(* What the workers, the dead included, have copies of: rows of their CDN. *)
LEMMA JobsStep ==
  ASSUME QueueInv, QueueInv', JobsKnown, [KeepingNext]_vars
  PROVE  JobsKnown'
<1> DEFINE Kept == /\ Len(conn) <= Len(conn')
                   /\ \A i \in 1..Len(conn) : conn'[i].cdn = conn[i].cdn
           Off  == \A w \in Workers : job'[w].id = 0
<1>1. Len(conn) \in Nat /\ Len(conn') \in Nat
  BY DEF QueueInv, TypeOK
<1>2. NoJob.id = 0
  BY DEF NoJob
<1>3. ASSUME Kept,
             \A w \in Workers :
               \/ job'[w].id = 0
               \/ job'[w].id = job[w].id /\ (pc'[w] = "off" => pc[w] = "off")
               \/ /\ job'[w].id \in 1..Len(conn) /\ conn[job'[w].id].cdn = CdnOf[w]
                  /\ pc'[w] # "off"
      PROVE  JobsKnown'
  BY <1>1, <1>3 DEF JobsKnown
<1>4. ASSUME Off PROVE JobsKnown'
  BY <1>4 DEF JobsKnown
<1>5. ASSUME NEW c \in CDNs, EnqueueInsert(c) PROVE JobsKnown'
  <2>1. Kept
    BY <1>1, <1>5 DEF EnqueueInsert, QueueInv, TypeOK
  <2> QED BY <1>3, <1>5, <2>1 DEF EnqueueInsert, worker
<1>6. CASE EnqueueCommit \/ EnqueueCancel \/ UNCHANGED vars
  BY <1>6 DEF EnqueueCommit, EnqueueCancel, vars, worker, table, JobsKnown
<1>7. ASSUME NEW w \in Workers, WorkerStep(w) PROVE JobsKnown'
  <2>1. \/ conn' = conn
        \/ job[w].id \in 1..Len(conn) /\ \E row \in Row :
             conn' = Update(conn, job[w].id, row) /\ row.cdn = conn[job[w].id].cdn
    <3>1. CASE ClaimUpdate(w) /\ ~ClaimHits(w)
      BY <3>1 DEF ClaimUpdate
    <3>2. CASE ClaimSelect(w) \/ ClaimCommit(w) \/ CallProvider(w) \/ SettleCommit(w)
      BY <3>2 DEF ClaimSelect, ClaimCommit, CallProvider, SettleCommit, table
    <3>3. ASSUME pc[w] \in {"selected", "purging"}
          PROVE  job[w].id \in 1..Len(conn) /\ conn[job[w].id] \in Row
      BY <3>3 DEF QueueInv, Knowledge, TypeOK
    <3>4. ASSUME pc[w] \in {"selected", "purging"}, NEW s \in Status,
                 conn' = Update(conn, job[w].id, [conn[job[w].id] EXCEPT !.status = s])
          PROVE  job[w].id \in 1..Len(conn) /\ \E row \in Row :
                   conn' = Update(conn, job[w].id, row) /\ row.cdn = conn[job[w].id].cdn
      <4>1. job[w].id \in 1..Len(conn) /\ conn[job[w].id] \in Row
        BY <3>3, <3>4
      <4>2. PICK row : row = [conn[job[w].id] EXCEPT !.status = s]
        OBVIOUS
      <4>3. row \in Row /\ row.cdn = conn[job[w].id].cdn
        BY <3>4, <4>1, <4>2, WithStatus
      <4> QED BY <3>4, <4>1, <4>2, <4>3
    <3>5. CASE ClaimUpdate(w) /\ ClaimHits(w)
      BY <3>4, <3>5 DEF ClaimUpdate, Status
    <3>6. CASE MarkDone(w)
      BY <3>4, <3>6 DEF MarkDone, Status, Settled
    <3>7. ASSUME NEW r \in BOOLEAN, MarkFailed(w, r)
          PROVE  job[w].id \in 1..Len(conn) /\ \E row \in Row :
                   conn' = Update(conn, job[w].id, row) /\ row.cdn = conn[job[w].id].cdn
      BY <3>4, <3>7 DEF MarkFailed, Status, Settled
    <3>8. CASE Reschedule(w)
      <4>1. job[w].id \in 1..Len(conn) /\ conn[job[w].id] \in Row
        BY <3>3, <3>8 DEF Reschedule
      <4>2. PICK a \in Nat, b \in Nat :
              a = Attempt(w) /\ b = exponential_backoff(Attempt(w))
        <5>1. Attempt(w) \in Nat
          BY DEF Attempt, QueueInv, TypeOK, Job
        <5>2. exponential_backoff(Attempt(w)) \in Nat
          BY BackoffBounded, QueueAssumption
        <5> QED BY <5>1, <5>2
      <4>3. PICK r \in Row : r = conn[job[w].id]
        BY <4>1
      <4>4. PICK row : row = [r EXCEPT !.status = "pending", !.attempts = a, !.wait = b]
        OBVIOUS
      <4>6. row \in Row /\ row.cdn = conn[job[w].id].cdn
        <5>1. row \in Row /\ row.cdn = r.cdn
          BY <4>4 DEF Row, Status
        <5> QED BY <4>3, <5>1
      <4>5. conn' = Update(conn, job[w].id, row)
        BY <3>8, <4>2, <4>3, <4>4 DEF Reschedule
      <4> QED BY <4>1, <4>5, <4>6
    <3> QED BY <1>7, <3>1, <3>2, <3>5, <3>6, <3>7, <3>8 DEF WorkerStep
  <2>2. Kept
    <3>1. CASE conn' = conn
      BY <1>1, <3>1
    <3>2. CASE job[w].id \in 1..Len(conn) /\ \E row \in Row :
                 conn' = Update(conn, job[w].id, row) /\ row.cdn = conn[job[w].id].cdn
      <4>1. PICK row \in Row :
              conn' = Update(conn, job[w].id, row) /\ row.cdn = conn[job[w].id].cdn
        BY <3>2
      <4>2. conn \in Seq(Row)
        BY DEF QueueInv, TypeOK
      <4> QED BY <1>1, <4>1, <4>2, UpdateRows
    <3> QED BY <2>1, <3>1, <3>2
  <2>3. /\ \A v \in Workers : v # w => pc'[v] = pc[v] /\ job'[v] = job[v]
        /\ pc'[w] # "off"
        /\ \/ job'[w].id \in {job[w].id, 0}
           \/ job'[w].id \in 1..Len(conn) /\ conn[job'[w].id].cdn = CdnOf[w]
    <3>1. CASE ClaimSelect(w)
      BY <3>1 DEF ClaimSelect, Goto, Ready, QueueInv, TypeOK
    <3>2. CASE ClaimUpdate(w) \/ CallProvider(w)
      BY <3>2 DEF ClaimUpdate, CallProvider, Goto, QueueInv, TypeOK
    <3>3. CASE ClaimCommit(w) \/ SettleCommit(w)
      BY <1>2, <3>3 DEF ClaimCommit, SettleCommit, Goto, Again, QueueInv, TypeOK
    <3>4. CASE MarkDone(w) \/ Reschedule(w) \/ \E r \in BOOLEAN : MarkFailed(w, r)
      BY <3>4 DEF MarkDone, Reschedule, MarkFailed, Goto, QueueInv, TypeOK
    <3> QED BY <1>7, <3>1, <3>2, <3>3, <3>4 DEF WorkerStep
  <2> QED BY <1>3, <2>2, <2>3
<1>8. CASE Start
  <2>1. Kept
    BY <1>1, <1>8, ResetRows DEF Start, QueueInv, TypeOK
  <2> QED BY <1>3, <1>8, <2>1 DEF Start, worker
<1>9. CASE Recovered
  BY <1>1, <1>3, <1>9 DEF Recovered, QueueInv, TypeOK
<1>10. CASE Stop \/ Crash
  BY <1>2, <1>4, <1>10 DEF Stop, Crash, AllOff
<1>11. CASE Close
  <2>1. UNCHANGED job /\ \A w \in Workers : pc[w] = "off"
    BY <1>11 DEF Close, worker, QueueInv, Control
  <2> QED BY <1>4, <2>1 DEF JobsKnown
<1>12. CASE Tick
  <2>1. Kept
    <3>1. conn \in Seq(Row) /\ conn' = [i \in DOMAIN conn |-> Aged(conn[i])]
      BY <1>12 DEF Tick, QueueInv, TypeOK
    <3> QED BY <1>1, <3>1, AgedRows
  <2> QED BY <1>3, <1>12, <2>1 DEF Tick, worker
<1>13. CASE KeepingFault
  <2>1. TypeOK /\ Kept
    BY <1>1, <1>13, FaultEffect DEF QueueInv
  <2>2. \/ UNCHANGED <<pc, job>>
        \/ job' = [w \in Workers |-> NoJob]
        \/ \E w \in Workers : job' = job /\ pc' = [pc EXCEPT ![w] = "dead"]
    BY <1>13, <2>1, FaultEffect
  <2>3. CASE job' = [w \in Workers |-> NoJob]
    BY <1>2, <1>4, <2>3
  <2>4. ASSUME NEW w \in Workers, job' = job, pc' = [pc EXCEPT ![w] = "dead"]
        PROVE  JobsKnown'
    <3>1. pc'[w] = "dead" /\ \A v \in Workers : v # w => pc'[v] = pc[v]
      BY <2>1, <2>4 DEF TypeOK
    <3> QED BY <1>3, <2>1, <2>4, <3>1
  <2> QED BY <1>3, <2>1, <2>2, <2>3, <2>4
<1> QED
  BY <1>5, <1>6, <1>7, <1>8, <1>9, <1>10, <1>11, <1>12, <1>13 DEF KeepingNext, Next

(* So a row of a worker's CDN is in no other worker's hands. *)
LEMMA OwnJob ==
  ASSUME QueueInv, JobsKnown, OneWorkerPerCDN, NEW w \in Workers,
         pc[w] \in {"selected", "won", "claimed", "purging"}
  PROVE  \A v \in Workers : v # w => job[v].id # job[w].id
<1>1. job[w].id \in 1..Len(conn) /\ conn[job[w].id].cdn = CdnOf[w]
  BY DEF QueueInv, Knowledge
<1> QED BY <1>1 DEF JobsKnown, OneWorkerPerCDN

(* The call itself: the worker's row still had an attempt to give. *)
LEMMA ProviderCalls ==
  ASSUME QueueInv, QueueInv', CallInv, JobsKnown, OneWorkerPerCDN,
         NEW w \in Workers, CallProvider(w)
  PROVE  CallInv'
<1>1. PICK id, f : id = job[w].id /\ f = job[w].urls
  OBVIOUS
<1>2. /\ UNCHANGED <<disk, conn, phase, job, flushes, stops>>
      /\ phase = "running" /\ pc[w] = "claimed" /\ pc' = [pc EXCEPT ![w] = "purging"]
      /\ calls' = [calls EXCEPT ![f] = calls[f] + 1]
  BY <1>1 DEF CallProvider, Goto, table
<1>3. pc'[w] = "purging" /\ \A v \in Workers : v # w => pc'[v] = pc[v]
  BY <1>2 DEF QueueInv, TypeOK
<1>4. /\ id \in 1..Len(conn) /\ id \in 1..Len(disk) /\ conn[id].urls = f
      /\ conn[id].status = "in_flight"
  BY <1>1, <1>2 DEF QueueInv, Knowledge, Holds
<1>5. /\ disk[id].urls = f /\ disk[id].status \notin Settled
      /\ disk[id].attempts = conn[id].attempts
  <2>1. disk[id].attempts = conn[id].attempts
    BY <1>1, <1>2 DEF CallInv, AttemptsKnown
  <2> QED BY <1>4, <2>1 DEF QueueInv, Agreement, Settled
<1>6. /\ Calling(id) = 0 /\ Calling(id)' = 1
      /\ Past' = Past
  <2>1. \A v \in Workers : v # w => job[v].id # id
    BY <1>1, <1>2, OwnJob
  <2>2. ~ \E v \in Workers : pc[v] \in {"purging", "dead"} /\ job[v].id = id
    BY <1>2, <2>1
  <2>3. job'[w].id = id /\ pc'[w] = "purging"
    BY <1>1, <1>2, <1>3
  <2>4. Past' = Past
    BY <1>2, <1>3, PastSame
  <2> QED BY <2>2, <2>3, <2>4 DEF Calling
<1>7. \A k : k # id => Calling(k)' = Calling(k)
  BY <1>1, <1>2, <1>3 DEF Calling
<1>8. f \in 1..flushes /\ f \in 1..MaxFlushes /\ flushes \in Nat
  BY <1>4, QueueAssumption DEF QueueInv, OneRowPerFlush, TypeOK
<1>9. calls'[f] = calls[f] + 1 /\ \A g \in 1..MaxFlushes : g # f => calls'[g] = calls[g]
  BY <1>2, <1>8 DEF QueueInv, TypeOK
<1>10. calls[f] \in Nat /\ Past \in Nat /\ conn[id].attempts \in Nat
      /\ conn[id].attempts < Limit /\ calls[f] <= conn[id].attempts + Past
  <2>1. conn[id] \in Row
    BY <1>4 DEF QueueInv, TypeOK
  <2>2. calls[f] <= conn[id].attempts + Past + 0
    BY <1>4, <1>6 DEF CallInv, ConnCalls, Settled
  <2>3. calls[f] \in Nat /\ Past \in Nat
    BY <1>8, PastNat DEF QueueInv, TypeOK
  <2> QED BY <1>4, <2>1, <2>2, <2>3, RowFields DEF CallInv, ConnCalls
<1>11. \A i \in 1..Len(conn) : conn[i].urls \in 1..MaxFlushes
                               /\ (i # id => conn[i].urls # f)
  <2>1. \A g \in 1..flushes : g \in 1..MaxFlushes
    BY QueueAssumption DEF QueueInv, TypeOK
  <2> QED BY <1>4, <2>1 DEF QueueInv, OneRowPerFlush
<1>12. \A i \in 1..Len(disk) : disk[i].urls \in 1..MaxFlushes
                               /\ (i # id => disk[i].urls # f)
  <2>1. \A i \in 1..Len(disk) : i \in 1..Len(conn) /\ disk[i].urls = conn[i].urls
    BY DEF QueueInv, Agreement, TypeOK
  <2> QED BY <1>11, <2>1
<1>13. CallsBelow'
  <2>1. calls[f] + 1 <= Limit + stops
    BY <1>10, LimitNat, PastNat
  <2> QED BY <1>2, <1>6, <1>8, <1>9, <2>1 DEF CallInv, CallsBelow
<1>14. ConnCalls'
  <2> SUFFICES ASSUME NEW i \in 1..Len(conn)
               PROVE  /\ conn[i].attempts < Limit
                      /\ conn[i].status \notin Settled =>
                           calls'[conn[i].urls] <= conn[i].attempts + Past + Calling(i)'
    BY <1>2, <1>6 DEF ConnCalls
  <2>1. CASE i = id
    BY <1>4, <1>6, <1>9, <1>10, <2>1
  <2>2. CASE i # id
    BY <1>7, <1>9, <1>11, <2>2 DEF CallInv, ConnCalls
  <2> QED BY <2>1, <2>2
<1>15. DiskCalls'
  <2> SUFFICES ASSUME NEW i \in 1..Len(disk)
               PROVE  /\ disk[i].attempts < Limit
                      /\ disk[i].status \notin Settled =>
                           calls'[disk[i].urls] <= disk[i].attempts + Past + 1
    BY <1>2, <1>6 DEF DiskCalls
  <2>1. CASE i = id
    BY <1>5, <1>9, <1>10, <2>1
  <2>2. CASE i # id
    BY <1>2, <1>9, <1>12, <2>2 DEF CallInv, DiskCalls
  <2> QED BY <2>1, <2>2
<1>16. AttemptsKnown'
  BY <1>2, <1>3 DEF CallInv, AttemptsKnown
<1> QED BY <1>13, <1>14, <1>15, <1>16 DEF CallInv

(* A settling UPDATE ends the call under way: the row is settled, or counts *)
(* it in its attempts.                                                      *)
LEMMA SettleCalls ==
  ASSUME QueueInv, QueueInv', CallInv, JobsKnown, OneWorkerPerCDN, NEW w \in Workers,
         NEW row \in Row, pc[w] = "purging", pc' = [pc EXCEPT ![w] = "settling"],
         conn' = Update(conn, job[w].id, row),
         row.urls = conn[job[w].id].urls, row.attempts < Limit,
         row.status \notin Settled => row.attempts = conn[job[w].id].attempts + 1,
         UNCHANGED <<disk, phase, job, flushes, calls, stops>>
  PROVE  CallInv'
<1>1. PICK id : id = job[w].id
  OBVIOUS
<1>2. pc'[w] = "settling" /\ \A v \in Workers : v # w => pc'[v] = pc[v]
  BY DEF QueueInv, TypeOK
<1>3. id \in 1..Len(conn) /\ conn[id].status = "in_flight"
  BY <1>1 DEF QueueInv, Knowledge, Holds
<1>4. /\ Len(conn') = Len(conn)
      /\ \A j \in 1..Len(conn) : conn'[j] = IF j = id THEN row ELSE conn[j]
  BY <1>1, UpdateRows DEF QueueInv, TypeOK
<1>5. \A k : k # id => Calling(k)' = Calling(k)
  BY <1>1, <1>2 DEF Calling
<1>6. \A v \in Workers :
        v # w /\ pc[v] \in {"selected", "won", "claimed", "purging"} => job[v].id # id
  BY <1>1, DifferentRows
<1>7. /\ Calling(id) = 1 /\ Calling(id)' = 0
      /\ Past' = Past
  <2>1. \A v \in Workers : v # w => job[v].id # id
    BY <1>1, OwnJob
  <2>2. ~ \E v \in Workers : pc'[v] \in {"purging", "dead"} /\ job'[v].id = id
    BY <1>2, <2>1
  <2>3. Past' = Past
    BY <1>2, PastSame
  <2> QED BY <1>1, <2>2, <2>3 DEF Calling
<1>8. row.status \notin Settled => calls[row.urls] <= row.attempts + Past + 0
  <2>1. calls[conn[id].urls] <= conn[id].attempts + Past + 1
    BY <1>3, <1>7 DEF CallInv, ConnCalls, Settled
  <2>2. conn[id].attempts \in Nat /\ Past \in Nat
    BY <1>3, PastNat, RowFields DEF QueueInv, TypeOK
  <2>3. conn[id].urls \in 1..flushes
    BY <1>3 DEF QueueInv, OneRowPerFlush
  <2>4. calls[conn[id].urls] \in Nat
    BY <2>3, QueueAssumption DEF QueueInv, TypeOK
  <2> QED BY <1>1, <2>1, <2>2, <2>4
<1>9. ConnCalls'
  <2> SUFFICES ASSUME NEW i \in 1..Len(conn)
               PROVE  /\ conn'[i].attempts < Limit
                      /\ conn'[i].status \notin Settled =>
                           calls[conn'[i].urls] <= conn'[i].attempts + Past + Calling(i)'
    BY <1>4, <1>7 DEF ConnCalls
  <2>1. CASE i = id
    BY <1>4, <1>7, <1>8, <2>1
  <2>2. CASE i # id
    BY <1>4, <1>5, <2>2 DEF CallInv, ConnCalls
  <2> QED BY <2>1, <2>2
<1>10. AttemptsKnown'
  <2>1. \A v \in Workers : pc[v] \in {"selected", "won", "claimed", "purging"} =>
                             job[v].id \in 1..Len(conn)
    BY DEF QueueInv, Knowledge
  <2> QED BY <1>2, <1>4, <1>6, <2>1 DEF CallInv, AttemptsKnown
<1> QED BY <1>7, <1>9, <1>10 DEF CallInv, CallsBelow, DiskCalls

(* mark_done and mark_failed take the row out of the account. *)
LEMMA DoneOrFailedCalls ==
  ASSUME QueueInv, QueueInv', CallInv, JobsKnown, OneWorkerPerCDN, NEW w \in Workers,
         MarkDone(w) \/ (\E r \in BOOLEAN : MarkFailed(w, r))
  PROVE  CallInv'
<1>1. PICK s \in Settled : conn' = Update(conn, job[w].id,
                                          [conn[job[w].id] EXCEPT !.status = s])
  BY DEF MarkDone, MarkFailed, Settled
<1>2. /\ pc[w] = "purging" /\ pc' = [pc EXCEPT ![w] = "settling"]
      /\ UNCHANGED <<disk, phase, job, flushes, calls, stops>>
  BY DEF MarkDone, MarkFailed, Goto, ghosts
<1>3. job[w].id \in 1..Len(conn) /\ conn[job[w].id] \in Row
  BY <1>2 DEF QueueInv, Knowledge, TypeOK
<1>4. PICK row : row = [conn[job[w].id] EXCEPT !.status = s]
  OBVIOUS
<1>5. /\ row \in Row /\ row.urls = conn[job[w].id].urls /\ row.status \in Settled
      /\ row.attempts = conn[job[w].id].attempts
  BY <1>3, <1>4, WithStatus DEF Status
<1>6. row.attempts < Limit
  BY <1>3, <1>5 DEF CallInv, ConnCalls
<1> QED BY <1>1, <1>2, <1>4, <1>5, <1>6, SettleCalls

(* reschedule books the call that has just ended. *)
LEMMA RescheduleCalls ==
  ASSUME QueueInv, QueueInv', CallInv, JobsKnown, OneWorkerPerCDN, NEW w \in Workers, Reschedule(w)
  PROVE  CallInv'
<1>1. /\ pc[w] = "purging" /\ pc' = [pc EXCEPT ![w] = "settling"]
      /\ UNCHANGED <<disk, phase, job, flushes, calls, stops>>
      /\ Attempt(w) < MaxAttempts
  BY DEF Reschedule, Goto, ghosts
<1>2. job[w].id \in 1..Len(conn) /\ conn[job[w].id] \in Row
  BY <1>1 DEF QueueInv, Knowledge, TypeOK
<1>3. Attempt(w) = conn[job[w].id].attempts + 1 /\ Attempt(w) \in Nat
  BY <1>1, <1>2, RowFields DEF CallInv, AttemptsKnown, Attempt
<1>4. PICK r \in Row, a \in Nat, b \in Nat :
        r = conn[job[w].id] /\ a = Attempt(w) /\ b = exponential_backoff(Attempt(w))
  BY <1>2, <1>3, BackoffBounded
<1>5. PICK row : row = [r EXCEPT !.status = "pending", !.attempts = a, !.wait = b]
  OBVIOUS
<1>6. row \in Row /\ row.urls = r.urls /\ row.attempts = a
  BY <1>5 DEF Row, Status
<1>7. conn' = Update(conn, job[w].id, row)
  BY <1>4, <1>5 DEF Reschedule
<1>8. row.attempts < Limit
  BY <1>1, <1>4, <1>6, LimitNat
<1> QED BY <1>1, <1>3, <1>4, <1>6, <1>7, <1>8, SettleCalls

(* A start makes no call: what was cut short is on the account of the stop. *)
LEMMA StartCalls ==
  ASSUME QueueInv, QueueInv', CallInv, Start
  PROVE  CallInv'
<1>1. /\ UNCHANGED <<disk, pc, job, flushes, calls, stops>>
      /\ phase = "down" /\ phase' = "recovering" /\ conn' = Reset(conn)
      /\ \A w \in Workers : pc[w] = "off"
  BY DEF Start, worker, ghosts, QueueInv, Control
<1>2. /\ Len(conn') = Len(conn)
      /\ \A i \in 1..Len(conn) :
           /\ conn'[i].urls = conn[i].urls /\ conn'[i].attempts = conn[i].attempts
           /\ conn'[i].status \notin Settled => conn[i].status \notin Settled
  BY <1>1, ResetRows DEF QueueInv, TypeOK, Settled
<1>3. Past' = Past /\ \A k : Calling(k)' = Calling(k)
  BY <1>1, PastSame DEF Calling
<1>4. ConnCalls'
  BY <1>1, <1>2, <1>3 DEF CallInv, ConnCalls
<1> QED BY <1>1, <1>3, <1>4 DEF CallInv, CallsBelow, DiskCalls, AttemptsKnown

(* A stop, a crash or an abort pays for the calls it cuts short. *)
LEMMA StopCalls ==
  ASSUME QueueInv, QueueInv', CallInv, UNCHANGED <<disk, flushes, calls>>,
         \A w \in Workers : pc'[w] = "off", phase' # "running",
         stops' \in {stops, stops + 1},
         stops' = stops + 1 \/ (\E w \in Workers : pc[w] = "dead") \/ phase # "running",
         (conn' = conn /\ phase = "running") \/ conn' = disk
  PROVE  CallInv'
<1>1. /\ Past' = stops' /\ Past \in Nat /\ Past <= stops'
      /\ phase = "running" => Past + 1 <= stops'
  BY PastNat DEF Past
<1>2. stops \in Nat /\ stops' \in Nat /\ Limit \in Nat /\ stops <= stops'
  BY LimitNat DEF QueueInv, TypeOK
<1>3. \A k : Calling(k)' = 0
  BY DEF Calling
<1>4. \A f \in 1..MaxFlushes : calls[f] \in Nat
  BY DEF QueueInv, TypeOK
<1>5. CallsBelow'
  BY <1>1, <1>2, <1>4 DEF CallInv, CallsBelow
<1>6. \A g \in 1..flushes : g \in 1..MaxFlushes
  BY QueueAssumption DEF QueueInv, TypeOK
<1>7. \A i \in 1..Len(conn) : conn[i].attempts \in Nat /\ calls[conn[i].urls] \in Nat
  <2>1. \A i \in 1..Len(conn) : conn[i] \in Row /\ conn[i].urls \in 1..flushes
    BY DEF QueueInv, TypeOK, OneRowPerFlush
  <2> QED BY <1>4, <1>6, <2>1, RowFields
<1>8. \A i \in 1..Len(disk) : disk[i].attempts \in Nat /\ calls[disk[i].urls] \in Nat
  <2>1. \A i \in 1..Len(disk) : disk[i] \in Row /\ disk[i].urls \in 1..flushes
    BY DEF QueueInv, TypeOK, Agreement, OneRowPerFlush
  <2> QED BY <1>4, <1>6, <2>1, RowFields
<1>9. \A i \in 1..Len(disk) :
        /\ disk[i].attempts < Limit
        /\ disk[i].status \notin Settled => calls[disk[i].urls] <= disk[i].attempts + stops' + 0
  <2> SUFFICES ASSUME NEW i \in 1..Len(disk)
               PROVE  /\ disk[i].attempts < Limit
                      /\ disk[i].status \notin Settled =>
                           calls[disk[i].urls] <= disk[i].attempts + stops' + 0
    OBVIOUS
  <2>1. /\ disk[i].attempts < Limit
        /\ disk[i].status \notin Settled =>
             calls[disk[i].urls] <= disk[i].attempts + Past + (IF phase = "running" THEN 1 ELSE 0)
    BY DEF CallInv, DiskCalls
  <2>2. disk[i].attempts \in Nat /\ calls[disk[i].urls] \in Nat
    BY <1>8
  <2>3. Past + (IF phase = "running" THEN 1 ELSE 0) <= stops'
    BY <1>1, <1>2
  <2> QED BY <1>1, <1>2, <2>1, <2>2, <2>3
<1>10. DiskCalls'
  BY <1>1, <1>9 DEF DiskCalls
<1>11. ConnCalls'
  <2>1. CASE conn' = disk
    BY <1>1, <1>3, <1>9, <2>1 DEF ConnCalls
  <2>2. CASE conn' = conn /\ phase = "running"
    <3>1. \A i \in 1..Len(conn) : Calling(i) \in {0, 1}
      BY CallingNat
    <3>2. \A i \in 1..Len(conn) :
            /\ conn[i].attempts < Limit
            /\ conn[i].status \notin Settled =>
                 calls[conn[i].urls] <= conn[i].attempts + stops' + 0
      BY <1>1, <1>2, <1>7, <2>2, <3>1 DEF CallInv, ConnCalls
    <3> QED BY <1>1, <1>3, <2>2, <3>2 DEF ConnCalls
  <2> QED BY <2>1, <2>2
<1>12. AttemptsKnown'
  BY DEF AttemptsKnown
<1> QED BY <1>5, <1>10, <1>11, <1>12 DEF CallInv

(* The passing of time makes no call. *)
LEMMA TickCalls ==
  ASSUME QueueInv, QueueInv', CallInv, Tick
  PROVE  CallInv'
<1>1. UNCHANGED <<phase, pc, job, flushes, calls, stops>>
  BY DEF Tick, worker, ghosts
<1>2. /\ conn' = [i \in DOMAIN conn |-> Aged(conn[i])]
      /\ disk' = [i \in DOMAIN disk |-> Aged(disk[i])]
      /\ conn \in Seq(Row) /\ disk \in Seq(Row)
  BY DEF Tick, QueueInv, TypeOK
<1>3. /\ Len(conn') = Len(conn)
      /\ \A i \in 1..Len(conn) :
           /\ conn'[i].urls = conn[i].urls /\ conn'[i].attempts = conn[i].attempts
           /\ conn'[i].status = conn[i].status
  BY <1>2, AgedRows
<1>4. /\ Len(disk') = Len(disk)
      /\ \A i \in 1..Len(disk) :
           /\ disk'[i].urls = disk[i].urls /\ disk'[i].attempts = disk[i].attempts
           /\ disk'[i].status = disk[i].status
  BY <1>2, AgedRows
<1>5. Past' = Past /\ \A k : Calling(k)' = Calling(k)
  BY <1>1, PastSame DEF Calling
<1>6. ConnCalls'
  BY <1>1, <1>3, <1>5 DEF CallInv, ConnCalls
<1>7. DiskCalls'
  BY <1>1, <1>4, <1>5 DEF CallInv, DiskCalls
<1>8. \A w \in Workers :
        /\ pc[w] \in {"selected", "won", "claimed", "purging"} => job[w].id \in 1..Len(conn)
        /\ pc[w] \in {"claimed", "purging"} => job[w].id \in 1..Len(disk)
  BY DEF QueueInv, Knowledge
<1>9. AttemptsKnown'
  BY <1>1, <1>3, <1>4, <1>8 DEF CallInv, AttemptsKnown
<1> QED BY <1>1, <1>5, <1>6, <1>7, <1>9 DEF CallInv, CallsBelow

(* A fault pays for the call of the worker it ends: the first death of a   *)
(* running daemon is on the account of the stop it brings about.           *)
LEMMA FaultCalls ==
  ASSUME QueueInv, QueueInv', CallInv, KeepingFault
  PROVE  CallInv'
<1>1. /\ UNCHANGED <<disk, conn, flushes, calls>> /\ stops' \in {stops, stops + 1}
      /\ TypeOK
  BY FaultEffect DEF QueueInv
<1>2. /\ Past \in Nat /\ stops \in Nat /\ Past <= stops /\ Limit \in Nat
      /\ \A f \in 1..MaxFlushes : calls[f] \in Nat
  BY PastNat, LimitNat DEF QueueInv, TypeOK
<1>3. ASSUME Past' \in Nat, Past <= Past', phase' = phase,
             \A i : Calling(i) <= Calling(i)',
             \A w \in Workers : pc'[w] = "dead" \/ (pc'[w] = pc[w] /\ job'[w] = job[w])
      PROVE  CallInv'
  <2>1. CallsBelow'
    BY <1>1, <1>2, <1>3 DEF CallInv, CallsBelow
  <2>2. \A i \in 1..Len(conn) :
          /\ conn[i].attempts \in Nat /\ calls[conn[i].urls] \in Nat
          /\ Calling(i) \in {0, 1} /\ Calling(i)' \in {0, 1}
    <3>1. \A i \in 1..Len(conn) : conn[i] \in Row /\ conn[i].urls \in 1..flushes
      BY DEF QueueInv, TypeOK, OneRowPerFlush
    <3>2. \A g \in 1..flushes : g \in 1..MaxFlushes
      BY QueueAssumption DEF QueueInv, TypeOK
    <3>3. \A i : Calling(i)' \in {0, 1}
      BY DEF Calling
    <3> QED BY <1>2, <3>1, <3>2, <3>3, CallingNat, RowFields
  <2>3. \A i \in 1..Len(disk) : disk[i].attempts \in Nat /\ calls[disk[i].urls] \in Nat
    <3>1. \A i \in 1..Len(disk) : disk[i] \in Row /\ i \in 1..Len(conn)
                                  /\ disk[i].urls = conn[i].urls
      BY DEF QueueInv, TypeOK, Agreement
    <3> QED BY <2>2, <3>1, RowFields
  <2>4. ConnCalls'
    <3> SUFFICES ASSUME NEW i \in 1..Len(conn)
                 PROVE  /\ conn[i].attempts < Limit
                        /\ conn[i].status \notin Settled =>
                             calls[conn[i].urls] <= conn[i].attempts + Past' + Calling(i)'
      BY <1>1 DEF ConnCalls
    <3>1. /\ conn[i].attempts < Limit
          /\ conn[i].status \notin Settled =>
               calls[conn[i].urls] <= conn[i].attempts + Past + Calling(i)
      BY DEF CallInv, ConnCalls
    <3>2. Past <= Past' /\ Calling(i) <= Calling(i)' /\ Past' \in Nat
      BY <1>3
    <3>3. /\ conn[i].attempts \in Nat /\ calls[conn[i].urls] \in Nat
          /\ Past \in Nat /\ Calling(i) \in {0, 1} /\ Calling(i)' \in {0, 1}
      BY <1>2, <2>2
    <3>4. ASSUME conn[i].status \notin Settled
          PROVE  calls[conn[i].urls] <= conn[i].attempts + Past' + Calling(i)'
      <4>1. calls[conn[i].urls] <= conn[i].attempts + Past + Calling(i)
        BY <3>1, <3>4
      <4> QED BY <3>2, <3>3, <4>1
    <3> QED BY <3>1, <3>4
  <2>5. DiskCalls'
    BY <1>1, <1>2, <1>3, <2>3 DEF CallInv, DiskCalls
  <2>6. AttemptsKnown'
    BY <1>1, <1>3 DEF CallInv, AttemptsKnown
  <2> QED BY <2>1, <2>4, <2>5, <2>6 DEF CallInv
<1>4. CASE UNCHANGED <<phase, pc, job>> /\ stops' = stops + 1
  <2>1. Past' = Past + 1
    BY <1>2, <1>4 DEF Past
  <2>2. \A i : Calling(i) <= Calling(i)'
    <3>1. \A i : Calling(i)' = Calling(i)
      BY <1>4 DEF Calling
    <3> QED BY <3>1, CallingNat
  <2> QED BY <1>2, <1>3, <1>4, <2>1, <2>2
<1>5. CASE /\ phase = "running" /\ phase' = "stopping"
           /\ pc' = [w \in Workers |-> "off"]
           /\ stops' = stops + 1 \/ \E w \in Workers : pc[w] = "dead"
  <2>1. \A w \in Workers : pc'[w] = "off"
    BY <1>5
  <2> QED BY <1>1, <1>5, <2>1, StopCalls
<1>6. ASSUME NEW w \in Workers, UNCHANGED <<phase, job>>, pc[w] # "dead",
             pc' = [pc EXCEPT ![w] = "dead"], stops' = stops + 1
      PROVE  CallInv'
  <2>1. pc'[w] = "dead" /\ \A v \in Workers : v # w => pc'[v] = pc[v]
    BY <1>1, <1>6 DEF TypeOK
  <2>2. Past' = stops
    BY <1>2, <1>6, <2>1 DEF Past
  <2>3. \A i : Calling(i) <= Calling(i)'
    BY <1>6, <2>1 DEF Calling
  <2> QED BY <1>2, <1>3, <1>6, <2>1, <2>2, <2>3
<1> QED BY <1>1, <1>4, <1>5, <1>6, FaultEffect

(* Every step keeps the account of calls. *)
LEMMA CallStep ==
  ASSUME OneWorkerPerCDN
  PROVE  QueueInv /\ QueueInv' /\ JobsKnown /\ CallInv /\ [KeepingNext]_vars => CallInv'
<1> SUFFICES ASSUME QueueInv, QueueInv', JobsKnown, CallInv, [KeepingNext]_vars
             PROVE  CallInv'
  OBVIOUS
<1>1. ASSUME NEW c \in CDNs, EnqueueInsert(c) PROVE CallInv'
  BY <1>1, InsertCalls
<1>2. CASE EnqueueCommit \/ EnqueueCancel
  BY <1>2, EnqueueEndCalls
<1>3. ASSUME NEW w \in Workers, WorkerStep(w) PROVE CallInv'
  <2>1. CASE ClaimSelect(w)
    BY <2>1, SelectCalls
  <2>2. CASE ClaimUpdate(w)
    BY <2>2, ClaimCalls
  <2>3. CASE ClaimCommit(w) \/ SettleCommit(w)
    BY <2>3, WorkerCommitCalls
  <2>4. CASE CallProvider(w)
    BY <2>4, ProviderCalls
  <2>5. CASE MarkDone(w) \/ \E r \in BOOLEAN : MarkFailed(w, r)
    BY <2>5, DoneOrFailedCalls
  <2>6. CASE Reschedule(w)
    BY <2>6, RescheduleCalls
  <2> QED BY <1>3, <2>1, <2>2, <2>3, <2>4, <2>5, <2>6 DEF WorkerStep
<1>4. CASE Start
  BY <1>4, StartCalls
<1>5. CASE Recovered
  BY <1>5, RecoveredCalls
<1>6. CASE Stop \/ Crash \/ Close
  <2>1. /\ UNCHANGED <<disk, flushes, calls>> /\ phase' # "running"
        /\ \A w \in Workers : pc'[w] = "off"
        /\ stops' \in {stops, stops + 1}
        /\ stops' = stops + 1 \/ phase # "running"
        /\ (conn' = conn /\ phase = "running") \/ conn' = disk
    <3>1. CASE Stop
      BY <3>1 DEF Stop, AllOff, table
    <3>2. CASE Crash
      BY <3>2 DEF Crash, AllOff
    <3>3. CASE Close
      BY <3>3 DEF Close, worker, ghosts, QueueInv, Control
    <3> QED BY <1>6, <3>1, <3>2, <3>3
  <2> QED BY <2>1, StopCalls
<1>7. CASE Tick
  BY <1>7, TickCalls
<1>8. CASE UNCHANGED vars
  <2>1. UNCHANGED <<disk, conn, phase, pc, job, flushes, calls, stops>>
    BY <1>8 DEF vars
  <2>2. Past' = Past /\ \A k : Calling(k)' = Calling(k)
    BY <2>1, PastSame DEF Calling
  <2> QED BY <2>1, <2>2 DEF CallInv, CallsBelow, ConnCalls, DiskCalls, AttemptsKnown
<1>9. CASE KeepingFault
  BY <1>9, FaultCalls
<1> QED
  BY <1>1, <1>2, <1>3, <1>4, <1>5, <1>6, <1>7, <1>8, <1>9 DEF Next, KeepingNext

(* With one worker per CDN a batch reaches its provider at most            *)
(* max_attempts times (once if that is less), plus once per stop, crash or *)
(* failure of the database: retries, restarts, the shared transaction and  *)
(* a worker's death never multiply the calls.                              *)
THEOREM FaultsSpareTheCallBound ==
  ASSUME OneWorkerPerCDN
  PROVE  KeepingSpec => []CallsAreBounded
<1>1. QueueInv /\ QueueInv' /\ JobsKnown /\ CallInv /\ [KeepingNext]_vars
        => JobsKnown' /\ CallInv'
  BY CallStep, JobsStep
<1>2. Init => CallInv /\ JobsKnown
  BY CallInit DEF Init, JobsKnown, NoJob
<1>3. CallInv => CallsAreBounded
  BY DEF CallInv, CallsBelow, CallsAreBounded
<1> QED BY <1>1, <1>2, <1>3, Invariance, PTL DEF KeepingSpec

(* So it does when nothing fails but the process. *)
THEOREM CallBound ==
  ASSUME OneWorkerPerCDN
  PROVE  Spec => []CallsAreBounded
BY FaultsSpareTheCallBound, SpecKeeps, PTL
=============================================================================

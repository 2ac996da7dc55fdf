------------------------------ MODULE JobQueue ------------------------------
(***************************************************************************)
(* The durable purge queue of mirror-mirage (queue.py) and the per-CDN     *)
(* workers that drain it (daemon.py, _queue_worker), across graceful       *)
(* stops, crashes and restarts of the daemon.                              *)
(*                                                                         *)
(* Every task of the daemon shares ONE SQLite connection, hence one        *)
(* transaction: a COMMIT issued by any task also commits the statements    *)
(* the other tasks have executed and not committed yet.  `conn' is the     *)
(* jobs table as the connection sees it, `disk' the committed table that   *)
(* survives a crash.  A statement takes effect when it is issued (aiosqlite*)
(* runs statements in the order they are issued, on one thread); each      *)
(* await of the code is a point where another task may run, or where the   *)
(* awaiting task is cancelled.                                             *)
(*                                                                         *)
(* A row's urls_json is represented by the number of the flush that        *)
(* enqueued it: flushes carry the changes of different moments, so no two  *)
(* are the same batch.  next_attempt_at is kept relative to the clock:     *)
(* wait = max(0, next_attempt_at - time.time()), decremented by Tick.      *)
(*                                                                         *)
(* A definition whose name ends in _Mutant is a faulty variant of the one  *)
(* that follows it: no action uses it, and putting it in the other's place *)
(* must make TLC refute the property it is paired with in PROJECT.json.    *)
(***************************************************************************)
EXTENDS Integers, Sequences

CONSTANTS
  CDNs,             \* the keys of Config.cdns
  Workers,          \* tasks that call claim_ready; the daemon starts one per CDN
  CdnOf,            \* the CDN each worker drains
  MaxAttempts,      \* retry.max_attempts; the loader accepts any integer
  InitialBackoff,   \* retry.initial_backoff_seconds, in ticks
  MaxBackoff,       \* retry.max_backoff_seconds, in ticks
  MaxFlushes,       \* bound: batches handed to enqueue
  MaxStops          \* bound: crashes and stops of the daemon

ASSUME QueueAssumption ==
  /\ CdnOf \in [Workers -> CDNs]
  /\ MaxAttempts \in Int
  /\ InitialBackoff \in Nat
  /\ MaxBackoff \in Nat
  /\ MaxFlushes \in Nat
  /\ MaxStops \in Nat

VARIABLES
  disk,       \* committed jobs table; a job's id is its index (AUTOINCREMENT)
  conn,       \* jobs table inside the connection's open transaction
  phase,      \* of the daemon process
  enq,        \* flush whose INSERT ran and whose COMMIT did not, 0 if none
  pc,         \* where each worker is suspended
  job,        \* the row each worker holds a copy of
  flushes,    \* number of flushes so far
  acked,      \* history: flushes whose enqueue() returned
  delivered,  \* history: flushes a worker of their CDN saw accepted in full
  calls,      \* history: provider calls made for each flush
  stops       \* number of crashes and stops so far

table  == <<disk, conn>>
worker == <<pc, job>>
ghosts == <<flushes, acked, delivered, calls, stops>>
vars   == <<disk, conn, phase, enq, pc, job, flushes, acked, delivered, calls, stops>>

Settled == {"done", "failed"}
Status  == {"pending", "in_flight"} \cup Settled
Phase   == {"down", "recovering", "running", "stopping"}
PC      == {"off", "claim", "selected", "won", "lost", "claimed", "purging",
            "settling", "dead"}

Row == [cdn : CDNs, urls : Nat, attempts : Nat, wait : Nat, status : Status]
Job == [id : Nat, urls : Nat, attempts : Nat]
NoJob == [id |-> 0, urls |-> 0, attempts |-> 0]

(* min(initial * 2 ** (attempts - 1), ceiling) over non-negative delays. *)
exponential_backoff(attempts) ==
  LET delay == InitialBackoff * 2^(attempts - 1)
  IN  IF delay \in 0..MaxBackoff THEN delay ELSE MaxBackoff

(* The UPDATE without its WHERE clause. *)
Update_Mutant(t, id, row) == [i \in DOMAIN t |-> [t[i] EXCEPT !.status = row.status]]
(* UPDATE jobs SET ... WHERE id = ?: a missing id updates nothing. *)
Update(t, id, row) == IF id \in DOMAIN t THEN [t EXCEPT ![id] = row] ELSE t

(* The rows claim_ready's SELECT matches for CDN c. *)
Ready(c) == {i \in DOMAIN conn : /\ conn[i].cdn = c
                                 /\ conn[i].status = "pending"
                                 /\ conn[i].wait = 0}

(* A recovery that forgets the rows a dead process had in flight. *)
Reset_Mutant(t) == t
(* A recovery that also revives the jobs given up as failed. *)
Revive_Mutant(t) == [i \in DOMAIN t |-> IF t[i].status # "done"
                                       THEN [t[i] EXCEPT !.status = "pending"] ELSE t[i]]
(* reset_in_flight's UPDATE. *)
Reset(t) == [i \in DOMAIN t |-> IF t[i].status = "in_flight"
                               THEN [t[i] EXCEPT !.status = "pending"] ELSE t[i]]

(* A row one tick later: next_attempt_at is one tick closer, or passed. *)
Aged(row) == [row EXCEPT !.wait = IF row.wait > 0 THEN row.wait - 1 ELSE 0]

(* attempt = job.attempts + 1 *)
Attempt(w) == job[w].attempts + 1

(* The claiming UPDATE without AND status = 'pending'. *)
ClaimHits_Mutant(w) == job[w].id \in DOMAIN conn
(* WHERE id = ? AND status = 'pending' *)
ClaimHits(w) == /\ job[w].id \in DOMAIN conn
                /\ conn[job[w].id].status = "pending"

AllOff == /\ pc'  = [w \in Workers |-> "off"]
          /\ job' = [w \in Workers |-> NoJob]

Goto(w, to) == pc' = [pc EXCEPT ![w] = to]

(* Back to the top of the worker's loop. *)
Again(w) == /\ Goto(w, "claim")
            /\ job' = [job EXCEPT ![w] = NoJob]

Init == /\ disk = << >>
        /\ conn = << >>
        /\ phase = "down"
        /\ enq = 0
        /\ pc  = [w \in Workers |-> "off"]
        /\ job = [w \in Workers |-> NoJob]
        /\ flushes = 0
        /\ acked = {}
        /\ delivered = {}
        /\ calls = [f \in 1..MaxFlushes |-> 0]
        /\ stops = 0

-----------------------------------------------------------------------------
(* PersistentQueue.enqueue, called by the batcher one flush at a time: it   *)
(* holds the batcher's lock around the call.                                *)

EnqueueInsert(c) ==
  /\ phase \in {"running", "stopping"}
  /\ enq = 0
  /\ flushes < MaxFlushes
  /\ flushes' = flushes + 1
  /\ enq' = flushes + 1
  /\ conn' = Append(conn, [cdn |-> c, urls |-> flushes + 1, attempts |-> 0,
                           wait |-> 0, status |-> "pending"])
  /\ UNCHANGED <<disk, phase, worker, acked, delivered, calls, stops>>

(* enqueue returns the id without the COMMIT. *)
EnqueueCommit_Mutant ==
  /\ enq # 0
  /\ acked' = acked \cup {enq}
  /\ enq' = 0
  /\ UNCHANGED <<table, phase, worker, flushes, delivered, calls, stops>>
EnqueueCommit ==
  /\ enq # 0
  /\ disk' = conn
  /\ acked' = acked \cup {enq}
  /\ enq' = 0
  /\ UNCHANGED <<conn, phase, worker, flushes, delivered, calls, stops>>

(* The task that flushes is cancelled between the INSERT and the COMMIT:   *)
(* the INSERT stays in the shared transaction and nobody is told.          *)
EnqueueCancel ==
  /\ phase = "stopping"
  /\ enq # 0
  /\ enq' = 0
  /\ UNCHANGED <<table, phase, worker, ghosts>>

-----------------------------------------------------------------------------
(* _queue_worker *)

(* claim_ready: SELECT ... ORDER BY id ASC LIMIT 1.  With no ready row the *)
(* worker sleeps and polls again, which changes nothing.                   *)
ClaimSelect(w) ==
  /\ phase = "running"
  /\ pc[w] = "claim"
  /\ \E i \in Ready(CdnOf[w]) :
       /\ \A j \in Ready(CdnOf[w]) : i <= j
       /\ job' = [job EXCEPT ![w] = [id |-> i, urls |-> conn[i].urls,
                                     attempts |-> conn[i].attempts]]
  /\ Goto(w, "selected")
  /\ UNCHANGED <<table, phase, enq, ghosts>>

(* UPDATE ... SET status = 'in_flight' WHERE id = ? AND status = 'pending' *)
ClaimUpdate(w) ==
  LET i == job[w].id
  IN  /\ phase = "running"
      /\ pc[w] = "selected"
      /\ \/ /\ ClaimHits(w)
            /\ conn' = Update(conn, i, [conn[i] EXCEPT !.status = "in_flight"])
            /\ Goto(w, "won")
         \/ /\ ~ClaimHits(w)
            /\ UNCHANGED conn
            /\ Goto(w, "lost")
      /\ UNCHANGED <<disk, phase, enq, job, ghosts>>

(* The COMMIT of the claim; rowcount == 0 means another claimer was first. *)
ClaimCommit(w) ==
  /\ phase = "running"
  /\ \/ pc[w] = "won"  /\ Goto(w, "claimed") /\ UNCHANGED job
     \/ pc[w] = "lost" /\ Again(w)
  /\ disk' = conn
  /\ UNCHANGED <<conn, phase, enq, ghosts>>

CallProvider(w) ==
  /\ phase = "running"
  /\ pc[w] = "claimed"
  /\ Goto(w, "purging")
  /\ calls' = [calls EXCEPT ![job[w].urls] = @ + 1]
  /\ UNCHANGED <<table, phase, enq, job, flushes, acked, delivered, stops>>

(* result.ok: mark_done's UPDATE. *)
MarkDone(w) ==
  LET i == job[w].id
  IN  /\ phase = "running"
      /\ pc[w] = "purging"
      /\ conn' = Update(conn, i, [conn[i] EXCEPT !.status = "done"])
      /\ delivered' = delivered \cup {job[w].urls}
      /\ Goto(w, "settling")
      /\ UNCHANGED <<disk, phase, enq, job, flushes, acked, calls, stops>>

(* A retry that does not write the attempt it has just made. *)
Reschedule_Mutant(w) ==
  LET i == job[w].id
  IN  /\ phase = "running"
      /\ pc[w] = "purging"
      /\ Attempt(w) < MaxAttempts
      /\ conn' = Update(conn, i, [conn[i] EXCEPT !.status = "pending",
                                                 !.wait = exponential_backoff(Attempt(w))])
      /\ Goto(w, "settling")
      /\ UNCHANGED <<disk, phase, enq, job, ghosts>>
(* next_attempt_at lies in the past: the delay is taken off the clock. *)
Reschedule_Sign_Mutant(w) ==
  LET i == job[w].id
  IN  /\ phase = "running"
      /\ pc[w] = "purging"
      /\ Attempt(w) < MaxAttempts
      /\ conn' = Update(conn, i, [conn[i] EXCEPT !.status = "pending",
                                                 !.attempts = Attempt(w),
                                                 !.wait = -exponential_backoff(Attempt(w))])
      /\ Goto(w, "settling")
      /\ UNCHANGED <<disk, phase, enq, job, ghosts>>
(* A retryable result, or an exception the provider raised, with attempts  *)
(* left: reschedule's UPDATE.                                              *)
Reschedule(w) ==
  LET i == job[w].id
  IN  /\ phase = "running"
      /\ pc[w] = "purging"
      /\ Attempt(w) < MaxAttempts
      /\ conn' = Update(conn, i, [conn[i] EXCEPT !.status = "pending",
                                                 !.attempts = Attempt(w),
                                                 !.wait = exponential_backoff(Attempt(w))])
      /\ Goto(w, "settling")
      /\ UNCHANGED <<disk, phase, enq, job, ghosts>>

(* A batch that was given up is recorded as done. *)
MarkFailed_Mutant(w, retryable) ==
  LET i == job[w].id
  IN  /\ phase = "running"
      /\ pc[w] = "purging"
      /\ retryable => Attempt(w) >= MaxAttempts
      /\ conn' = Update(conn, i, [conn[i] EXCEPT !.status = "done"])
      /\ Goto(w, "settling")
      /\ UNCHANGED <<disk, phase, enq, job, ghosts>>
(* A terminal result, or a retryable one on the last attempt: mark_failed. *)
MarkFailed(w, retryable) ==
  LET i == job[w].id
  IN  /\ phase = "running"
      /\ pc[w] = "purging"
      /\ retryable => Attempt(w) >= MaxAttempts
      /\ conn' = Update(conn, i, [conn[i] EXCEPT !.status = "failed"])
      /\ Goto(w, "settling")
      /\ UNCHANGED <<disk, phase, enq, job, ghosts>>

(* The COMMIT of mark_done, reschedule or mark_failed. *)
SettleCommit(w) ==
  /\ phase = "running"
  /\ pc[w] = "settling"
  /\ disk' = conn
  /\ Again(w)
  /\ UNCHANGED <<conn, phase, enq, ghosts>>

-----------------------------------------------------------------------------
(* daemon.run and the process around it *)

(* PersistentQueue.open, then reset_in_flight's UPDATE. *)
Start ==
  /\ phase = "down"
  /\ phase' = "recovering"
  /\ conn' = Reset(conn)
  /\ UNCHANGED <<disk, enq, worker, ghosts>>

(* reset_in_flight's COMMIT; the task group then starts the workers. *)
Recovered ==
  /\ phase = "recovering"
  /\ phase' = "running"
  /\ disk' = conn
  /\ pc' = [w \in Workers |-> "claim"]
  /\ UNCHANGED <<conn, enq, job, ghosts>>

(* SIGTERM: the task group cancels every worker at the await it is         *)
(* suspended in, before any of them runs again.                            *)
Stop ==
  /\ phase = "running"
  /\ stops < MaxStops
  /\ stops' = stops + 1
  /\ phase' = "stopping"
  /\ AllOff
  /\ UNCHANGED <<table, enq, flushes, acked, delivered, calls>>

(* queue.close once every task has ended: what is not committed is rolled  *)
(* back.                                                                   *)
Close ==
  /\ phase = "stopping"
  /\ enq = 0
  /\ phase' = "down"
  /\ conn' = disk
  /\ UNCHANGED <<disk, enq, worker, ghosts>>

(* The process dies at any point; a SIGTERM during recovery, when there is *)
(* nothing to drain, comes to the same.                                    *)
Crash ==
  /\ phase # "down"
  /\ stops < MaxStops
  /\ stops' = stops + 1
  /\ phase' = "down"
  /\ conn' = disk
  /\ enq' = 0
  /\ AllOff
  /\ UNCHANGED <<disk, flushes, acked, delivered, calls>>

(* time.time() advances, whether or not the daemon runs. *)
Tick ==
  /\ conn' = [i \in DOMAIN conn |-> Aged(conn[i])]
  /\ disk' = [i \in DOMAIN disk |-> Aged(disk[i])]
  /\ UNCHANGED <<phase, enq, worker, ghosts>>

WorkerStep(w) ==
  \/ ClaimSelect(w) \/ ClaimUpdate(w) \/ ClaimCommit(w) \/ CallProvider(w)
  \/ MarkDone(w) \/ Reschedule(w)
  \/ MarkFailed(w, TRUE) \/ MarkFailed(w, FALSE)
  \/ SettleCommit(w)

Next ==
  \/ \E c \in CDNs : EnqueueInsert(c)
  \/ EnqueueCommit \/ EnqueueCancel
  \/ \E w \in Workers : WorkerStep(w)
  \/ Start \/ Recovered \/ Stop \/ Close \/ Crash
  \/ Tick

Spec == Init /\ [][Next]_vars

(* Every task of a running daemon is scheduled, a provider call returns    *)
(* (httpx and boto3 calls have timeouts), time passes and a daemon that is *)
(* down is started again (Restart=on-failure, or the operator).            *)
Fairness ==
  /\ \A w \in Workers : WF_vars(WorkerStep(w))
  /\ WF_vars(EnqueueCommit \/ EnqueueCancel)
  /\ WF_vars(Start) /\ WF_vars(Recovered) /\ WF_vars(Close) /\ WF_vars(Tick)

FairSpec == Spec /\ Fairness

-----------------------------------------------------------------------------
(* Database failures: disk full, I/O error, a database locked by an         *)
(* operator.  The call raises, and SQLite may have rolled the whole open    *)
(* transaction back, the statements of the other tasks included; their      *)
(* COMMITs then find no transaction and succeed.  A failure counts as a     *)
(* stop.                                                                    *)

RolledBackOrNot == conn' \in {conn, disk}

(* enqueue raises.  A debounce task dies alone, outside the task group; in  *)
(* the pipeline (submit at the size cap) the exception ends the task group. *)
EnqueueFails ==
  /\ enq # 0
  /\ stops < MaxStops
  /\ stops' = stops + 1
  /\ enq' = 0
  /\ RolledBackOrNot
  /\ \/ UNCHANGED <<phase, worker>>
     \/ phase = "running" /\ phase' = "stopping" /\ AllOff
  /\ UNCHANGED <<disk, flushes, acked, delivered, calls>>

(* A statement or a COMMIT of worker w raises, which ends the task; a      *)
(* failing SELECT leaves the transaction alone.                            *)
WorkerFails(w) ==
  /\ phase = "running"
  /\ pc[w] \notin {"claimed", "dead"}
  /\ stops < MaxStops
  /\ stops' = stops + 1
  /\ Goto(w, "dead")
  /\ IF pc[w] = "claim" THEN UNCHANGED conn ELSE RolledBackOrNot
  /\ UNCHANGED <<disk, phase, enq, job, flushes, acked, delivered, calls>>

(* The task group notices the dead worker and cancels the other tasks. *)
Abort ==
  /\ phase = "running"
  /\ \E w \in Workers : pc[w] = "dead"
  /\ phase' = "stopping"
  /\ AllOff
  /\ UNCHANGED <<table, enq, ghosts>>

FaultyNext == Next \/ EnqueueFails
                   \/ (\E w \in Workers : WorkerFails(w)) \/ Abort

FaultySpec == Init /\ [][FaultyNext]_vars

(* The failures that roll nothing back, a failed statement having no       *)
(* effect: those of a database that is locked, or of an I/O error SQLite   *)
(* recovers from.                                                          *)
KeepingFault == /\ EnqueueFails \/ (\E w \in Workers : WorkerFails(w)) \/ Abort
                /\ UNCHANGED conn

KeepingNext == Next \/ KeepingFault

KeepingSpec == Init /\ [][KeepingNext]_vars

-----------------------------------------------------------------------------
(* Properties *)

TypeOK ==
  /\ disk \in Seq(Row)
  /\ conn \in Seq(Row)
  /\ phase \in Phase
  /\ enq \in 0..MaxFlushes
  /\ pc \in [Workers -> PC]
  /\ job \in [Workers -> Job]
  /\ flushes \in 0..MaxFlushes
  /\ acked \in SUBSET (1..MaxFlushes)
  /\ delivered \in SUBSET Nat
  /\ calls \in [1..MaxFlushes -> Nat]
  /\ stops \in Nat

(* The row of worker w is its own from the claiming UPDATE to the UPDATE   *)
(* that settles it.                                                        *)
Holds(w) == pc[w] \in {"won", "claimed", "purging"}

(* A flush whose enqueue() returned is in the committed table for good: no *)
(* crash, stop or rollback of the shared transaction loses it (queue.py,   *)
(* enqueue; "a daemon restart must not lose pending purges").              *)
AcknowledgedIsDurable ==
  \A f \in acked : \E i \in DOMAIN disk : disk[i].urls = f

(* claim_ready serves a job to one worker at a time, even when two callers *)
(* race between the SELECT and the UPDATE.                                 *)
ClaimIsExclusive ==
  \A v, w \in Workers : v # w /\ Holds(v) /\ Holds(w) => job[v].id # job[w].id

(* While the daemon runs (no worker has died, which would end it), an      *)
(* in_flight row has a worker that will settle it: only a restart runs     *)
(* reset_in_flight, so a row nobody holds would be stuck until then.       *)
NoOrphanInFlight ==
  phase = "running" /\ (\A w \in Workers : pc[w] # "dead") =>
    \A i \in DOMAIN conn : conn[i].status = "in_flight" =>
      \E w \in Workers : Holds(w) /\ job[w].id = i

(* A job is recorded as done only after the provider of its CDN accepted   *)
(* that very batch (daemon.py, result.ok before mark_done).                *)
DoneIsDelivered ==
  \A i \in DOMAIN disk : disk[i].status = "done" => disk[i].urls \in delivered

(* The provider is called at most max_attempts times for a batch, once     *)
(* more per stop or crash that cut a call short, and at least one call is  *)
(* allowed whatever max_attempts is.                                       *)
Limit == IF MaxAttempts > 1 THEN MaxAttempts ELSE 1
CallsAreBounded ==
  \A f \in 1..MaxFlushes : calls[f] <= Limit + stops

(* No step takes a job out of done or failed, or changes its payload: the  *)
(* UPDATEs of mark_done, reschedule and mark_failed have no status         *)
(* predicate and rely on the worker owning the row.                        *)
SettledIsFinal ==
  [][\A i \in DOMAIN disk : disk[i].status \in Settled =>
       /\ i \in DOMAIN disk'
       /\ disk'[i].status = disk[i].status
       /\ disk'[i].urls = disk[i].urls]_vars

(* Every acknowledged batch is eventually done or failed on disk. *)
EveryJobSettles ==
  \A f \in 1..MaxFlushes :
    f \in acked ~> \E i \in DOMAIN disk : /\ disk[i].urls = f
                                          /\ disk[i].status \in Settled

(* What the ledger of batches reads off the committed table. *)
Recorded(t, f, S) == \E i \in DOMAIN t : t[i].urls = f /\ t[i].status \in S
LedgerOf(t) ==
  [f \in 1..MaxFlushes |->
     IF Recorded(t, f, {"done"}) THEN "done"
     ELSE IF Recorded(t, f, {"failed"}) THEN "failed"
     ELSE IF Recorded(t, f, Status) THEN "queued" ELSE "none"]

Ledger == INSTANCE PurgeLedger WITH Flushes <- 1..MaxFlushes, state <- LedgerOf(disk)

(* The queue implements the ledger: across crashes, restarts and the       *)
(* shared transaction a recorded batch is never lost, only moves forward,  *)
(* and is done only after its delivery.                                    *)
ImplementsLedger == Ledger!Spec

(* queue.py's table documents `attempts' as "Number of times the provider  *)
(* has been called for this job".                                          *)
AttemptsCountCalls ==
  \A i \in DOMAIN disk : disk[i].status \in Settled =>
    disk[i].attempts = calls[disk[i].urls]

-----------------------------------------------------------------------------
(* The inductive invariant behind the theorems of JobQueueProofs. *)

(* Workers exist only while the daemon runs; without it the connection     *)
(* holds no open transaction and no flush is under way.                    *)
Control ==
  /\ \A w \in Workers : pc[w] # "off" => phase = "running"
  /\ phase = "down" => conn = disk
  /\ phase \in {"down", "recovering"} => enq = 0

(* The committed table is the first rows of the connection's table, and a  *)
(* row that is settled on disk is settled the same way in both.            *)
Agreement ==
  /\ Len(disk) <= Len(conn)
  /\ \A i \in 1..Len(disk) :
       /\ conn[i].cdn = disk[i].cdn
       /\ conn[i].urls = disk[i].urls
       /\ disk[i].status \in Settled => conn[i].status = disk[i].status

(* Each flush has at most one row. *)
OneRowPerFlush ==
  /\ \A i \in 1..Len(conn) : conn[i].urls \in 1..flushes
  /\ \A i, j \in 1..Len(conn) : conn[i].urls = conn[j].urls => i = j

(* What a worker knows of its row is still true: a selected row keeps its  *)
(* payload, a held one is in_flight, and committed before the call.        *)
Knowledge ==
  \A w \in Workers :
    /\ pc[w] \in {"selected", "won", "claimed", "purging"} =>
         /\ job[w].id \in 1..Len(conn)
         /\ conn[job[w].id].urls = job[w].urls
         /\ conn[job[w].id].cdn = CdnOf[w]
    /\ Holds(w) => conn[job[w].id].status = "in_flight"
    /\ pc[w] \in {"claimed", "purging"} => job[w].id \in 1..Len(disk)

(* A row in flight is somebody's, unless a worker has died. *)
Owned ==
  /\ phase = "recovering" => \A i \in 1..Len(conn) : conn[i].status # "in_flight"
  /\ phase = "running" /\ (\A w \in Workers : pc[w] # "dead") =>
       \A i \in 1..Len(conn) : conn[i].status = "in_flight" =>
         \E w \in Workers : Holds(w) /\ job[w].id = i

(* A row is settled, committed or not, only if its INSERT is committed,    *)
(* and done only after its delivery.                                       *)
Truthful ==
  \A i \in 1..Len(conn) :
    /\ conn[i].status \in Settled => i \in 1..Len(disk)
    /\ conn[i].status = "done" => conn[i].urls \in delivered

(* An acknowledged flush is on disk, one that is being enqueued is in the  *)
(* open transaction.                                                       *)
Durable ==
  /\ \A f \in acked : \E i \in 1..Len(disk) : disk[i].urls = f
  /\ enq # 0 => \E i \in 1..Len(conn) : conn[i].urls = enq

QueueInv ==
  /\ TypeOK /\ Control /\ Agreement /\ OneRowPerFlush /\ Knowledge
  /\ ClaimIsExclusive /\ Owned /\ Truthful /\ Durable

(* With one worker per CDN, as in the daemon, the attempts column of an    *)
(* unsettled row accounts for every call but those cut short by a stop and *)
(* the one under way, or its worker's last; the stop that a dead worker is *)
(* bound to bring about is counted already.                                *)
Calling(i) == IF \E w \in Workers : pc[w] \in {"purging", "dead"} /\ job[w].id = i
              THEN 1 ELSE 0
Past == IF \E w \in Workers : pc[w] = "dead" THEN stops - 1 ELSE stops

CallsBelow ==
  /\ Past >= 0
  /\ \A f \in 1..MaxFlushes : /\ calls[f] <= Limit + stops
                              /\ f > flushes => calls[f] = 0
ConnCalls ==
  \A i \in 1..Len(conn) :
    /\ conn[i].attempts < Limit
    /\ conn[i].status \notin Settled =>
         calls[conn[i].urls] <= conn[i].attempts + Past + Calling(i)
DiskCalls ==
  \A i \in 1..Len(disk) :
    /\ disk[i].attempts < Limit
    /\ disk[i].status \notin Settled =>
         calls[disk[i].urls] <=
           disk[i].attempts + Past + (IF phase = "running" THEN 1 ELSE 0)
AttemptsKnown ==
  \A w \in Workers :
    /\ pc[w] \in {"selected", "won", "claimed", "purging"} =>
         job[w].attempts = conn[job[w].id].attempts
    /\ pc[w] \in {"claimed", "purging"} =>
         job[w].attempts = disk[job[w].id].attempts
(* A worker's copy, a dead worker's too, is of a row of its CDN. *)
JobsKnown ==
  \A w \in Workers :
    /\ job[w].id # 0 => /\ job[w].id \in 1..Len(conn)
                       /\ conn[job[w].id].cdn = CdnOf[w]
    /\ pc[w] = "off" => job[w].id = 0
CallInv == CallsBelow /\ ConnCalls /\ DiskCalls /\ AttemptsKnown
=============================================================================

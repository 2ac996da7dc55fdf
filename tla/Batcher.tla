------------------------------- MODULE Batcher -------------------------------
(***************************************************************************)
(* The per-CDN debouncing and batching of purge targets (batcher.py): the  *)
(* pipeline task that submits targets, the debounce task of each CDN, and  *)
(* the coordinator's drain when the daemon is stopped.                     *)
(*                                                                         *)
(* The tasks run on one event loop.  A step of a task lasts until its next *)
(* suspension and takes no time; the loop runs every runnable task before  *)
(* it sees a later clock or the completion of a database call, hence the   *)
(* guard Quiescent of Tick and EnqueueDone.  asyncio.Lock is served in the *)
(* order of the requests: `lock' is the queue of tasks, its head the       *)
(* holder.                                                                 *)
(*                                                                         *)
(* Times are kept relative to the clock: age = now - first_added, idle =   *)
(* now - last_added, timer = what is left of wait_for's timeout.           *)
(*                                                                         *)
(* The sink is the shared SQLite connection: `open' holds what enqueue's   *)
(* INSERT has put in the open transaction; any task's COMMIT stores it.    *)
(***************************************************************************)
EXTENDS Integers, Sequences, FiniteSets

CONSTANTS
  CDNs,        \* Config.cdns
  URLs,        \* URLs purge targets may name
  Pipeline,    \* the pipeline task, as a user of the lock
  MaxSize,     \* batch_max_size
  QuietWindow, \* batch_quiet_window_seconds, in ticks
  MaxAge,      \* batch_max_age_seconds, in ticks
  EnqueueTime, \* longest time an enqueue() takes, in ticks
  MaxSubmits   \* bound: targets the pipeline submits

None == "none"

ASSUME BatcherAssumption ==
  /\ Pipeline \notin CDNs /\ None \notin CDNs
  /\ IsFiniteSet(CDNs)
  /\ MaxSize \in Nat /\ QuietWindow \in Nat /\ MaxAge \in Nat
  /\ EnqueueTime \in Nat /\ MaxSubmits \in Nat

VARIABLES
  buf,      \* _buffers
  age,      \* since _first_added, 0 for an empty buffer
  idle,     \* since _last_added, 0 for an empty buffer
  wake,     \* _wake: the event of each CDN is set
  pc,       \* where each debounce task is suspended
  timer,    \* what is left of its wait_for
  pipe,     \* where the pipeline task is suspended, and the target it submits
  lock,     \* _lock: its holder, then the tasks waiting for it
  open,     \* targets in the connection's open transaction
  io,       \* how long the enqueue() under way has taken
  phase,    \* of the daemon
  drain,    \* the CDN whose buffer flush_all is enqueuing
  submits,  \* number of submits so far
  owed,     \* history: targets submitted and not committed to the queue since
  cut       \* history: targets of the enqueue() that the stop cut short

tasks   == <<wake, pc, timer, pipe, lock>>
buffers == <<buf, age, idle>>
sink    == <<open, io, owed>>
ghosts  == <<submits, cut>>
vars    == <<buf, age, idle, wake, pc, timer, pipe, lock, open, io, phase, drain,
             submits, owed, cut>>

Target == CDNs \X URLs
PC     == {"none", "idle", "check", "timed", "flush", "enqueue", "dead", "off"}
Pipe   == [at : {"ready", "submit", "enqueue", "off"}, target : Target \cup {None}]
Ready  == [at |-> "ready", target |-> None]
Lower(a, b) == IF a < b THEN a ELSE b

Init ==
  /\ buf   = [c \in CDNs |-> {}]
  /\ age   = [c \in CDNs |-> 0]
  /\ idle  = [c \in CDNs |-> 0]
  /\ wake  = [c \in CDNs |-> FALSE]
  /\ pc    = [c \in CDNs |-> "none"]
  /\ timer = [c \in CDNs |-> 0]
  /\ pipe  = Ready
  /\ lock  = << >>
  /\ open  = {}
  /\ io    = 0
  /\ phase = "running"
  /\ drain = None
  /\ submits = 0
  /\ owed  = {}
  /\ cut   = {}

-----------------------------------------------------------------------------
(* The lock *)

HoldsLock(t) == lock # << >> /\ Head(lock) = t
Request(t)   == lock' = Append(lock, t)
Release      == lock' = Tail(lock)

(* A debounce task of CDN c that has something to run. *)
Runnable(c) ==
  \/ pc[c] \in {"idle", "timed"} /\ wake[c]
  \/ pc[c] = "timed" /\ timer[c] = 0
  \/ pc[c] \in {"check", "flush"} /\ HoldsLock(c)

Enqueuing == \/ drain # None
             \/ pipe.at = "enqueue"
             \/ \E c \in CDNs : pc[c] = "enqueue"

Quiescent == /\ \A c \in CDNs : ~Runnable(c)
             /\ ~(pipe.at = "submit" /\ HoldsLock(Pipeline))

-----------------------------------------------------------------------------
(* The buffer is handed over itself, not a copy of it, and then emptied. *)
Take_Mutant(c, urls) ==
  /\ buf'  = [buf  EXCEPT ![c] = {}]
  /\ age'  = [age  EXCEPT ![c] = 0]
  /\ idle' = [idle EXCEPT ![c] = 0]
  /\ io'   = 0
  /\ UNCHANGED open
(* _flush_locked, up to the COMMIT of enqueue: the buffer is emptied before *)
(* the call.                                                                *)
Take(c, urls) ==
  /\ buf'  = [buf  EXCEPT ![c] = {}]
  /\ age'  = [age  EXCEPT ![c] = 0]
  /\ idle' = [idle EXCEPT ![c] = 0]
  /\ open' = open \cup ({c} \X urls)
  /\ io'   = 0

(* _pipeline hands the next target to submit, which asks for the lock. *)
Submit(c, u) ==
  /\ phase = "running"
  /\ pipe.at = "ready"
  /\ submits < MaxSubmits
  /\ submits' = submits + 1
  /\ pipe' = [at |-> "submit", target |-> <<c, u>>]
  /\ Request(Pipeline)
  /\ UNCHANGED <<buffers, wake, pc, timer, sink, phase, drain, cut>>

(* submit, once it holds the lock. *)
SubmitLocked ==
  LET c == pipe.target[1]
      u == pipe.target[2]
      urls == buf[c] \cup {u}
  IN  /\ pipe.at = "submit"
      /\ HoldsLock(Pipeline)
      /\ pc'   = [pc EXCEPT ![c] = IF @ = "none" THEN "idle" ELSE @]
      /\ wake' = [wake EXCEPT ![c] = TRUE]
      /\ owed' = owed \cup {pipe.target}
      /\ \/ /\ Cardinality(urls) >= MaxSize
            /\ Take(c, urls)
            /\ pipe' = [pipe EXCEPT !.at = "enqueue"]
            /\ UNCHANGED lock
         \/ /\ Cardinality(urls) < MaxSize
            /\ buf'  = [buf  EXCEPT ![c] = urls]
            /\ age'  = [age  EXCEPT ![c] = IF buf[c] = {} THEN 0 ELSE @]
            /\ idle' = [idle EXCEPT ![c] = 0]
            /\ pipe' = Ready
            /\ Release
            /\ UNCHANGED <<open, io>>
      /\ UNCHANGED <<timer, phase, drain, ghosts>>

-----------------------------------------------------------------------------
(* _debounce_loop *)

(* An end of wait_for by the event is taken for a timeout. *)
Wake_Mutant(c) ==
  /\ pc[c] \in {"idle", "timed"}
  /\ wake[c]
  /\ wake' = [wake EXCEPT ![c] = FALSE]
  /\ pc'   = [pc EXCEPT ![c] = IF @ = "idle" THEN "check" ELSE "flush"]
  /\ timer' = [timer EXCEPT ![c] = 0]
  /\ Request(c)
  /\ UNCHANGED <<buffers, pipe, sink, phase, drain, ghosts>>
(* wake.wait() returns, in the outer loop or inside wait_for, the event is *)
(* cleared and the lock is asked for to reassess the deadlines.            *)
Wake(c) ==
  /\ pc[c] \in {"idle", "timed"}
  /\ wake[c]
  /\ wake' = [wake EXCEPT ![c] = FALSE]
  /\ pc'   = [pc EXCEPT ![c] = "check"]
  /\ timer' = [timer EXCEPT ![c] = 0]
  /\ Request(c)
  /\ UNCHANGED <<buffers, pipe, sink, phase, drain, ghosts>>

(* The quiet window alone. *)
Wait_Mutant(c) == QuietWindow - idle[c]
(* min(quiet_at, age_at) - now *)
Wait(c) == Lower(QuietWindow - idle[c], MaxAge - age[c])

(* wait_for is armed even for a deadline that has passed. *)
Check_Mutant(c) ==
  /\ pc[c] = "check"
  /\ HoldsLock(c)
  /\ pc' = [pc EXCEPT ![c] = IF buf[c] = {} THEN "idle" ELSE "timed"]
  /\ timer' = [timer EXCEPT ![c] = IF buf[c] = {} THEN 0 ELSE Wait(c)]
  /\ Release
  /\ UNCHANGED <<buffers, wake, pipe, sink, phase, drain, ghosts>>
Check(c) ==
  /\ pc[c] = "check"
  /\ HoldsLock(c)
  /\ \/ /\ buf[c] = {}
        /\ pc' = [pc EXCEPT ![c] = "idle"]
        /\ UNCHANGED timer
        /\ Release
     \/ /\ buf[c] # {}
        /\ Wait(c) <= 0
        /\ pc' = [pc EXCEPT ![c] = "flush"]
        /\ UNCHANGED timer
        /\ lock' = Append(Tail(lock), c)
     \/ /\ buf[c] # {}
        /\ Wait(c) > 0
        /\ pc' = [pc EXCEPT ![c] = "timed"]
        /\ timer' = [timer EXCEPT ![c] = Wait(c)]
        /\ Release
  /\ UNCHANGED <<buffers, wake, pipe, sink, phase, drain, ghosts>>

(* TimeoutError: the lock is asked for to flush.  The event may have been  *)
(* set at the same instant; it then stays set.                             *)
TimeUp(c) ==
  /\ pc[c] = "timed"
  /\ timer[c] = 0
  /\ pc' = [pc EXCEPT ![c] = "flush"]
  /\ Request(c)
  /\ UNCHANGED <<buffers, wake, timer, pipe, sink, phase, drain, ghosts>>

FlushLocked(c) ==
  /\ pc[c] = "flush"
  /\ HoldsLock(c)
  /\ \/ /\ buf[c] = {}
        /\ pc' = [pc EXCEPT ![c] = "idle"]
        /\ Release
        /\ UNCHANGED <<buffers, open, io>>
     \/ /\ buf[c] # {}
        /\ pc' = [pc EXCEPT ![c] = "enqueue"]
        /\ Take(c, buf[c])
        /\ UNCHANGED lock
  /\ UNCHANGED <<wake, timer, pipe, owed, phase, drain, ghosts>>

-----------------------------------------------------------------------------
(* The sink *)

Commit == /\ owed' = owed \ open
          /\ open' = {}

(* enqueue() returns to the task that holds the lock. *)
EnqueueDone ==
  /\ phase = "running"
  /\ Enqueuing
  /\ Quiescent
  /\ Commit
  /\ io' = 0
  /\ Release
  /\ \/ /\ pipe.at = "enqueue"
        /\ pipe' = Ready
        /\ UNCHANGED pc
     \/ \E c \in CDNs : /\ pc[c] = "enqueue"
                        /\ pc' = [pc EXCEPT ![c] = "idle"]
                        /\ UNCHANGED pipe
  /\ UNCHANGED <<buffers, wake, timer, phase, drain, ghosts>>

(* A COMMIT of a queue worker on the same connection. *)
WorkerCommit ==
  /\ phase = "running"
  /\ open # {}
  /\ Commit
  /\ UNCHANGED <<buffers, tasks, io, phase, drain, ghosts>>

-----------------------------------------------------------------------------
(* Graceful stop: Batcher.run is cancelled, with every task of the group *)

(* The pipeline and the debounce tasks end where they are suspended, which *)
(* frees the lock; an enqueue() under way is left without its COMMIT.      *)
Stop ==
  /\ phase = "running"
  /\ phase' = "draining"
  /\ pipe' = [at |-> "off", target |-> None]
  /\ pc'   = [c \in CDNs |-> "off"]
  /\ wake' = [c \in CDNs |-> FALSE]
  /\ timer' = [c \in CDNs |-> 0]
  /\ lock' = << >>
  /\ cut'  = open
  /\ io'   = 0
  /\ UNCHANGED <<buffers, open, owed, drain, submits>>

(* flush_all: the next buffer with something in it. *)
DrainTake(c) ==
  /\ phase = "draining"
  /\ drain = None
  /\ buf[c] # {}
  /\ Take(c, buf[c])
  /\ drain' = c
  /\ UNCHANGED <<tasks, owed, phase, ghosts>>

DrainDone ==
  /\ phase = "draining"
  /\ drain # None
  /\ Commit
  /\ drain' = None
  /\ UNCHANGED <<buffers, tasks, io, phase, ghosts>>

(* A batcher that does not drain. *)
Close_Mutant ==
  /\ phase = "draining"
  /\ drain = None
  /\ phase' = "closed"
  /\ open' = {}
  /\ UNCHANGED <<buffers, tasks, io, owed, drain, ghosts>>
(* queue.close() rolls back what no COMMIT has stored. *)
Close ==
  /\ phase = "draining"
  /\ drain = None
  /\ \A c \in CDNs : buf[c] = {}
  /\ phase' = "closed"
  /\ open' = {}
  /\ UNCHANGED <<buffers, tasks, io, owed, drain, ghosts>>

-----------------------------------------------------------------------------
(* The loop's clock.  It runs on while a database call is under way, for at *)
(* most EnqueueTime.                                                        *)
Later(since) == [c \in CDNs |-> IF buf[c] = {} THEN 0 ELSE since[c] + 1]

Tick ==
  /\ phase \in {"running", "closed"}
  /\ Quiescent
  /\ Enqueuing => io < EnqueueTime
  /\ io'   = IF Enqueuing THEN io + 1 ELSE io
  /\ age'  = Later(age)
  /\ idle' = Later(idle)
  /\ timer' = [c \in CDNs |-> IF timer[c] > 0 THEN timer[c] - 1 ELSE 0]
  /\ UNCHANGED <<buf, wake, pc, pipe, lock, open, owed, phase, drain, ghosts>>

Debounce(c) == Wake(c) \/ Check(c) \/ TimeUp(c) \/ FlushLocked(c)

Next ==
  \/ \E c \in CDNs, u \in URLs : Submit(c, u)
  \/ SubmitLocked
  \/ \E c \in CDNs : Debounce(c)
  \/ EnqueueDone \/ WorkerCommit
  \/ Stop
  \/ \E c \in CDNs : DrainTake(c)
  \/ DrainDone \/ Close
  \/ Tick

Spec == Init /\ [][Next]_vars

(* Every task that can run is run, a database call returns, time passes.   *)
Fairness ==
  /\ WF_vars(SubmitLocked)
  /\ \A c \in CDNs : WF_vars(Debounce(c))
  /\ WF_vars(EnqueueDone)
  /\ WF_vars(Tick)

FairSpec == Spec /\ Fairness

-----------------------------------------------------------------------------
(* Database failures: enqueue() raises, and its batch is gone with the     *)
(* buffer already emptied.  A debounce task dies of it, unnoticed by the   *)
(* task group; the pipeline dies too, and the group with it.  (A failed    *)
(* COMMIT may leave the batch in the open transaction: JobQueue has that.) *)
EnqueueFails ==
  /\ phase = "running"
  /\ Enqueuing
  /\ Quiescent
  /\ open' = {}
  /\ Release
  /\ \/ /\ pipe.at = "enqueue"
        /\ pipe' = [at |-> "off", target |-> None]
        /\ UNCHANGED pc
     \/ \E c \in CDNs : /\ pc[c] = "enqueue"
                        /\ pc' = [pc EXCEPT ![c] = "dead"]
                        /\ UNCHANGED pipe
  /\ UNCHANGED <<buffers, wake, timer, io, owed, phase, drain, ghosts>>

(* flush_all gives up at the enqueue() that fails, and run ends with what  *)
(* the other buffers hold.                                                 *)
DrainFails ==
  /\ phase = "draining"
  /\ drain # None
  /\ drain' = None
  /\ open' = {}
  /\ buf'  = [c \in CDNs |-> {}]
  /\ age'  = [c \in CDNs |-> 0]
  /\ idle' = [c \in CDNs |-> 0]
  /\ UNCHANGED <<tasks, io, owed, phase, ghosts>>

FaultyNext == Next \/ EnqueueFails \/ DrainFails

FaultySpec == Init /\ [][FaultyNext]_vars

-----------------------------------------------------------------------------
(* Properties *)

TypeOK ==
  /\ buf \in [CDNs -> SUBSET URLs]
  /\ age \in [CDNs -> Nat] /\ idle \in [CDNs -> Nat] /\ timer \in [CDNs -> Nat]
  /\ wake \in [CDNs -> BOOLEAN]
  /\ pc \in [CDNs -> PC]
  /\ pipe \in Pipe
  /\ lock \in Seq(CDNs \cup {Pipeline})
  /\ open \in SUBSET Target
  /\ io \in Nat
  /\ phase \in {"running", "draining", "closed"}
  /\ drain \in CDNs \cup {None}
  /\ submits \in Nat
  /\ owed \in SUBSET Target /\ cut \in SUBSET Target

(* A target never waits in a buffer longer than batch_max_age_seconds plus *)
(* the enqueue() calls that may be ahead at the lock: one of every other   *)
(* debounce task, and the pipeline's size-cap flushes before the deadline  *)
(* is reassessed and before the flush.  With instantaneous calls this is   *)
(* the age cap itself.                                                     *)
AgeIsBounded ==
  \A c \in CDNs : age[c] <= MaxAge + (Cardinality(CDNs) + 1) * EnqueueTime

(* A debounce task flushes only a buffer whose oldest target has waited    *)
(* for the shorter of the two windows: no stale timer and no wakeup left   *)
(* over from an earlier batch cuts the coalescing of a burst short.        *)
CoalescesBursts ==
  [][\A c \in CDNs : pc[c] # "enqueue" /\ pc'[c] = "enqueue" =>
                       age[c] >= Lower(QuietWindow, MaxAge)]_vars

(* A graceful stop loses at most the batch whose enqueue() it cut short.   *)
OnlyTheCutIsLost == phase = "closed" => owed \subseteq cut

(* An enqueue() that fails ends the debounce task of its CDN and nothing   *)
(* else: while the daemon runs the other CDNs keep the bound on their ages. *)
FaultsSpareOtherAges ==
  phase = "running" =>
    \A c \in CDNs : pc[c] # "dead" => age[c] <= MaxAge + (Cardinality(CDNs) + 1) * EnqueueTime

(* The daemon's view of the batcher: a buffer leaves whole and for the     *)
(* queue only, one at a time, and a stop drains every one, however the     *)
(* debounce tasks and the size cap race for it.                            *)
Contract == INSTANCE Coalescer WITH phase <- IF phase = "closed" THEN "down" ELSE phase
ImplementsCoalescer == Contract!Spec

(* It keeps to that view when an enqueue() fails, which takes its batch    *)
(* and in a drain all that is left, but never puts a target into another   *)
(* batch or hands one over behind the back of the lock.                    *)
FaultsKeepToCoalescer == Contract!FaultySpec

(* Every submitted target reaches the queue while the daemon runs. *)
EveryTargetIsEnqueued ==
  \A t \in Target : t \in owed ~> (t \notin owed \/ phase # "running")

(* batcher.py, run: "Cancellation drains all buffers via flush_all before  *)
(* returning, so no work is lost on graceful shutdown".                    *)
NoWorkIsLost == phase = "closed" => owed = {}

(* batcher.py: "Each CDN's buffer and timing are independent: a flood on   *)
(* one CDN never delays flushes for another", hence the age cap holds      *)
(* however long the enqueue() of another CDN takes.                        *)
NeverDelaysOthers == \A c \in CDNs : age[c] <= MaxAge
=============================================================================

----------------------------- MODULE BatcherProofs -----------------------------
(* Theorems about Batcher: what waits for the lock and what has been        *)
(* submitted is never mislaid, and no flush of a debounce task is early.    *)
EXTENDS Batcher, FiniteSetTheorems, TLAPS

-----------------------------------------------------------------------------
(* The lock: a queue without repetitions *)

In(t, s)        == \E i \in 1..Len(s) : s[i] = t
Once(s)         == \A i, j \in 1..Len(s) : s[i] = s[j] => i = j
Before(t, u, s) == \E i, j \in 1..Len(s) : i < j /\ s[i] = t /\ s[j] = u

(* Who asks for the lock gets to its end, ahead of nobody.                  *)
LEMMA AppendLock ==
  ASSUME NEW S, NEW s \in Seq(S), NEW e \in S, Once(s), ~In(e, s)
  PROVE  /\ Append(s, e) \in Seq(S) /\ Append(s, e) # << >> /\ Once(Append(s, e))
         /\ \A t : In(t, Append(s, e)) <=> t = e \/ In(t, s)
         /\ \A t, u : u # e /\ Before(t, u, Append(s, e)) => Before(t, u, s)
         /\ s # << >> => Head(Append(s, e)) = Head(s)
<1> DEFINE a == Append(s, e)
<1>0. /\ a \in Seq(S) /\ Len(a) = Len(s) + 1 /\ Len(s) \in Nat
      /\ \A i \in 1..Len(s) : a[i] = s[i]
      /\ a[Len(s) + 1] = e
  OBVIOUS
<1>1. /\ a \in Seq(S) /\ Len(a) = Len(s) + 1 /\ Len(s) \in Nat
      /\ \A i \in 1..Len(s) : a[i] = s[i]
      /\ a[Len(s) + 1] = e
      /\ s # << >> => Head(a) = Head(s)
      /\ a # << >>
  <2>1. a # << >>
    BY <1>0
  <2>2. ASSUME s # << >> PROVE Head(a) = Head(s)
    <3>1. 1 \in 1..Len(s)
      BY <2>2, <1>0
    <3>2. Head(a) = a[1] /\ Head(s) = s[1]
      BY <1>0, <2>1, <2>2
    <3> QED
      BY <1>0, <3>1, <3>2
  <2> QED
    BY <1>0, <2>1, <2>2
<1>2. \A i \in 1..Len(a) : i \in 1..Len(s) \/ i = Len(s) + 1
  BY <1>1
<1>3. \A i \in 1..Len(s) : i \in 1..Len(a) /\ s[i] # e
  BY <1>1 DEF In
<1>4. Once(a)
  BY <1>1, <1>2, <1>3 DEF Once
<1>5. ASSUME NEW t PROVE In(t, a) <=> t = e \/ In(t, s)
  <2>1. Len(s) + 1 \in 1..Len(a)
    BY <1>1
  <2> QED
    BY <1>1, <1>2, <1>3, <2>1 DEF In
<1>6. ASSUME NEW t, NEW u, u # e, Before(t, u, a) PROVE Before(t, u, s)
  <2>1. PICK i, j \in 1..Len(a) : i < j /\ a[i] = t /\ a[j] = u
    BY <1>6 DEF Before
  <2>2. j \in 1..Len(s) /\ i \in 1..Len(s)
    BY <1>1, <1>6, <2>1
  <2> QED
    BY <1>1, <2>1, <2>2 DEF Before
<1> QED
  BY <1>1, <1>4, <1>5, <1>6

(* Its holder leaves it to the next; nobody overtakes.                      *)
LEMMA TailLock ==
  ASSUME NEW S, NEW s \in Seq(S), s # << >>, Once(s)
  PROVE  /\ Tail(s) \in Seq(S) /\ Once(Tail(s)) /\ Head(s) \in S
         /\ \A t : In(t, Tail(s)) <=> In(t, s) /\ t # Head(s)
         /\ \A t, u : Before(t, u, Tail(s)) => Before(t, u, s)
         /\ \A t : In(t, s) /\ t # Head(s) => Before(Head(s), t, s)
<1> DEFINE a == Tail(s)
<1>1. /\ a \in Seq(S) /\ Len(a) = Len(s) - 1 /\ Len(s) \in Nat /\ Len(s) > 0
      /\ \A i \in 1..Len(a) : a[i] = s[i + 1]
      /\ Head(s) = s[1] /\ s[1] \in S
  OBVIOUS
<1>2. \A i \in 1..Len(a) : i + 1 \in 1..Len(s)
  BY <1>1
<1>3. \A i \in 1..Len(s) : i = 1 \/ (i - 1 \in 1..Len(a) /\ a[i - 1] = s[i])
  BY <1>1
<1>4. Once(a)
  <2> SUFFICES ASSUME NEW i \in 1..Len(a), NEW j \in 1..Len(a), a[i] = a[j]
               PROVE  i = j
    BY DEF Once
  <2>1. i + 1 \in 1..Len(s) /\ j + 1 \in 1..Len(s) /\ s[i + 1] = s[j + 1]
    BY <1>1, <1>2
  <2> QED
    BY <2>1 DEF Once
<1>5. ASSUME NEW t PROVE In(t, a) <=> In(t, s) /\ t # Head(s)
  <2>1. In(t, a) => In(t, s) /\ t # Head(s)
    <3> SUFFICES ASSUME NEW i \in 1..Len(a), a[i] = t
                 PROVE  In(t, s) /\ t # s[1]
      BY <1>1 DEF In
    <3>1. i + 1 \in 1..Len(s) /\ s[i + 1] = t /\ i + 1 # 1 /\ 1 \in 1..Len(s)
      BY <1>1, <1>2
    <3> QED
      BY <3>1 DEF In, Once
  <2>2. In(t, s) /\ t # Head(s) => In(t, a)
    BY <1>1, <1>3 DEF In
  <2> QED
    BY <2>1, <2>2
<1>6. ASSUME NEW t, NEW u, Before(t, u, a) PROVE Before(t, u, s)
  <2>1. PICK i, j \in 1..Len(a) : i < j /\ a[i] = t /\ a[j] = u
    BY <1>6 DEF Before
  <2>2. /\ i + 1 \in 1..Len(s) /\ j + 1 \in 1..Len(s) /\ i + 1 < j + 1
        /\ s[i + 1] = t /\ s[j + 1] = u
    BY <1>1, <1>2, <2>1
  <2> QED
    BY <2>2 DEF Before
<1>7. ASSUME NEW t, In(t, s), t # Head(s) PROVE Before(Head(s), t, s)
  <2>1. PICK j \in 1..Len(s) : s[j] = t
    BY <1>7 DEF In
  <2>2. 1 \in 1..Len(s) /\ 1 < j
    BY <1>1, <1>7, <2>1
  <2> QED
    BY <1>1, <2>1, <2>2 DEF Before
<1> QED
  BY <1>1, <1>4, <1>5, <1>6, <1>7

-----------------------------------------------------------------------------
(* The inductive invariant *)

Tasks == CDNs \cup {Pipeline}

Wants(t) == \/ t = Pipeline /\ pipe.at \in {"submit", "enqueue"}
            \/ t \in CDNs /\ pc[t] \in {"check", "flush", "enqueue"}

(* In the lock's queue are the tasks suspended at it or holding it, once    *)
(* each, and only the holder enqueues.                                      *)
LockIsInOrder ==
  /\ Once(lock)
  /\ \A t \in Tasks : In(t, lock) <=> Wants(t)
  /\ pipe.at = "enqueue" => HoldsLock(Pipeline)
  /\ \A c \in CDNs : pc[c] = "enqueue" => HoldsLock(c)

(* A stop ends the tasks, and only a stop cuts or drains.                   *)
StopEndsTasks ==
  /\ phase # "running" => pipe.at = "off" /\ \A c \in CDNs : pc[c] = "off"
  /\ phase = "running" => drain = None /\ cut = {}
  /\ pipe.at = "submit" => pipe.target \in Target

Window == Lower(QuietWindow, MaxAge)

(* A timer does not end before its buffer is due, unless the pipeline has   *)
(* taken the buffer and is still enqueuing it; and the pipeline gets at no  *)
(* empty buffer between the end of a timer and the flush.                   *)
Due(c) ==
  /\ idle[c] <= age[c]
  /\ pc[c] = "timed" => \/ buf[c] # {} /\ age[c] + timer[c] >= Window
                        \/ buf[c] = {} /\ wake[c] /\ pipe.at = "enqueue"
  /\ pc[c] = "flush" =>
       /\ buf[c] = {} \/ age[c] >= Window
       /\ buf[c] = {} /\ Before(Pipeline, c, lock) => pipe.at # "submit"

FlushesAreDue == \A c \in CDNs : Due(c)

Buffered == {t \in Target : t[2] \in buf[t[1]]}

(* What is owed is in a buffer, in the open transaction, or was cut.        *)
OwedIsKept ==
  /\ owed \subseteq Buffered \cup open \cup cut
  /\ phase # "running" /\ drain = None => owed \subseteq Buffered \cup cut
  /\ phase = "closed" => owed \subseteq cut

(* While the daemon runs a batch is in the open transaction only during its *)
(* enqueue().                                                               *)
OpenIsEnqueuing ==
  phase = "running" /\ open # {} => pipe.at = "enqueue" \/ \E c \in CDNs : pc[c] = "enqueue"

(* What also an enqueue() that fails keeps to.                              *)
Sound == TypeOK /\ LockIsInOrder /\ StopEndsTasks /\ FlushesAreDue /\ OpenIsEnqueuing

IInv == Sound /\ OwedIsKept

USE DEF None

-----------------------------------------------------------------------------
(* Initially *)

(* Nothing is submitted, buffered or running.                               *)
LEMMA InitInv == Init => IInv
<1> SUFFICES ASSUME Init PROVE IInv
  OBVIOUS
<1> USE BatcherAssumption
<1>1. TypeOK
  BY DEF Init, TypeOK, Pipe, PC, Ready
<1>2. LockIsInOrder
  <2>1. Len(lock) = 0
    BY DEF Init
  <2>2. \A i \in 1..Len(lock) : FALSE
    BY <2>1
  <2> QED
    BY <2>2 DEF Init, LockIsInOrder, Once, In, Wants, Tasks, Ready
<1>3. StopEndsTasks
  BY DEF Init, StopEndsTasks, Ready
<1>4. FlushesAreDue
  BY DEF Init, FlushesAreDue, Due
<1>5. OwedIsKept
  BY DEF Init, OwedIsKept
<1>6. OpenIsEnqueuing
  BY DEF Init, OpenIsEnqueuing
<1> QED
  BY <1>1, <1>2, <1>3, <1>4, <1>5, <1>6 DEF IInv, Sound

-----------------------------------------------------------------------------
(* The lock stays in order *)

(* A task that is not there joins the queue.                                *)
LEMMA RequestKeeps ==
  ASSUME TypeOK, LockIsInOrder, NEW t \in Tasks, ~Wants(t), Request(t),
         \A u \in Tasks : Wants(u)' <=> u = t \/ Wants(u),
         pipe'.at = "enqueue" => pipe.at = "enqueue",
         \A c \in CDNs : pc'[c] = "enqueue" => pc[c] = "enqueue"
  PROVE  LockIsInOrder'
<1>1. lock \in Seq(Tasks) /\ ~In(t, lock) /\ Once(lock) /\ lock' = Append(lock, t)
  BY DEF TypeOK, Tasks, LockIsInOrder, Request
<1>2. /\ Once(lock') /\ lock' # << >>
      /\ \A u : In(u, lock') <=> u = t \/ In(u, lock)
      /\ lock # << >> => Head(lock') = Head(lock)
  BY <1>1, AppendLock
<1>3. \A u \in Tasks : In(u, lock') <=> Wants(u)'
  BY <1>2 DEF LockIsInOrder
<1>4. \A u : HoldsLock(u) => HoldsLock(u)'
  BY <1>2 DEF HoldsLock
<1> QED
  BY <1>2, <1>3, <1>4 DEF LockIsInOrder

(* The holder leaves; then nobody enqueues.                                 *)
LEMMA ReleaseKeeps ==
  ASSUME TypeOK, LockIsInOrder, NEW t \in Tasks, HoldsLock(t), Release,
         \A u \in Tasks : Wants(u)' <=> u # t /\ Wants(u),
         pipe'.at = "enqueue" => pipe.at = "enqueue",
         \A c \in CDNs : pc'[c] = "enqueue" => pc[c] = "enqueue"
  PROVE  LockIsInOrder'
<1>1. lock \in Seq(Tasks) /\ lock # << >> /\ Once(lock) /\ lock' = Tail(lock) /\ Head(lock) = t
  BY DEF TypeOK, Tasks, LockIsInOrder, Release, HoldsLock
<1>2. Once(lock') /\ \A u : In(u, lock') <=> In(u, lock) /\ u # t
  BY <1>1, TailLock
<1>3. \A u \in Tasks : In(u, lock') <=> Wants(u)'
  BY <1>2 DEF LockIsInOrder
<1>4. Pipeline \in Tasks /\ pipe'.at # "enqueue"
  <2>1. Pipeline \in Tasks /\ (pipe'.at = "enqueue" => Wants(Pipeline)')
    BY DEF Tasks, Wants
  <2>2. pipe.at = "enqueue" => t = Pipeline
    BY <1>1 DEF LockIsInOrder, HoldsLock
  <2> QED
    BY <2>1, <2>2
<1>5. \A c \in CDNs : pc'[c] # "enqueue"
  <2> SUFFICES ASSUME NEW c \in CDNs, pc'[c] = "enqueue" PROVE FALSE
    OBVIOUS
  <2>1. c \in Tasks /\ Wants(c)'
    BY DEF Tasks, Wants
  <2>2. c = t
    BY <1>1 DEF LockIsInOrder, HoldsLock
  <2> QED
    BY <2>1, <2>2
<1> QED
  BY <1>2, <1>3, <1>4, <1>5 DEF LockIsInOrder

(* The holder goes on, or nothing of the lock changes.                      *)
LEMMA HoldKeeps ==
  ASSUME LockIsInOrder, UNCHANGED lock,
         \A u \in Tasks : Wants(u)' <=> Wants(u),
         pipe'.at = "enqueue" => pipe.at = "enqueue" \/ HoldsLock(Pipeline),
         \A c \in CDNs : pc'[c] = "enqueue" => pc[c] = "enqueue" \/ HoldsLock(c)
  PROVE  LockIsInOrder'
BY DEF LockIsInOrder, HoldsLock

(* Every step of the batcher and its environment.                           *)
LEMMA LockStep ==
  ASSUME TypeOK, LockIsInOrder, StopEndsTasks, [Next]_vars
  PROVE  LockIsInOrder'
<1> USE BatcherAssumption
<1>0. /\ pc \in [CDNs -> PC] /\ pipe \in Pipe
      /\ Pipeline \in Tasks /\ CDNs \subseteq Tasks /\ Pipeline \notin CDNs
  BY DEF TypeOK, Tasks
<1>1. ASSUME NEW c \in CDNs, NEW u \in URLs, Submit(c, u) PROVE LockIsInOrder'
  <2>1. ~Wants(Pipeline) /\ Request(Pipeline) /\ pipe.at = "ready" /\ pipe'.at = "submit" /\ pc' = pc
    BY <1>0, <1>1 DEF Submit, Wants
  <2>2. \A t \in Tasks : Wants(t)' <=> t = Pipeline \/ Wants(t)
    BY <1>0, <2>1 DEF Wants, Tasks
  <2> QED
    BY <1>0, <2>1, <2>2, RequestKeeps
<1>2. ASSUME SubmitLocked PROVE LockIsInOrder'
  <2>1. /\ HoldsLock(Pipeline) /\ pipe.at = "submit"
        /\ \A c \in CDNs : pc'[c] = pc[c] \/ (pc[c] = "none" /\ pc'[c] = "idle")
    BY <1>0, <1>2 DEF SubmitLocked
  <2>2. \A c \in CDNs : (pc'[c] \in {"check", "flush", "enqueue"} <=> pc[c] \in {"check", "flush", "enqueue"})
                        /\ (pc'[c] = "enqueue" => pc[c] = "enqueue")
    BY <2>1
  <2>3. CASE pipe'.at = "enqueue" /\ UNCHANGED lock
    <3>1. \A t \in Tasks : Wants(t)' <=> Wants(t)
      BY <1>0, <2>1, <2>2, <2>3 DEF Wants, Tasks
    <3> QED
      BY <2>1, <2>2, <2>3, <3>1, HoldKeeps
  <2>4. CASE pipe' = Ready /\ Release
    <3>1. \A t \in Tasks : Wants(t)' <=> t # Pipeline /\ Wants(t)
      BY <1>0, <2>1, <2>2, <2>4 DEF Wants, Tasks, Ready
    <3>2. pipe'.at # "enqueue"
      BY <2>4 DEF Ready
    <3> QED
      BY <1>0, <2>1, <2>2, <2>4, <3>1, <3>2, ReleaseKeeps
  <2>5. [pipe EXCEPT !.at = "enqueue"].at = "enqueue"
    BY <1>0 DEF Pipe
  <2> QED
    BY <1>2, <2>3, <2>4, <2>5 DEF SubmitLocked
<1>3. ASSUME NEW c \in CDNs, Wake(c) \/ TimeUp(c) PROVE LockIsInOrder'
  <2>1. /\ pc[c] \in {"idle", "timed"} /\ Request(c) /\ pipe' = pipe
        /\ pc'[c] \in {"check", "flush"} /\ \A d \in CDNs : d # c => pc'[d] = pc[d]
    BY <1>0, <1>3 DEF Wake, TimeUp
  <2>2. ~Wants(c)
    BY <1>0, <2>1 DEF Wants
  <2>3. \A t \in Tasks : Wants(t)' <=> t = c \/ Wants(t)
    BY <1>0, <2>1 DEF Wants, Tasks
  <2>4. \A d \in CDNs : pc'[d] = "enqueue" => pc[d] = "enqueue"
    BY <2>1
  <2> QED
    BY <1>0, <2>1, <2>2, <2>3, <2>4, RequestKeeps
<1>4. ASSUME NEW c \in CDNs, pc[c] \in {"check", "flush", "enqueue"},
             pc'[c] \in {"idle", "timed"}, HoldsLock(c),
             \A d \in CDNs : d # c => pc'[d] = pc[d], pipe' = pipe, Release
      PROVE  LockIsInOrder'
  <2>1. \A t \in Tasks : Wants(t)' <=> t # c /\ Wants(t)
    BY <1>0, <1>4 DEF Wants, Tasks
  <2>2. \A d \in CDNs : pc'[d] = "enqueue" => pc[d] = "enqueue"
    BY <1>4
  <2> QED
    BY <1>0, <1>4, <2>1, <2>2, ReleaseKeeps
<1>5. ASSUME NEW c \in CDNs, Check(c) PROVE LockIsInOrder'
  <2>1. /\ pc[c] = "check" /\ HoldsLock(c) /\ pipe' = pipe
        /\ \A d \in CDNs : d # c => pc'[d] = pc[d]
    BY <1>0, <1>5 DEF Check
  <2>2. CASE pc'[c] \in {"idle", "timed"} /\ Release
    BY <1>4, <2>1, <2>2
  <2>3. CASE pc'[c] = "flush" /\ lock' = Append(Tail(lock), c)
    <3>1. /\ lock \in Seq(Tasks) /\ lock # << >> /\ Once(lock) /\ Head(lock) = c
          /\ In(c, lock)
      BY <1>0, <2>1 DEF TypeOK, Tasks, LockIsInOrder, HoldsLock, Wants
    <3>2. /\ Tail(lock) \in Seq(Tasks) /\ Once(Tail(lock))
          /\ \A t : In(t, Tail(lock)) <=> In(t, lock) /\ t # c
      BY <3>1, TailLock
    <3>3. Once(lock') /\ \A t : In(t, lock') <=> t = c \/ In(t, Tail(lock))
      BY <1>0, <2>3, <3>2, AppendLock
    <3>4. \A t \in Tasks : Wants(t)' <=> Wants(t)
      BY <1>0, <2>1, <2>3 DEF Wants, Tasks
    <3>5. \A t \in Tasks : In(t, lock') <=> Wants(t)'
      BY <3>1, <3>2, <3>3, <3>4 DEF LockIsInOrder
    <3>6. pipe'.at # "enqueue" /\ \A d \in CDNs : pc'[d] # "enqueue"
      BY <1>0, <2>1, <2>3, <3>1 DEF LockIsInOrder, HoldsLock
    <3> QED
      BY <3>3, <3>5, <3>6 DEF LockIsInOrder
  <2> QED
    BY <1>0, <1>5, <2>2, <2>3 DEF Check
<1>6. ASSUME NEW c \in CDNs, FlushLocked(c) PROVE LockIsInOrder'
  <2>1. /\ pc[c] = "flush" /\ HoldsLock(c) /\ pipe' = pipe
        /\ \A d \in CDNs : d # c => pc'[d] = pc[d]
    BY <1>0, <1>6 DEF FlushLocked
  <2>2. CASE pc'[c] = "idle" /\ Release
    BY <1>4, <2>1, <2>2
  <2>3. CASE pc'[c] = "enqueue" /\ UNCHANGED lock
    <3>1. \A t \in Tasks : Wants(t)' <=> Wants(t)
      BY <1>0, <2>1, <2>3 DEF Wants, Tasks
    <3>2. \A d \in CDNs : pc'[d] = "enqueue" => pc[d] = "enqueue" \/ HoldsLock(d)
      BY <2>1
    <3> QED
      BY <2>1, <2>3, <3>1, <3>2, HoldKeeps
  <2> QED
    BY <1>0, <1>6, <2>2, <2>3 DEF FlushLocked
<1>7. ASSUME EnqueueDone PROVE LockIsInOrder'
  <2>1. CASE pipe.at = "enqueue" /\ pipe' = Ready /\ UNCHANGED pc
    <3>1. HoldsLock(Pipeline) /\ Release /\ pipe'.at # "enqueue"
      BY <1>7, <2>1 DEF EnqueueDone, LockIsInOrder, Ready
    <3>2. \A t \in Tasks : Wants(t)' <=> t # Pipeline /\ Wants(t)
      BY <1>0, <2>1 DEF Wants, Tasks, Ready
    <3> QED
      BY <1>0, <2>1, <3>1, <3>2, ReleaseKeeps
  <2>2. ASSUME NEW c \in CDNs, pc[c] = "enqueue", pc' = [pc EXCEPT ![c] = "idle"], UNCHANGED pipe
        PROVE  LockIsInOrder'
    <3>1. HoldsLock(c) /\ Release
      BY <1>7, <2>2 DEF EnqueueDone, LockIsInOrder
    <3>2. pc'[c] = "idle" /\ \A d \in CDNs : d # c => pc'[d] = pc[d]
      BY <1>0, <2>2
    <3> QED
      BY <1>4, <2>2, <3>1, <3>2
  <2> QED
    BY <1>7, <2>1, <2>2 DEF EnqueueDone
<1>8. ASSUME Stop PROVE LockIsInOrder'
  <2>1. Len(lock') = 0 /\ pipe'.at = "off" /\ \A c \in CDNs : pc'[c] = "off"
    BY <1>8 DEF Stop
  <2>2. \A i \in 1..Len(lock') : FALSE
    BY <2>1
  <2> QED
    BY <1>0, <2>1, <2>2 DEF LockIsInOrder, Once, In, Wants
<1>9. ASSUME UNCHANGED <<pc, pipe, lock>> PROVE LockIsInOrder'
  BY <1>9 DEF LockIsInOrder, HoldsLock, Wants
<1>10. ASSUME WorkerCommit \/ (\E c \in CDNs : DrainTake(c)) \/ DrainDone \/ Close \/ Tick \/ UNCHANGED vars
       PROVE  UNCHANGED <<pc, pipe, lock>>
  BY <1>10 DEF WorkerCommit, DrainTake, DrainDone, Close, Tick, tasks, vars
<1> QED
  BY <1>1, <1>2, <1>3, <1>5, <1>6, <1>7, <1>8, <1>9, <1>10 DEF Next, Debounce

-----------------------------------------------------------------------------
(* Types, and what a stop ends *)

(* Every step keeps the types; a holder is there when the lock is released. *)
LEMMA TypeStep ==
  ASSUME TypeOK, LockIsInOrder, StopEndsTasks, [Next]_vars
  PROVE  TypeOK'
<1> USE BatcherAssumption DEF TypeOK
<1> DEFINE Queue == Seq(CDNs \cup {Pipeline})
<1>1. ASSUME NEW t \in Tasks PROVE Append(lock, t) \in Queue
  BY DEF Tasks
<1>2. lock # << >> => Tail(lock) \in Queue
  OBVIOUS
<1>3. ASSUME NEW c \in CDNs, NEW urls \in SUBSET URLs, Take(c, urls)
      PROVE  /\ buf' \in [CDNs -> SUBSET URLs] /\ age' \in [CDNs -> Nat]
             /\ idle' \in [CDNs -> Nat] /\ open' \in SUBSET Target /\ io' \in Nat
  BY <1>3 DEF Take, Target
<1>4. ASSUME NEW c \in CDNs, NEW u \in URLs, Submit(c, u) PROVE TypeOK'
  BY <1>1, <1>4 DEF Submit, Request, Tasks, Pipe, Target, buffers, sink
<1>5. ASSUME SubmitLocked PROVE TypeOK'
  <2> DEFINE c == pipe.target[1]
             urls == buf[c] \cup {pipe.target[2]}
  <2>1. pipe.target \in Target /\ c \in CDNs /\ urls \in SUBSET URLs /\ lock # << >>
    BY <1>5 DEF SubmitLocked, StopEndsTasks, Target, HoldsLock
  <2>2. /\ pc' \in [CDNs -> PC] /\ wake' \in [CDNs -> BOOLEAN] /\ owed' \in SUBSET Target
        /\ UNCHANGED <<timer, phase, drain, ghosts>>
    BY <1>5, <2>1 DEF SubmitLocked, PC
  <2>3. CASE Take(c, urls) /\ pipe' = [pipe EXCEPT !.at = "enqueue"] /\ UNCHANGED lock
    <3>1. /\ buf' \in [CDNs -> SUBSET URLs] /\ age' \in [CDNs -> Nat]
          /\ idle' \in [CDNs -> Nat] /\ open' \in SUBSET Target /\ io' \in Nat
      BY <1>3, <2>1, <2>3
    <3>2. pipe' \in Pipe
      BY <2>3 DEF Pipe
    <3> QED
      BY <2>2, <2>3, <3>1, <3>2 DEF ghosts
  <2>4. CASE /\ buf'  = [buf  EXCEPT ![c] = urls]
             /\ age'  = [age  EXCEPT ![c] = IF buf[c] = {} THEN 0 ELSE @]
             /\ idle' = [idle EXCEPT ![c] = 0]
             /\ pipe' = Ready
             /\ Release
             /\ UNCHANGED <<open, io>>
    BY <1>2, <2>1, <2>2, <2>4 DEF Pipe, Ready, Release, ghosts
  <2> QED
    BY <1>5, <2>3, <2>4 DEF SubmitLocked
<1>6. ASSUME NEW c \in CDNs, Wake(c) \/ TimeUp(c) PROVE TypeOK'
  <2>1. c \in Tasks
    BY DEF Tasks
  <2>2. lock' \in Queue
    BY <1>1, <1>6, <2>1 DEF Wake, TimeUp, Request
  <2>3. CASE Wake(c)
    BY <2>2, <2>3 DEF Wake, PC, buffers, sink, ghosts
  <2>4. CASE TimeUp(c)
    BY <2>2, <2>4 DEF TimeUp, PC, buffers, sink, ghosts
  <2> QED
    BY <1>6, <2>3, <2>4
<1>7. ASSUME NEW c \in CDNs, Check(c) PROVE TypeOK'
  <2>1. lock # << >> /\ Wait(c) \in Int
    BY <1>7 DEF Check, HoldsLock, Wait, Lower
  <2>2. Append(Tail(lock), c) \in Queue
    BY <1>2, <2>1
  <2>3. lock' \in Queue
    BY <1>2, <1>7, <2>1, <2>2 DEF Check, Release
  <2>4. pc' \in [CDNs -> PC]
    <3>1. \E x \in {"idle", "flush", "timed"} : pc' = [pc EXCEPT ![c] = x]
      BY <1>7 DEF Check
    <3> QED
      BY <3>1 DEF PC
  <2>5. timer' \in [CDNs -> Nat]
    <3>1. CASE Wait(c) > 0
      <4>1. Wait(c) \in Nat
        BY <2>1, <3>1
      <4>2. timer' = timer \/ timer' = [timer EXCEPT ![c] = Wait(c)]
        BY <1>7 DEF Check
      <4> QED
        BY <4>1, <4>2
    <3>2. CASE ~(Wait(c) > 0)
      <4>1. timer' = timer
        BY <1>7, <3>2 DEF Check
      <4> QED
        BY <4>1
    <3> QED
      BY <3>1, <3>2
  <2> QED
    BY <1>7, <2>3, <2>4, <2>5 DEF Check, buffers, sink, ghosts
<1>8. ASSUME NEW c \in CDNs, FlushLocked(c) PROVE TypeOK'
  <2>1. lock' \in Queue /\ pc' \in [CDNs -> PC]
    BY <1>2, <1>8 DEF FlushLocked, HoldsLock, Release, PC
  <2>2. /\ buf' \in [CDNs -> SUBSET URLs] /\ age' \in [CDNs -> Nat]
        /\ idle' \in [CDNs -> Nat] /\ open' \in SUBSET Target /\ io' \in Nat
    BY <1>3, <1>8 DEF FlushLocked, buffers
  <2> QED
    BY <1>8, <2>1, <2>2 DEF FlushLocked, ghosts
<1>9. ASSUME EnqueueDone PROVE TypeOK'
  <2>1. lock # << >>
    BY <1>9 DEF EnqueueDone, LockIsInOrder, HoldsLock
  <2>2. pipe' \in Pipe /\ pc' \in [CDNs -> PC]
    BY <1>9 DEF EnqueueDone, Ready, Pipe, PC
  <2> QED
    BY <1>2, <1>9, <2>1, <2>2 DEF EnqueueDone, Commit, Release, buffers, ghosts
<1>10. ASSUME WorkerCommit \/ DrainDone \/ Close PROVE TypeOK'
  BY <1>10 DEF WorkerCommit, DrainDone, Close, Commit, buffers, tasks, ghosts
<1>11. ASSUME Stop PROVE TypeOK'
  BY <1>11 DEF Stop, Pipe, PC, buffers
<1>12. ASSUME NEW c \in CDNs, DrainTake(c) PROVE TypeOK'
  <2>1. /\ buf' \in [CDNs -> SUBSET URLs] /\ age' \in [CDNs -> Nat]
        /\ idle' \in [CDNs -> Nat] /\ open' \in SUBSET Target /\ io' \in Nat
    BY <1>3, <1>12 DEF DrainTake
  <2> QED
    BY <1>12, <2>1 DEF DrainTake, tasks, ghosts
<1>13. ASSUME Tick PROVE TypeOK'
  <2>1. ASSUME NEW f \in [CDNs -> Nat] PROVE Later(f) \in [CDNs -> Nat]
    BY DEF Later
  <2> QED
    BY <1>13, <2>1 DEF Tick, ghosts
<1>14. CASE UNCHANGED vars
  BY <1>14 DEF vars
<1> QED
  BY <1>4, <1>5, <1>6, <1>7, <1>8, <1>9, <1>10, <1>11, <1>12, <1>13, <1>14 DEF Next, Debounce

(* Only a stop changes the phase of a running daemon, and it ends every     *)
(* task; what the pipeline carries to the lock is a target.                 *)
LEMMA StopStep ==
  ASSUME TypeOK, StopEndsTasks, [Next]_vars
  PROVE  StopEndsTasks'
<1> USE BatcherAssumption
<1>0. pc \in [CDNs -> PC] /\ pipe \in Pipe
  BY DEF TypeOK
<1>1. ASSUME NEW c \in CDNs, NEW u \in URLs, Submit(c, u) PROVE StopEndsTasks'
  BY <1>1 DEF Submit, StopEndsTasks, Target
<1>2. ASSUME SubmitLocked PROVE StopEndsTasks'
  <2>1. pipe'.at \in {"enqueue", "ready"}
    BY <1>0, <1>2 DEF SubmitLocked, Pipe, Ready
  <2>2. phase = "running" /\ UNCHANGED <<phase, drain, cut>>
    BY <1>0, <1>2 DEF SubmitLocked, StopEndsTasks, ghosts
  <2> QED
    BY <2>1, <2>2 DEF StopEndsTasks
<1>3. ASSUME NEW c \in CDNs, Debounce(c) PROVE StopEndsTasks'
  <2>1. phase = "running" /\ UNCHANGED <<phase, drain, cut, pipe>>
    BY <1>0, <1>3 DEF Debounce, Wake, Check, TimeUp, FlushLocked, StopEndsTasks, ghosts
  <2> QED
    BY <2>1 DEF StopEndsTasks
<1>4. ASSUME EnqueueDone PROVE StopEndsTasks'
  <2>1. pipe' = Ready \/ UNCHANGED pipe
    BY <1>4 DEF EnqueueDone
  <2> QED
    BY <1>4, <2>1 DEF EnqueueDone, StopEndsTasks, Ready, ghosts
<1>5. ASSUME Stop PROVE StopEndsTasks'
  BY <1>5 DEF Stop, StopEndsTasks
<1>6. ASSUME WorkerCommit \/ Tick \/ UNCHANGED vars PROVE StopEndsTasks'
  BY <1>6 DEF WorkerCommit, Tick, StopEndsTasks, tasks, ghosts, vars
<1>7. ASSUME (\E c \in CDNs : DrainTake(c)) \/ DrainDone \/ Close PROVE StopEndsTasks'
  BY <1>7 DEF DrainTake, DrainDone, Close, StopEndsTasks, tasks, ghosts
<1> QED
  BY <1>1, <1>2, <1>3, <1>4, <1>5, <1>6, <1>7 DEF Next

-----------------------------------------------------------------------------
(* No flush is early *)

(* What concerns another CDN does not concern c, as long as the pipeline    *)
(* does not overtake it.                                                    *)
LEMMA DueElsewhere ==
  ASSUME NEW c \in CDNs, Due(c),
         /\ buf'[c] = buf[c] /\ age'[c] = age[c] /\ idle'[c] = idle[c]
         /\ pc'[c] = pc[c] /\ timer'[c] = timer[c] /\ wake'[c] = wake[c],
         pc[c] = "timed" /\ wake[c] /\ pipe.at = "enqueue" => pipe'.at = "enqueue",
         pipe'.at = "submit" /\ Before(Pipeline, c, lock')
            => pipe.at = "submit" /\ Before(Pipeline, c, lock)
  PROVE  Due(c)'
BY DEF Due

(* The deadlines a timer is armed for, and its end.                         *)
LEMMA DueStep ==
  ASSUME TypeOK, LockIsInOrder, StopEndsTasks, FlushesAreDue, [Next]_vars
  PROVE  FlushesAreDue'
<1> USE BatcherAssumption
<1>0. /\ buf \in [CDNs -> SUBSET URLs] /\ pc \in [CDNs -> PC] /\ pipe \in Pipe
      /\ age \in [CDNs -> Nat] /\ idle \in [CDNs -> Nat] /\ timer \in [CDNs -> Nat]
      /\ wake \in [CDNs -> BOOLEAN]
      /\ lock \in Seq(Tasks) /\ Once(lock)
      /\ Pipeline \in Tasks /\ Pipeline \notin CDNs /\ CDNs \subseteq Tasks
  BY DEF TypeOK, LockIsInOrder, Tasks
<1>1. Window \in Nat /\ Window <= QuietWindow /\ Window <= MaxAge
  BY DEF Window, Lower
<1>2. ASSUME NEW t \in Tasks, Request(t), ~Wants(t), NEW c \in CDNs, c # t,
             Before(Pipeline, c, lock')
      PROVE  Before(Pipeline, c, lock)
  <2>1. ~In(t, lock) /\ lock' = Append(lock, t)
    BY <1>2 DEF LockIsInOrder, Request
  <2> QED
    BY <1>0, <1>2, <2>1, AppendLock
<1>3. ASSUME lock # << >>, Release, NEW c, Before(Pipeline, c, lock')
      PROVE  Before(Pipeline, c, lock)
  BY <1>0, <1>3, TailLock DEF Release
<1>take. ASSUME NEW d \in CDNs, NEW urls, Take(d, urls)
       PROVE  /\ \A c \in CDNs : c # d => buf'[c] = buf[c] /\ age'[c] = age[c] /\ idle'[c] = idle[c]
              /\ buf'[d] = {} /\ idle'[d] = 0 /\ age'[d] = 0
  <2>1. /\ buf' = [buf EXCEPT ![d] = {}] /\ age' = [age EXCEPT ![d] = 0]
        /\ idle' = [idle EXCEPT ![d] = 0]
    BY <1>take DEF Take
  <2> QED
    BY <1>0, <2>1
<1>4. ASSUME NEW d \in CDNs, NEW u \in URLs, Submit(d, u) PROVE FlushesAreDue'
  <2>1. /\ pipe.at = "ready" /\ Request(Pipeline) /\ ~Wants(Pipeline)
        /\ UNCHANGED <<buf, age, idle, wake, pc, timer>>
    BY <1>0, <1>4 DEF Submit, Wants, buffers
  <2>2. ~In(Pipeline, lock)
    BY <1>0, <2>1 DEF LockIsInOrder
  <2> SUFFICES ASSUME NEW c \in CDNs PROVE Due(c)'
    BY DEF FlushesAreDue
  <2>3. ~Before(Pipeline, c, lock')
    <3>1. ~Before(Pipeline, c, lock)
      BY <2>2 DEF Before, In
    <3> QED
      BY <1>0, <1>2, <2>1, <3>1
  <2> QED
    BY <2>1, <2>3, DueElsewhere DEF FlushesAreDue
<1>5. ASSUME SubmitLocked PROVE FlushesAreDue'
  <2> DEFINE d == pipe.target[1]
             urls == buf[d] \cup {pipe.target[2]}
  <2>1. /\ pipe.at = "submit" /\ HoldsLock(Pipeline) /\ d \in CDNs
        /\ pc' = [pc EXCEPT ![d] = IF @ = "none" THEN "idle" ELSE @]
        /\ wake' = [wake EXCEPT ![d] = TRUE] /\ UNCHANGED timer
    BY <1>5 DEF SubmitLocked, StopEndsTasks, Target
  <2>2. /\ pipe'.at # "submit"
        /\ \/ /\ pipe'.at = "enqueue" /\ Take(d, urls)
           \/ /\ buf' = [buf EXCEPT ![d] = urls]
              /\ age' = [age EXCEPT ![d] = IF buf[d] = {} THEN 0 ELSE @]
              /\ idle' = [idle EXCEPT ![d] = 0]
    <3>1. [pipe EXCEPT !.at = "enqueue"].at = "enqueue" /\ Ready.at = "ready"
      BY <1>0 DEF Pipe, Ready
    <3> QED
      BY <1>5, <3>1 DEF SubmitLocked
  <2> SUFFICES ASSUME NEW c \in CDNs PROVE Due(c)'
    BY DEF FlushesAreDue
  <2>3. CASE c # d
    <3>1. /\ buf'[c] = buf[c] /\ age'[c] = age[c] /\ idle'[c] = idle[c]
          /\ pc'[c] = pc[c] /\ timer'[c] = timer[c] /\ wake'[c] = wake[c]
      BY <1>0, <2>1, <2>2, <2>3 DEF Take
    <3> QED
      BY <2>1, <2>2, <3>1, DueElsewhere DEF FlushesAreDue
  <2>4. CASE c = d
    <3>1. /\ pc'[c] = "timed" <=> pc[c] = "timed"
          /\ pc'[c] = "flush" <=> pc[c] = "flush"
          /\ wake'[c] /\ timer'[c] = timer[c]
      BY <1>0, <2>1, <2>4
    <3>2. CASE pipe'.at = "enqueue" /\ Take(d, urls)
      <4>1. buf'[c] = {} /\ age'[c] = 0 /\ idle'[c] = 0
        BY <1>0, <2>1, <2>4, <3>2 DEF Take
      <4> QED
        BY <2>2, <3>1, <3>2, <4>1 DEF Due
    <3>3. CASE /\ buf' = [buf EXCEPT ![d] = urls]
               /\ age' = [age EXCEPT ![d] = IF buf[d] = {} THEN 0 ELSE @]
               /\ idle' = [idle EXCEPT ![d] = 0]
      <4>1. buf'[c] # {} /\ idle'[c] = 0 /\ (buf[c] # {} => age'[c] = age[c]) /\ age'[c] \in Nat
        BY <1>0, <2>1, <2>4, <3>3
      <4>2. Due(c)
        BY DEF FlushesAreDue
      <4>3. pc[c] = "timed" => buf[c] # {} /\ age[c] + timer[c] >= Window
        BY <2>1, <4>2 DEF Due
      <4>4. pc[c] = "flush" => buf[c] # {} /\ age[c] >= Window
        <5> SUFFICES ASSUME pc[c] = "flush" PROVE buf[c] # {} /\ age[c] >= Window
          OBVIOUS
        <5>1. In(c, lock)
          BY <1>0 DEF LockIsInOrder, Wants
        <5>2. Before(Pipeline, c, lock)
          BY <1>0, <2>1, <5>1, TailLock DEF HoldsLock
        <5> QED
          BY <2>1, <4>2, <5>2 DEF Due
      <4>5. idle'[c] <= age'[c]
        BY <4>1
      <4> QED
        BY <2>2, <3>1, <4>1, <4>3, <4>4, <4>5 DEF Due
    <3> QED
      BY <2>2, <3>2, <3>3
  <2> QED
    BY <2>3, <2>4
<1>6. ASSUME NEW d \in CDNs, Wake(d) PROVE FlushesAreDue'
  <2>1. /\ pc[d] \in {"idle", "timed"} /\ Request(d) /\ ~Wants(d)
        /\ pc' = [pc EXCEPT ![d] = "check"] /\ timer' = [timer EXCEPT ![d] = 0]
        /\ wake' = [wake EXCEPT ![d] = FALSE] /\ UNCHANGED <<buf, age, idle, pipe>>
    BY <1>0, <1>6 DEF Wake, Wants, buffers
  <2> SUFFICES ASSUME NEW c \in CDNs PROVE Due(c)'
    BY DEF FlushesAreDue
  <2>2. CASE c = d
    BY <1>0, <2>1, <2>2 DEF FlushesAreDue, Due
  <2>3. CASE c # d
    <3>1. pc'[c] = pc[c] /\ timer'[c] = timer[c] /\ wake'[c] = wake[c]
      BY <1>0, <2>1, <2>3
    <3> QED
      BY <1>0, <1>2, <2>1, <2>3, <3>1, DueElsewhere DEF FlushesAreDue
  <2> QED
    BY <2>2, <2>3
<1>7. ASSUME NEW d \in CDNs, TimeUp(d) PROVE FlushesAreDue'
  <2>1. /\ pc[d] = "timed" /\ timer[d] = 0 /\ Request(d) /\ ~Wants(d)
        /\ pc' = [pc EXCEPT ![d] = "flush"]
        /\ UNCHANGED <<buf, age, idle, pipe, timer, wake>>
    BY <1>0, <1>7 DEF TimeUp, Wants, buffers
  <2> SUFFICES ASSUME NEW c \in CDNs PROVE Due(c)'
    BY DEF FlushesAreDue
  <2>2. CASE c = d
    <3>1. Due(c) /\ pc'[c] = "flush" /\ age[c] \in Nat
      BY <1>0, <2>1, <2>2 DEF FlushesAreDue
    <3>2. \/ buf[c] # {} /\ age[c] >= Window
          \/ buf[c] = {} /\ pipe.at = "enqueue"
      BY <1>1, <2>1, <2>2, <3>1 DEF Due
    <3> QED
      BY <2>1, <3>1, <3>2 DEF Due
  <2>3. CASE c # d
    <3>1. pc'[c] = pc[c]
      BY <1>0, <2>1, <2>3
    <3> QED
      BY <1>0, <1>2, <2>1, <2>3, <3>1, DueElsewhere DEF FlushesAreDue
  <2> QED
    BY <2>2, <2>3
<1>8. ASSUME NEW d \in CDNs, Check(d) PROVE FlushesAreDue'
  <2>1. /\ pc[d] = "check" /\ HoldsLock(d) /\ pipe' = pipe
        /\ \A c \in CDNs : c # d => pc'[c] = pc[c] /\ timer'[c] = timer[c]
        /\ UNCHANGED <<buf, age, idle, wake>>
        /\ pc'[d] \in {"idle", "flush", "timed"}
    BY <1>0, <1>8 DEF Check, buffers
  <2> SUFFICES ASSUME NEW c \in CDNs PROVE Due(c)'
    BY DEF FlushesAreDue
  <2>2. CASE c = d
    <3>1. /\ Wait(c) <= QuietWindow - idle[c] \/ Wait(c) <= MaxAge - age[c]
          /\ Wait(c) = QuietWindow - idle[c] \/ Wait(c) = MaxAge - age[c]
          /\ idle[c] <= age[c] /\ idle[c] \in Nat /\ age[c] \in Nat
      BY <1>0 DEF Wait, Lower, FlushesAreDue, Due
    <3>2. age[c] + Wait(c) >= Window /\ (Wait(c) <= 0 => age[c] >= Window)
      BY <1>1, <3>1
    <3>3. /\ pc'[c] = "flush" => buf[c] # {} /\ Wait(c) <= 0
          /\ pc'[c] = "timed" => buf[c] # {} /\ timer'[c] = Wait(c)
      BY <1>0, <1>8, <2>2 DEF Check
    <3> QED
      BY <2>1, <3>1, <3>2, <3>3 DEF Due
  <2>3. CASE c # d
    <3>1. Before(Pipeline, c, lock') => Before(Pipeline, c, lock)
      <4>1. lock # << >> /\ Head(lock) = d
        BY <2>1 DEF HoldsLock
      <4>2. /\ Tail(lock) \in Seq(Tasks) /\ Once(Tail(lock)) /\ ~In(d, Tail(lock))
            /\ Before(Pipeline, c, Tail(lock)) => Before(Pipeline, c, lock)
        BY <1>0, <4>1, TailLock
      <4>3. Before(Pipeline, c, Append(Tail(lock), d)) => Before(Pipeline, c, Tail(lock))
        BY <1>0, <2>3, <4>2, AppendLock
      <4> QED
        BY <1>8, <4>2, <4>3 DEF Check, Release
    <3> QED
      BY <2>1, <2>3, <3>1, DueElsewhere DEF FlushesAreDue
  <2> QED
    BY <2>2, <2>3
<1>9. ASSUME NEW d \in CDNs, FlushLocked(d) PROVE FlushesAreDue'
  <2>1. /\ pc[d] = "flush" /\ lock # << >> /\ pipe' = pipe
        /\ \A c \in CDNs : c # d => pc'[c] = pc[c]
        /\ UNCHANGED <<wake, timer>> /\ pc'[d] \in {"idle", "enqueue"}
    BY <1>0, <1>9 DEF FlushLocked, HoldsLock
  <2>2. /\ \A c \in CDNs : c # d => buf'[c] = buf[c] /\ age'[c] = age[c] /\ idle'[c] = idle[c]
        /\ (idle'[d] = idle[d] /\ age'[d] = age[d]) \/ (idle'[d] = 0 /\ age'[d] = 0)
    <3>1. CASE UNCHANGED buffers
      BY <3>1 DEF buffers
    <3>2. CASE Take(d, buf[d])
      BY <1>take, <3>2
    <3> QED
      BY <1>9, <3>1, <3>2 DEF FlushLocked
  <2> SUFFICES ASSUME NEW c \in CDNs PROVE Due(c)'
    BY DEF FlushesAreDue
  <2>3. CASE c = d
    BY <1>0, <2>1, <2>2, <2>3 DEF FlushesAreDue, Due
  <2>4. CASE c # d
    <3>1. Before(Pipeline, c, lock') => Before(Pipeline, c, lock)
      BY <1>3, <1>9, <2>1 DEF FlushLocked
    <3> QED
      BY <2>1, <2>2, <2>4, <3>1, DueElsewhere DEF FlushesAreDue
  <2> QED
    BY <2>3, <2>4
<1>10. ASSUME EnqueueDone PROVE FlushesAreDue'
  <2>1. lock # << >> /\ Release /\ UNCHANGED <<buf, age, idle, wake, timer>>
    BY <1>10 DEF EnqueueDone, LockIsInOrder, HoldsLock, buffers
  <2>2. \A c \in CDNs : ~(pc[c] = "timed" /\ wake[c])
    BY <1>10 DEF EnqueueDone, Quiescent, Runnable
  <2>3. pipe' = Ready \/ pipe' = pipe
    BY <1>10 DEF EnqueueDone
  <2>4. pipe'.at = "submit" => pipe.at = "submit"
    BY <2>3 DEF Ready
  <2> SUFFICES ASSUME NEW c \in CDNs PROVE Due(c)'
    BY DEF FlushesAreDue
  <2>5. CASE pc'[c] = pc[c]
    BY <1>3, <2>1, <2>2, <2>4, <2>5, DueElsewhere DEF FlushesAreDue
  <2>6. CASE pc'[c] = "idle"
    BY <2>1, <2>6 DEF FlushesAreDue, Due
  <2> QED
    BY <1>0, <1>10, <2>5, <2>6 DEF EnqueueDone
<1>11. ASSUME Stop PROVE FlushesAreDue'
  BY <1>11 DEF Stop, FlushesAreDue, Due, buffers
<1>12. ASSUME NEW d \in CDNs, DrainTake(d) PROVE FlushesAreDue'
  <2>1. \A c \in CDNs : pc'[c] = "off"
    BY <1>12 DEF DrainTake, StopEndsTasks, tasks
  <2>2. \A c \in CDNs : (idle'[c] = idle[c] /\ age'[c] = age[c]) \/ (idle'[c] = 0 /\ age'[c] = 0)
    BY <1>12, <1>take DEF DrainTake
  <2> SUFFICES ASSUME NEW c \in CDNs PROVE Due(c)'
    BY DEF FlushesAreDue
  <2>3. idle[c] <= age[c]
    BY DEF FlushesAreDue, Due
  <2>4. idle'[c] <= age'[c]
    BY <2>2, <2>3
  <2> QED
    BY <2>1, <2>4 DEF Due
<1>13. ASSUME Tick PROVE FlushesAreDue'
  <2> SUFFICES ASSUME NEW c \in CDNs PROVE Due(c)'
    BY DEF FlushesAreDue
  <2>1. UNCHANGED <<buf, wake, pc, pipe, lock>>
    BY <1>13 DEF Tick
  <2>2. /\ age'[c] = IF buf[c] = {} THEN 0 ELSE age[c] + 1
        /\ idle'[c] = IF buf[c] = {} THEN 0 ELSE idle[c] + 1
        /\ timer'[c] = IF timer[c] > 0 THEN timer[c] - 1 ELSE 0
    BY <1>13 DEF Tick, Later
  <2>3. age[c] \in Nat /\ idle[c] \in Nat /\ timer[c] \in Nat /\ Due(c)
    BY <1>0 DEF FlushesAreDue
  <2>4. idle'[c] <= age'[c]
    BY <2>2, <2>3 DEF Due
  <2>5. buf[c] # {} => /\ age[c] + timer[c] >= Window => age'[c] + timer'[c] >= Window
                       /\ age[c] >= Window => age'[c] >= Window
    BY <1>1, <2>2, <2>3
  <2> QED
    BY <2>1, <2>3, <2>4, <2>5 DEF Due
<1>14. ASSUME UNCHANGED <<buffers, tasks>> PROVE FlushesAreDue'
  BY <1>14 DEF FlushesAreDue, Due, buffers, tasks
<1>15. ASSUME WorkerCommit \/ DrainDone \/ Close \/ UNCHANGED vars PROVE UNCHANGED <<buffers, tasks>>
  BY <1>15 DEF WorkerCommit, DrainDone, Close, buffers, tasks, vars
<1> QED
  BY <1>4, <1>5, <1>6, <1>7, <1>8, <1>9, <1>10, <1>11, <1>12, <1>13, <1>14, <1>15 DEF Next, Debounce

-----------------------------------------------------------------------------
(* Nothing owed is mislaid *)

(* A buffer is taken into the open transaction; the others stay.            *)
LEMMA TakeKeeps ==
  ASSUME TypeOK, NEW c \in CDNs, NEW urls \in SUBSET URLs, Take(c, urls), buf[c] \subseteq urls
  PROVE  Buffered \cup open \subseteq Buffered' \cup open' /\ {c} \X urls \subseteq open'
<1>1. /\ \A d \in CDNs : d # c => buf'[d] = buf[d]
      /\ open' = open \cup ({c} \X urls)
  BY DEF Take, TypeOK
<1> QED
  BY <1>1 DEF Buffered, Target

(* Every owed target stays in a buffer or the open transaction until some   *)
(* COMMIT, or the stop, accounts for it.                                    *)
LEMMA OwedStep ==
  ASSUME TypeOK, StopEndsTasks, OwedIsKept, [Next]_vars
  PROVE  OwedIsKept'
<1> USE BatcherAssumption
<1>1. ASSUME NEW c \in CDNs, NEW u \in URLs, Submit(c, u) PROVE OwedIsKept'
  BY <1>1 DEF Submit, OwedIsKept, Buffered, buffers, sink
<1>2. ASSUME SubmitLocked PROVE OwedIsKept'
  <2> DEFINE c == pipe.target[1]
             u == pipe.target[2]
             urls == buf[c] \cup {u}
  <2>1. /\ pipe.target \in Target /\ pipe.target = <<c, u>> /\ c \in CDNs /\ urls \in SUBSET URLs
        /\ phase = "running" /\ UNCHANGED <<phase, cut>>
        /\ owed' = owed \cup {pipe.target}
    BY <1>2 DEF SubmitLocked, StopEndsTasks, Target, TypeOK, ghosts
  <2>2. CASE Take(c, urls)
    <3>1. Buffered \cup open \subseteq Buffered' \cup open' /\ pipe.target \in open'
      BY <2>1, <2>2, TakeKeeps
    <3> QED
      BY <2>1, <3>1 DEF OwedIsKept
  <2>3. CASE buf' = [buf EXCEPT ![c] = urls] /\ UNCHANGED open
    <3>1. \A d \in CDNs : buf[d] \subseteq buf'[d] /\ (d = c => u \in buf'[d])
      BY <2>1, <2>3 DEF TypeOK
    <3>2. Buffered \subseteq Buffered' /\ pipe.target \in Buffered'
      BY <2>1, <3>1 DEF Buffered, Target
    <3> QED
      BY <2>1, <2>3, <3>2 DEF OwedIsKept
  <2> QED
    BY <1>2, <2>2, <2>3 DEF SubmitLocked
<1>3. ASSUME NEW c \in CDNs, Wake(c) \/ Check(c) \/ TimeUp(c) PROVE OwedIsKept'
  <2>1. UNCHANGED <<buf, open, owed, phase, drain, cut>>
    BY <1>3 DEF Wake, Check, TimeUp, buffers, sink, ghosts
  <2> QED
    BY <2>1 DEF OwedIsKept, Buffered
<1>4. ASSUME NEW c \in CDNs, FlushLocked(c) PROVE OwedIsKept'
  <2>1. phase = "running" /\ UNCHANGED <<owed, phase, drain, cut>>
    BY <1>4 DEF FlushLocked, StopEndsTasks, ghosts
  <2>2. CASE UNCHANGED <<buffers, open>>
    BY <2>1, <2>2 DEF OwedIsKept, Buffered, buffers
  <2>3. CASE Take(c, buf[c])
    <3>1. Buffered \cup open \subseteq Buffered' \cup open'
      BY <2>3, TakeKeeps DEF TypeOK
    <3> QED
      BY <2>1, <3>1 DEF OwedIsKept
  <2> QED
    BY <1>4, <2>2, <2>3 DEF FlushLocked
<1>5. ASSUME EnqueueDone \/ WorkerCommit PROVE OwedIsKept'
  <2>1. phase = "running" /\ Commit /\ UNCHANGED <<buf, phase, drain, cut>>
    BY <1>5 DEF EnqueueDone, WorkerCommit, buffers, ghosts
  <2> QED
    BY <2>1 DEF Commit, OwedIsKept, Buffered
<1>6. ASSUME Stop PROVE OwedIsKept'
  <2>1. cut = {} /\ cut' = open /\ phase' = "draining" /\ UNCHANGED <<buf, open, owed>>
    BY <1>6 DEF Stop, StopEndsTasks, buffers
  <2> QED
    BY <2>1 DEF OwedIsKept, Buffered
<1>7. ASSUME NEW c \in CDNs, DrainTake(c) PROVE OwedIsKept'
  <2>1. /\ Take(c, buf[c]) /\ drain' # None /\ phase = "draining"
        /\ UNCHANGED <<owed, phase, cut>>
    BY <1>7 DEF DrainTake, ghosts
  <2>2. Buffered \cup open \subseteq Buffered' \cup open'
    BY <2>1, TakeKeeps DEF TypeOK
  <2> QED
    BY <2>1, <2>2 DEF OwedIsKept
<1>8. ASSUME DrainDone PROVE OwedIsKept'
  <2>1. phase = "draining" /\ Commit /\ UNCHANGED <<buf, phase, cut>>
    BY <1>8 DEF DrainDone, buffers, ghosts
  <2> QED
    BY <2>1 DEF Commit, OwedIsKept, Buffered
<1>9. ASSUME Close PROVE OwedIsKept'
  <2>1. /\ phase = "draining" /\ drain = None /\ UNCHANGED <<buf, owed, drain, cut>>
        /\ \A c \in CDNs : buf[c] = {}
    BY <1>9 DEF Close, buffers, ghosts
  <2>2. Buffered = {}
    BY <2>1 DEF Buffered, Target
  <2> QED
    BY <2>1, <2>2 DEF OwedIsKept, Buffered
<1>10. ASSUME Tick \/ UNCHANGED vars PROVE OwedIsKept'
  <2>1. UNCHANGED <<buf, open, owed, phase, drain, cut>>
    BY <1>10 DEF Tick, ghosts, vars
  <2> QED
    BY <2>1 DEF OwedIsKept, Buffered
<1> QED
  BY <1>1, <1>2, <1>3, <1>4, <1>5, <1>6, <1>7, <1>8, <1>9, <1>10 DEF Next, Debounce

(* No step but enqueue()'s end takes a task out of it.                      *)
LEMMA OpenStep ==
  ASSUME TypeOK, StopEndsTasks, OpenIsEnqueuing, [Next]_vars
  PROVE  OpenIsEnqueuing'
<1>0. pc \in [CDNs -> PC] /\ pipe \in Pipe
  BY DEF TypeOK
<1>1. ASSUME NEW c \in CDNs, NEW u \in URLs, Submit(c, u) PROVE OpenIsEnqueuing'
  BY <1>1 DEF Submit, OpenIsEnqueuing, sink
<1>2. ASSUME SubmitLocked PROVE OpenIsEnqueuing'
  <2>1. UNCHANGED phase /\ pipe.at = "submit"
        /\ \A c \in CDNs : pc[c] = "enqueue" => pc'[c] = "enqueue"
    BY <1>0, <1>2 DEF SubmitLocked
  <2>2. CASE pipe' = [pipe EXCEPT !.at = "enqueue"]
    BY <1>0, <2>2 DEF OpenIsEnqueuing, Pipe
  <2>3. CASE UNCHANGED open
    BY <2>1, <2>3 DEF OpenIsEnqueuing
  <2> QED
    BY <1>2, <2>2, <2>3 DEF SubmitLocked
<1>3. ASSUME NEW c \in CDNs, Wake(c) \/ Check(c) \/ TimeUp(c) PROVE OpenIsEnqueuing'
  <2>1. UNCHANGED <<open, phase, pipe>> /\ \A d \in CDNs : pc[d] = "enqueue" => pc'[d] = "enqueue"
    BY <1>0, <1>3 DEF Wake, Check, TimeUp, sink
  <2> QED
    BY <2>1 DEF OpenIsEnqueuing
<1>4. ASSUME NEW c \in CDNs, FlushLocked(c) PROVE OpenIsEnqueuing'
  <2>1. UNCHANGED <<phase, pipe>> /\ \A d \in CDNs : pc[d] = "enqueue" => pc'[d] = "enqueue"
    BY <1>0, <1>4 DEF FlushLocked
  <2>2. UNCHANGED open \/ pc'[c] = "enqueue"
    BY <1>0, <1>4 DEF FlushLocked
  <2> QED
    BY <2>1, <2>2 DEF OpenIsEnqueuing
<1>5. ASSUME EnqueueDone \/ WorkerCommit \/ DrainDone \/ Close PROVE OpenIsEnqueuing'
  BY <1>5 DEF EnqueueDone, WorkerCommit, DrainDone, Close, Commit, OpenIsEnqueuing
<1>6. ASSUME Stop \/ \E c \in CDNs : DrainTake(c) PROVE OpenIsEnqueuing'
  BY <1>6 DEF Stop, DrainTake, OpenIsEnqueuing
<1>7. ASSUME Tick \/ UNCHANGED vars PROVE OpenIsEnqueuing'
  BY <1>7 DEF Tick, OpenIsEnqueuing, vars
<1> QED
  BY <1>1, <1>2, <1>3, <1>4, <1>5, <1>6, <1>7 DEF Next, Debounce

-----------------------------------------------------------------------------
(* The theorems *)

(* A failing enqueue() frees the lock as one that succeeds does, and of its *)
(* batch nothing is left; a failing drain leaves nothing at all.            *)
LEMMA FaultStep ==
  ASSUME Sound, EnqueueFails \/ DrainFails
  PROVE  Sound'
<1> USE BatcherAssumption DEF Sound
<1>0. /\ pc \in [CDNs -> PC] /\ pipe \in Pipe /\ lock \in Seq(Tasks)
      /\ Pipeline \in Tasks /\ CDNs \subseteq Tasks /\ Pipeline \notin CDNs
  BY DEF TypeOK, Tasks
<1>1. CASE EnqueueFails
  <2>1. /\ phase = "running" /\ open' = {} /\ Release
        /\ UNCHANGED <<buf, age, idle, wake, timer, io, owed, phase, drain, submits, cut>>
        /\ \A c \in CDNs : ~(pc[c] = "timed" /\ wake[c])
    BY <1>1 DEF EnqueueFails, Quiescent, Runnable, buffers, ghosts
  <2>2. PICK t \in Tasks :
          /\ HoldsLock(t)
          /\ \/ t = Pipeline /\ pipe.at = "enqueue" /\ pipe'.at = "off" /\ pc' = pc
             \/ t \in CDNs /\ pc[t] = "enqueue" /\ pipe' = pipe /\ pc' = [pc EXCEPT ![t] = "dead"]
    BY <1>0, <1>1 DEF EnqueueFails, LockIsInOrder
  <2>3. /\ \A c \in CDNs : c # t => pc'[c] = pc[c]
        /\ t \in CDNs => pc'[t] = "dead" /\ pc[t] = "enqueue"
        /\ t = Pipeline => pc' = pc /\ pipe'.at = "off"
        /\ t # Pipeline => pipe' = pipe
    BY <1>0, <2>2
  <2>4. LockIsInOrder'
    <3>1. \A u \in Tasks : Wants(u)' <=> u # t /\ Wants(u)
      BY <1>0, <2>2, <2>3 DEF Wants, Tasks
    <3>2. /\ pipe'.at = "enqueue" => pipe.at = "enqueue"
          /\ \A c \in CDNs : pc'[c] = "enqueue" => pc[c] = "enqueue"
      BY <2>2, <2>3
    <3> QED
      BY <2>1, <2>2, <3>1, <3>2, ReleaseKeeps
  <2>5. lock # << >> /\ Tail(lock) \in Seq(Tasks)
    BY <1>0, <2>2, TailLock DEF HoldsLock, LockIsInOrder
  <2>6. TypeOK'
    <3>1. pipe' \in Pipe /\ pc' \in [CDNs -> PC]
      BY <1>0, <1>1 DEF EnqueueFails, Pipe, PC
    <3> QED
      BY <2>1, <2>5, <3>1 DEF TypeOK, Tasks, Release
  <2>7. StopEndsTasks'
    BY <2>1, <2>2, <2>3 DEF StopEndsTasks
  <2>8. FlushesAreDue'
    <3> SUFFICES ASSUME NEW c \in CDNs PROVE Due(c)'
      BY DEF FlushesAreDue
    <3>1. Due(c)
      BY DEF FlushesAreDue
    <3>2. CASE c = t
      BY <2>1, <2>3, <3>1, <3>2 DEF Due
    <3>3. CASE c # t
      <4>1. Before(Pipeline, c, lock') => Before(Pipeline, c, lock)
        BY <1>0, <2>1, <2>5, TailLock DEF LockIsInOrder, Release
      <4>2. pipe'.at = "submit" => pipe.at = "submit"
        BY <2>2, <2>3
      <4>3. pc'[c] = pc[c]
        BY <2>3, <3>3
      <4> QED
        BY <2>1, <3>1, <4>1, <4>2, <4>3, DueElsewhere
    <3> QED
      BY <3>2, <3>3
  <2> QED
    BY <2>1, <2>4, <2>6, <2>7, <2>8 DEF OpenIsEnqueuing
<1>2. CASE DrainFails
  <2>1. /\ phase = "draining" /\ open' = {} /\ drain' = None
        /\ UNCHANGED <<wake, pc, timer, pipe, lock, io, owed, phase, submits, cut>>
        /\ buf' = [c \in CDNs |-> {}] /\ age' = [c \in CDNs |-> 0] /\ idle' = [c \in CDNs |-> 0]
    BY <1>2 DEF DrainFails, tasks, ghosts
  <2>2. pipe.at = "off" /\ \A c \in CDNs : pc[c] = "off"
    BY <2>1 DEF StopEndsTasks
  <2>3. TypeOK'
    BY <2>1 DEF TypeOK
  <2>4. LockIsInOrder'
    BY <2>1 DEF LockIsInOrder, HoldsLock, Wants
  <2>5. StopEndsTasks' /\ OpenIsEnqueuing'
    BY <2>1 DEF StopEndsTasks, OpenIsEnqueuing
  <2>6. FlushesAreDue'
    BY <2>1, <2>2 DEF FlushesAreDue, Due
  <2> QED
    BY <2>3, <2>4, <2>5, <2>6
<1> QED
  BY <1>1, <1>2

(* Whether or not enqueue() fails.                                          *)
LEMMA SoundStep ==
  ASSUME Sound, [FaultyNext]_vars
  PROVE  Sound'
<1>1. CASE [Next]_vars
  BY <1>1, TypeStep, LockStep, StopStep, DueStep, OpenStep DEF Sound
<1>2. CASE EnqueueFails \/ DrainFails
  BY <1>2, FaultStep
<1> QED
  BY <1>1, <1>2 DEF FaultyNext

(* The invariant holds in every reachable state.                            *)
LEMMA BatcherInvariance == Spec => []IInv
<1>1. Init => IInv
  BY InitInv
<1>2. IInv /\ [Next]_vars => IInv'
  BY SoundStep, OwedStep DEF IInv, Sound, FaultyNext
<1> QED
  BY <1>1, <1>2, PTL DEF Spec

(* And what a failing enqueue() keeps to, also when some fail.              *)
LEMMA FaultyInvariance == FaultySpec => []Sound
<1>1. Init => Sound
  BY InitInv DEF IInv
<1>2. Sound /\ [FaultyNext]_vars => Sound'
  BY SoundStep
<1> QED
  BY <1>1, <1>2, PTL DEF FaultySpec

(* Buffers, timers, the lock and the tasks are what the code takes them     *)
(* for, for every set of CDNs, window, cap and number of submits.           *)
THEOREM BatcherTypeCorrect == Spec => []TypeOK
<1>1. IInv => TypeOK
  BY DEF IInv, Sound
<1> QED
  BY <1>1, BatcherInvariance, PTL

(* A graceful stop drains all that was submitted, but for the batch whose   *)
(* enqueue() it cut short.                                                  *)
THEOREM BatcherLosesOnlyTheCut == Spec => []OnlyTheCutIsLost
<1>1. IInv => OnlyTheCutIsLost
  BY DEF IInv, OwedIsKept, OnlyTheCutIsLost
<1> QED
  BY <1>1, BatcherInvariance, PTL

(* A flush is of a buffer that is due, whether or not enqueue() fails.       *)
LEMMA BurstStep ==
  ASSUME Sound, [FaultyNext]_vars, NEW c \in CDNs, pc[c] # "enqueue", pc'[c] = "enqueue"
  PROVE  age[c] >= Lower(QuietWindow, MaxAge)
<1>0. pc \in [CDNs -> PC]
  BY DEF Sound, TypeOK
<1>1. PICK d \in CDNs : FlushLocked(d)
  <2>1. ~(\E d \in CDNs, u \in URLs : Submit(d, u)) /\ ~WorkerCommit /\ ~DrainDone
        /\ ~Close /\ ~Tick /\ ~(\E d \in CDNs : DrainTake(d)) /\ ~UNCHANGED vars
    BY DEF Submit, WorkerCommit, DrainDone, Close, Tick, DrainTake, tasks, vars
  <2>2. ~SubmitLocked /\ ~EnqueueDone /\ ~Stop
    BY <1>0 DEF SubmitLocked, EnqueueDone, Stop
  <2>3. \A d \in CDNs : ~Wake(d) /\ ~Check(d) /\ ~TimeUp(d)
    BY <1>0 DEF Wake, Check, TimeUp
  <2>4. ~EnqueueFails /\ ~DrainFails
    BY <1>0 DEF EnqueueFails, DrainFails, tasks
  <2> QED
    BY <2>1, <2>2, <2>3, <2>4 DEF FaultyNext, Next, Debounce
<1>2. c = d /\ pc[c] = "flush" /\ buf[c] # {}
  BY <1>0, <1>1 DEF FlushLocked
<1> QED
  BY <1>2 DEF Sound, FlushesAreDue, Due, Window

(* No debounce task flushes a buffer that has not waited for the shorter of *)
(* the two windows, whatever the pipeline did between the end of its timer  *)
(* and its turn at the lock.                                                *)
THEOREM BatcherCoalesces == Spec => CoalescesBursts
<1> DEFINE Burst == \A c \in CDNs : pc[c] # "enqueue" /\ pc'[c] = "enqueue" =>
                                      age[c] >= Lower(QuietWindow, MaxAge)
<1>1. IInv /\ [Next]_vars => [Burst]_vars
  BY BurstStep DEF IInv, FaultyNext
<1> QED
  BY <1>1, BatcherInvariance, PTL DEF Spec, CoalescesBursts

(* A step of the batcher is one of the contract, or is none to the daemon.  *)
LEMMA ContractStep ==
  ASSUME Sound, [Next]_vars
  PROVE  [Contract!Next]_Contract!vars
<1> USE DEF Contract!vars, Contract!Nowhere
<1>1. /\ TypeOK /\ LockIsInOrder /\ StopEndsTasks /\ OpenIsEnqueuing /\ pipe \in Pipe
      /\ buf \in [CDNs -> SUBSET URLs] /\ phase \in {"running", "draining", "closed"}
  BY DEF Sound, TypeOK
<1>2. ASSUME phase = "running", NEW t \in CDNs \cup {Pipeline}, HoldsLock(t),
             t = Pipeline => pipe.at # "enqueue",
             t # Pipeline => pc[t] # "enqueue"
      PROVE  open = {}
  <2>1. \A c \in CDNs : pc[c] = "enqueue" => HoldsLock(c)
    BY <1>1 DEF LockIsInOrder
  <2>2. pipe.at = "enqueue" => HoldsLock(Pipeline)
    BY <1>1 DEF LockIsInOrder
  <2> QED
    BY <1>1, <1>2, <2>1, <2>2, BatcherAssumption DEF OpenIsEnqueuing, HoldsLock
<1>3. ASSUME NEW c \in CDNs, NEW urls, Take(c, urls), urls # {}, UNCHANGED phase,
             phase \in {"running", "draining"}, phase = "running" => open = {}
      PROVE  Contract!HandOver(c, urls)
  BY <1>3 DEF Take, Contract!HandOver
<1>4. ASSUME SubmitLocked PROVE Contract!Next
  <2> DEFINE c == pipe.target[1]
             u == pipe.target[2]
  <2>1. /\ phase = "running" /\ c \in CDNs /\ u \in URLs /\ phase' = phase
    BY <1>1, <1>4 DEF SubmitLocked, StopEndsTasks, Target
  <2>2. open = {}
    BY <1>2, <1>4, <2>1 DEF SubmitLocked
  <2>3. CASE Take(c, buf[c] \cup {u})
    <3>1. Contract!HandOver(c, buf[c] \cup {u})
      BY <1>3, <2>1, <2>2, <2>3
    <3>2. Contract!Fill(c, u)
      BY <2>1, <3>1 DEF Contract!Fill
    <3> QED
      BY <2>1, <3>2 DEF Contract!Next
  <2>4. CASE buf' = [buf EXCEPT ![c] = buf[c] \cup {u}] /\ UNCHANGED open
    <3>1. Contract!Add(c, u)
      BY <2>1, <2>2, <2>4 DEF Contract!Add
    <3> QED
      BY <2>1, <3>1 DEF Contract!Next
  <2> QED
    BY <1>4, <2>3, <2>4 DEF SubmitLocked
<1>5. ASSUME NEW c \in CDNs, FlushLocked(c), ~UNCHANGED <<buf, open, phase>> PROVE Contract!Next
  <2>1. /\ phase = "running" /\ phase' = phase /\ HoldsLock(c) /\ pc[c] = "flush"
        /\ buf[c] # {} /\ Take(c, buf[c])
    BY <1>1, <1>5 DEF FlushLocked, StopEndsTasks, buffers
  <2>2. open = {}
    BY <1>2, <2>1, BatcherAssumption
  <2>3. Contract!Flush(c)
    BY <1>3, <2>1, <2>2 DEF Contract!Flush
  <2> QED
    BY <2>3 DEF Contract!Next
<1>6. ASSUME NEW c \in CDNs, DrainTake(c) PROVE Contract!Next
  <2>1. Contract!Flush(c)
    BY <1>3, <1>6 DEF DrainTake, Contract!Flush
  <2> QED
    BY <2>1 DEF Contract!Next
<1>7. CASE EnqueueDone \/ WorkerCommit \/ DrainDone
  <2>1. Contract!Stored
    BY <1>7 DEF EnqueueDone, WorkerCommit, DrainDone, Commit, buffers, Contract!Stored
  <2> QED
    BY <2>1 DEF Contract!Next
<1>8. CASE Stop
  <2>1. Contract!Stop
    BY <1>8 DEF Stop, buffers, Contract!Stop
  <2> QED
    BY <2>1 DEF Contract!Next
<1>9. CASE Close
  <2>1. buf = [c \in CDNs |-> {}]
    BY <1>1, <1>9 DEF Close
  <2>2. Contract!Close
    BY <1>9, <2>1 DEF Close, buffers, Contract!Close
  <2> QED
    BY <2>2 DEF Contract!Next
<1>10. ASSUME \/ \E c \in CDNs, u \in URLs : Submit(c, u)
              \/ \E c \in CDNs : Wake(c) \/ Check(c) \/ TimeUp(c)
              \/ Tick \/ UNCHANGED vars
       PROVE  UNCHANGED <<buf, open, phase>>
  BY <1>10 DEF Submit, Wake, Check, TimeUp, Tick, buffers, sink, vars
<1> QED
  BY <1>4, <1>5, <1>6, <1>7, <1>8, <1>9, <1>10 DEF Next, Debounce

(* The batcher is what the daemon takes it for: buffers leave whole and one *)
(* at a time for the queue, and a stop leaves none behind.                  *)
THEOREM BatcherImplementsCoalescer == Spec => ImplementsCoalescer
<1>1. Init => Contract!Init
  BY DEF Init, Contract!Init, Contract!Nowhere
<1>2. IInv /\ [Next]_vars => [Contract!Next]_Contract!vars
  BY ContractStep DEF IInv
<1> QED
  BY <1>1, <1>2, BatcherInvariance, PTL DEF Spec, ImplementsCoalescer, Contract!Spec

(* An enqueue() that fails loses its batch, and in a drain what is left; it *)
(* lets no flush be early and no buffer leave other than whole and in turn. *)
THEOREM BatcherFaultsSpareCoalescing == FaultySpec => FaultsKeepToCoalescer /\ CoalescesBursts
<1> DEFINE Burst == \A c \in CDNs : pc[c] # "enqueue" /\ pc'[c] = "enqueue" =>
                                      age[c] >= Lower(QuietWindow, MaxAge)
           Step  == Contract!Next \/ Contract!Fail \/ Contract!Die
<1>1. Init => Contract!Init
  BY DEF Init, Contract!Init, Contract!Nowhere
<1>2. ASSUME Sound, [FaultyNext]_vars
      PROVE  [Step]_Contract!vars
  <2>1. CASE [Next]_vars
    BY <1>2, <2>1, ContractStep
  <2>2. CASE EnqueueFails
    BY <2>2 DEF EnqueueFails, buffers, Contract!Next, Contract!Stored
  <2>3. CASE DrainFails
    BY <2>3 DEF DrainFails, Contract!Fail, Contract!Nowhere
  <2> QED
    BY <1>2, <2>1, <2>2, <2>3 DEF FaultyNext
<1>3. Sound /\ [FaultyNext]_vars => [Burst]_vars
  BY BurstStep
<1>4. FaultySpec => FaultsKeepToCoalescer
  BY <1>1, <1>2, FaultyInvariance, PTL DEF FaultySpec, FaultsKeepToCoalescer, Contract!FaultySpec
<1>5. FaultySpec => CoalescesBursts
  BY <1>3, FaultyInvariance, PTL DEF FaultySpec, CoalescesBursts
<1> QED
  BY <1>4, <1>5

-----------------------------------------------------------------------------
(* The age of a buffer *)

Waits(c) == pc[c] \in {"check", "flush"}

(* The debounce tasks that may enqueue before c does: those that have       *)
(* decided to flush, and while c is yet to look at its deadlines also those *)
(* that decide before c comes to it.                                        *)
Rivals(c) ==
  {d \in CDNs \ {c} :
     \/ pc[d] \in {"flush", "enqueue"} /\ (pc[c] = "flush" => Before(d, c, lock))
     \/ pc[c] = "check" /\ pc[d] = "timed"
     \/ pc[c] = "check" /\ pc[d] = "check" /\ Before(d, c, lock)}

(* The enqueues of the pipeline: one for its place at the lock, and one for *)
(* a place it may get before c asks for the lock again.                     *)
Turns(c) == (IF Before(Pipeline, c, lock) THEN 1 ELSE 0) + (IF pc[c] = "check" THEN 1 ELSE 0)

Ahead(c) == Cardinality(Rivals(c)) + Turns(c)
Spent    == IF Enqueuing THEN io ELSE 0
Others   == Cardinality(CDNs) + 1
Limit    == MaxAge + Others * EnqueueTime

(* What a task waiting for the lock has still to sit through fits.          *)
Fits(c) == age[c] + Ahead(c) * EnqueueTime <= Limit + Spent

Budget(c) ==
  /\ age[c] <= Limit
  /\ buf[c] = {} => age[c] = 0
  /\ pc[c] \in {"none", "enqueue"} => buf[c] = {}
  /\ pc[c] # "off"
  /\ pc[c] = "idle" => age[c] = 0 /\ (buf[c] # {} => wake[c])
  /\ pc[c] = "timed" => age[c] + timer[c] <= MaxAge
  /\ Waits(c) => Fits(c)

(* A debounce task that has died of its enqueue serves its CDN no more.     *)
Alive(c) == phase = "running" /\ pc[c] # "dead"

AgesFit ==
  /\ Enqueuing => io <= EnqueueTime
  /\ phase = "closed" => \A c \in CDNs : buf[c] = {}
  /\ \A c \in CDNs : Alive(c) => Budget(c)

(* Products, which the provers need help with.                              *)
LEMMA Products ==
  ASSUME NEW a \in Nat, NEW b \in Nat, NEW e \in Nat
  PROVE  /\ a * e \in Nat
         /\ a <= b => a * e <= b * e
         /\ a + 1 <= b => a * e + e <= b * e
<1>1. a * e \in Nat /\ b * e \in Nat
  OBVIOUS
<1>2. ASSUME a <= b PROVE a * e <= b * e
  BY <1>2
<1>3. (a + 1) * e = a * e + e
  OBVIOUS
<1>4. ASSUME a + 1 <= b PROVE (a + 1) * e <= b * e
  BY <1>4
<1> QED
  BY <1>1, <1>2, <1>3, <1>4

(* At most all other tasks, and the pipeline twice.                         *)
LEMMA AheadBound ==
  ASSUME NEW c \in CDNs, NEW R \in SUBSET (CDNs \ {c}), NEW k \in 0..2
  PROVE  /\ IsFiniteSet(R) /\ Cardinality(R) \in Nat
         /\ Others \in Nat /\ Cardinality(R) + k <= Others
<1>1. IsFiniteSet(CDNs) /\ Cardinality(CDNs) \in Nat
  BY BatcherAssumption, FS_CardinalityType
<1>2. /\ IsFiniteSet(CDNs \ {c})
      /\ Cardinality(CDNs \ {c}) = Cardinality(CDNs) - 1
  BY <1>1, FS_RemoveElement
<1>3. IsFiniteSet(R) /\ Cardinality(R) <= Cardinality(CDNs) - 1
  BY <1>2, FS_Subset
<1>4. Cardinality(R) \in Nat
  BY <1>3, FS_CardinalityType
<1> QED
  BY <1>1, <1>3, <1>4 DEF Others

(* The bound is a number.                                                   *)
LEMMA LimitType == Limit \in Nat /\ Others \in Nat
<1>1. Others \in Nat /\ EnqueueTime \in Nat /\ MaxAge \in Nat
  BY BatcherAssumption, FS_CardinalityType DEF Others
<1>2. Others * EnqueueTime \in Nat
  BY <1>1, Products
<1> QED
  BY <1>1, <1>2 DEF Limit

(* So it is now and after a step.                                           *)
LEMMA AheadType ==
  ASSUME NEW c \in CDNs
  PROVE  /\ Rivals(c) \in SUBSET (CDNs \ {c}) /\ Rivals(c)' \in SUBSET (CDNs \ {c})
         /\ Turns(c) \in 0..2 /\ Turns(c)' \in 0..2
         /\ Ahead(c) \in Nat /\ Ahead(c)' \in Nat
         /\ Others \in Nat /\ Ahead(c)' <= Others
<1>1. Rivals(c) \in SUBSET (CDNs \ {c}) /\ Rivals(c)' \in SUBSET (CDNs \ {c})
  BY DEF Rivals
<1>2. Turns(c) \in 0..2 /\ Turns(c)' \in 0..2
  BY DEF Turns
<1>3. /\ Cardinality(Rivals(c)) \in Nat /\ Cardinality(Rivals(c)') \in Nat
      /\ Others \in Nat /\ Cardinality(Rivals(c)') + Turns(c)' <= Others
  BY <1>1, <1>2, AheadBound
<1> QED
  BY <1>1, <1>2, <1>3 DEF Ahead

(* Who joins with a buffer within its cap has time for all of them.         *)
LEMMA FreshFits ==
  ASSUME TypeOK', NEW c \in CDNs, age'[c] <= MaxAge
  PROVE  Fits(c)' /\ age'[c] <= Limit
<1>1. /\ Ahead(c)' \in Nat /\ Others \in Nat /\ Ahead(c)' <= Others
      /\ EnqueueTime \in Nat /\ MaxAge \in Nat
  BY AheadType, BatcherAssumption
<1>2. /\ Ahead(c)' * EnqueueTime <= Others * EnqueueTime
      /\ Others * EnqueueTime \in Nat /\ Ahead(c)' * EnqueueTime \in Nat
  BY <1>1, Products
<1>3. age'[c] \in Nat /\ Spent' \in Nat
  BY DEF TypeOK, Spent
<1> QED
  BY <1>1, <1>2, <1>3 DEF Fits, Limit

(* Nothing more gets ahead of it.                                           *)
LEMMA StillFits ==
  ASSUME TypeOK, TypeOK', NEW c \in CDNs, Fits(c), age'[c] <= age[c],
         Rivals(c)' \subseteq Rivals(c), Turns(c)' <= Turns(c), Spent <= Spent'
  PROVE  Fits(c)'
<1>1. /\ Ahead(c)' \in Nat /\ Ahead(c) \in Nat
      /\ EnqueueTime \in Nat /\ Limit \in Nat
  BY AheadType, BatcherAssumption, Products DEF Limit
<1>2. Cardinality(Rivals(c)') <= Cardinality(Rivals(c))
      /\ Cardinality(Rivals(c)') \in Nat /\ Cardinality(Rivals(c)) \in Nat
  BY AheadType, AheadBound, FS_Subset
<1>3. Ahead(c)' <= Ahead(c)
  BY <1>2, AheadType DEF Ahead
<1>4. /\ Ahead(c)' * EnqueueTime <= Ahead(c) * EnqueueTime
      /\ Ahead(c)' * EnqueueTime \in Nat /\ Ahead(c) * EnqueueTime \in Nat
  BY <1>1, <1>3, Products
<1>5. age[c] \in Nat /\ age'[c] \in Nat /\ Spent \in Nat /\ Spent' \in Nat
  BY DEF TypeOK, Spent
<1> QED
  BY <1>1, <1>4, <1>5 DEF Fits, Limit

(* An enqueue ahead of it is done with.                                     *)
LEMMA TurnFits ==
  ASSUME TypeOK, TypeOK', NEW c \in CDNs, Fits(c), age'[c] = age[c],
         Ahead(c)' + 1 <= Ahead(c), Spent <= EnqueueTime
  PROVE  Fits(c)'
<1>1. /\ Ahead(c)' \in Nat /\ Ahead(c) \in Nat
      /\ EnqueueTime \in Nat /\ Limit \in Nat
  BY AheadType, BatcherAssumption, Products DEF Limit
<1>2. /\ Ahead(c)' * EnqueueTime + EnqueueTime <= Ahead(c) * EnqueueTime
      /\ Ahead(c)' * EnqueueTime \in Nat /\ Ahead(c) * EnqueueTime \in Nat
  BY <1>1, Products
<1>3. age[c] \in Nat /\ Spent \in Nat /\ Spent' \in Nat
  BY DEF TypeOK, Spent
<1> QED
  BY <1>1, <1>2, <1>3 DEF Fits, Limit

(* Only the holder of the lock enqueues, ahead of every task that waits.    *)
LEMMA EnqueuerIsAhead ==
  ASSUME TypeOK, LockIsInOrder, StopEndsTasks, phase = "running", Enqueuing
  PROVE  /\ lock # << >> /\ Head(lock) \in Tasks
         /\ \/ Head(lock) = Pipeline /\ pipe.at = "enqueue"
            \/ Head(lock) \in CDNs /\ pc[Head(lock)] = "enqueue"
         /\ \A c \in CDNs : pc[c] = "enqueue" => c = Head(lock)
         /\ pipe.at = "enqueue" => Head(lock) = Pipeline
         /\ \A c \in CDNs : Waits(c) => Before(Head(lock), c, lock)
         /\ \A c \in CDNs : Waits(c) /\ Head(lock) # Pipeline => Head(lock) \in Rivals(c)
<1>1. pipe.at = "enqueue" \/ \E c \in CDNs : pc[c] = "enqueue"
  BY DEF Enqueuing, StopEndsTasks
<1>2. /\ lock # << >> /\ Head(lock) \in Tasks
      /\ \/ Head(lock) = Pipeline /\ pipe.at = "enqueue"
         \/ Head(lock) \in CDNs /\ pc[Head(lock)] = "enqueue"
      /\ \A c \in CDNs : pc[c] = "enqueue" => c = Head(lock)
      /\ pipe.at = "enqueue" => Head(lock) = Pipeline
  BY <1>1 DEF LockIsInOrder, HoldsLock, Tasks
<1>3. ASSUME NEW c \in CDNs, Waits(c)
      PROVE  /\ Before(Head(lock), c, lock)
             /\ Head(lock) # Pipeline => Head(lock) \in Rivals(c)
  <2>1. In(c, lock) /\ c # Head(lock)
    BY <1>2, <1>3, BatcherAssumption DEF LockIsInOrder, Wants, Waits, Tasks
  <2>2. lock \in Seq(Tasks) /\ Once(lock)
    BY DEF TypeOK, Tasks, LockIsInOrder
  <2>3. Before(Head(lock), c, lock)
    BY <1>2, <2>1, <2>2, TailLock
  <2> QED
    BY <1>2, <2>1, <2>3 DEF Rivals, Tasks
<1> QED
  BY <1>2, <1>3

(* Whoever waits for the lock while an enqueue runs has a turn ahead of it.  *)
LEMMA SomebodyAhead ==
  ASSUME TypeOK, LockIsInOrder, StopEndsTasks, phase = "running", Enqueuing,
         NEW c \in CDNs, Waits(c)
  PROVE  Ahead(c) \in Nat /\ Ahead(c) >= 1
<1>1. /\ Before(Head(lock), c, lock)
      /\ Head(lock) # Pipeline => Head(lock) \in Rivals(c)
  BY EnqueuerIsAhead
<1>2. IsFiniteSet(Rivals(c)) /\ Cardinality(Rivals(c)) \in Nat /\ Turns(c) \in Nat
  BY AheadType, AheadBound
<1>3. CASE Head(lock) = Pipeline
  <2>1. Turns(c) >= 1
    BY <1>1, <1>3 DEF Turns
  <2> QED
    BY <1>2, <2>1 DEF Ahead
<1>4. CASE Head(lock) # Pipeline
  <2>1. Cardinality(Rivals(c)) # 0
    BY <1>1, <1>2, <1>4, FS_EmptySet
  <2> QED
    BY <1>2, <2>1 DEF Ahead
<1> QED
  BY <1>3, <1>4

(* A request for the lock and a release let nobody overtake.                *)
LEMMA NobodyOvertakes ==
  ASSUME TypeOK, LockIsInOrder, NEW c \in CDNs, In(c, lock)
  PROVE  /\ \A t \in Tasks : /\ t # c /\ ~Wants(t) /\ Request(t)
              => /\ \A u : Before(u, c, lock') => Before(u, c, lock)
                 /\ ~Before(t, c, lock')
         /\ Head(lock) # c /\ Release =>
               /\ \A u : Before(u, c, lock') => Before(u, c, lock)
               /\ ~Before(Head(lock), c, lock')
               /\ Before(Head(lock), c, lock)
         /\ Head(lock) # c /\ Head(lock) \in Tasks /\ lock' = Append(Tail(lock), Head(lock)) =>
               /\ \A u : Before(u, c, lock') => Before(u, c, lock)
               /\ ~Before(Head(lock), c, lock')
               /\ Before(Head(lock), c, lock)
<1>1. lock \in Seq(Tasks) /\ Once(lock) /\ c \in Tasks
  BY DEF TypeOK, Tasks, LockIsInOrder
<1>2. lock # << >>
  BY <1>1 DEF In
<1>3. \A t, u, s : Before(t, u, s) => In(t, s)
  BY DEF Before, In
<1>4. ASSUME NEW t \in Tasks, t # c, ~Wants(t), Request(t)
      PROVE  /\ \A u : Before(u, c, lock') => Before(u, c, lock)
             /\ ~Before(t, c, lock')
  <2>1. ~In(t, lock) /\ lock' = Append(lock, t)
    BY <1>4 DEF LockIsInOrder, Request
  <2> QED
    BY <1>1, <1>3, <1>4, <2>1, AppendLock
<1>5. /\ \A u : Before(u, c, Tail(lock)) => Before(u, c, lock)
      /\ Tail(lock) \in Seq(Tasks) /\ Once(Tail(lock)) /\ ~In(Head(lock), Tail(lock))
      /\ Head(lock) # c => Before(Head(lock), c, lock)
  BY <1>1, <1>2, TailLock
<1>6. ASSUME Head(lock) # c, Release
      PROVE  /\ \A u : Before(u, c, lock') => Before(u, c, lock)
             /\ ~Before(Head(lock), c, lock')
             /\ Before(Head(lock), c, lock)
  BY <1>3, <1>5, <1>6 DEF Release
<1>7. ASSUME Head(lock) # c, Head(lock) \in Tasks, lock' = Append(Tail(lock), Head(lock))
      PROVE  /\ \A u : Before(u, c, lock') => Before(u, c, lock)
             /\ ~Before(Head(lock), c, lock')
             /\ Before(Head(lock), c, lock)
  <2>1. \A u : Before(u, c, lock') => Before(u, c, Tail(lock))
    BY <1>5, <1>7, AppendLock
  <2> QED
    BY <1>3, <1>5, <1>7, <2>1
<1> QED
  BY <1>4, <1>6, <1>7

(* A task that goes on waiting while another, which was ahead of it before  *)
(* or is not ahead of it after, goes on.                                    *)
LEMMA WaiterKeeps ==
  ASSUME TypeOK, TypeOK', NEW c \in CDNs, Waits(c), pc'[c] = pc[c], Fits(c),
         age'[c] <= age[c], Spent <= Spent',
         \A u : Before(u, c, lock') => Before(u, c, lock),
         \A d \in CDNs \ {c} : pc'[d] = pc[d] \/ d \in Rivals(c) \/ d \notin Rivals(c)'
  PROVE  Fits(c)'
<1>1. Rivals(c)' \subseteq Rivals(c)
  BY DEF Rivals
<1>2. Turns(c)' <= Turns(c)
  BY DEF Turns
<1> QED
  BY <1>1, <1>2, StillFits

(* A request for the lock, by the pipeline or by a debounce task.           *)
LEMMA AgesRequest ==
  ASSUME TypeOK, TypeOK', LockIsInOrder, StopEndsTasks, AgesFit,
         (\E c \in CDNs, u \in URLs : Submit(c, u)) \/ \E c \in CDNs : Wake(c) \/ TimeUp(c)
  PROVE  AgesFit'
<1> USE BatcherAssumption DEF Alive
<1>0. /\ pc \in [CDNs -> PC] /\ age \in [CDNs -> Nat] /\ timer \in [CDNs -> Nat]
      /\ pipe \in Pipe /\ wake \in [CDNs -> BOOLEAN]
  BY DEF TypeOK
<1>1. UNCHANGED <<buf, age, io, phase, drain>>
  BY DEF Submit, Wake, TimeUp, buffers, sink
<1>2. (pipe'.at = "enqueue" <=> pipe.at = "enqueue")
      /\ \A c \in CDNs : pc'[c] = "enqueue" <=> pc[c] = "enqueue"
  BY <1>0 DEF Submit, Wake, TimeUp
<1>3. (Enqueuing' <=> Enqueuing) /\ Spent' = Spent /\ Spent \in Nat
  BY <1>1, <1>2 DEF Enqueuing, Spent, TypeOK
<1>a. ASSUME NEW c \in CDNs, Alive(c)' PROVE Alive(c) /\ Budget(c)
  <2>1. phase = "running" /\ pc[c] # "dead"
    BY <1>0, <1>1, <1>a DEF Submit, Wake, TimeUp
  <2> QED
    BY <2>1 DEF AgesFit
<1>4. ASSUME NEW c \in CDNs, Budget(c), Waits(c), pc'[c] = pc[c],
             NEW t \in Tasks, t # c, ~Wants(t), Request(t),
             \A d \in CDNs \ {c} : pc'[d] = pc[d] \/ d \in Rivals(c) \/ d \notin Rivals(c)'
      PROVE  Fits(c)'
  <2>1. In(c, lock) /\ c \in Tasks
    BY <1>4 DEF LockIsInOrder, Wants, Waits, Tasks
  <2>2. \A u : Before(u, c, lock') => Before(u, c, lock)
    BY <1>4, <2>1, NobodyOvertakes
  <2> QED
    BY <1>0, <1>1, <1>3, <1>4, <2>2, WaiterKeeps DEF Budget
<1>5. ASSUME NEW b \in CDNs, NEW u \in URLs, Submit(b, u), NEW c \in CDNs, Alive(c)' PROVE Budget(c)'
  <2>1. /\ UNCHANGED <<pc, timer, wake>> /\ Request(Pipeline)
        /\ Pipeline \in Tasks /\ ~Wants(Pipeline) /\ Pipeline # c
    BY <1>5 DEF Submit, Wants, Tasks
  <2>2. Waits(c) => Fits(c)'
    BY <1>4, <1>5, <1>a, <2>1
  <2> QED
    BY <1>1, <1>5, <1>a, <2>1, <2>2 DEF Budget, Waits, Limit, Others
<1>6. ASSUME NEW b \in CDNs, Wake(b) \/ TimeUp(b), NEW c \in CDNs, Alive(c)' PROVE Budget(c)'
  <2>1. /\ pc[b] \in {"idle", "timed"} /\ ~Wants(b) /\ Request(b) /\ b \in Tasks
        /\ pc'[b] \in {"check", "flush"} /\ (pc'[b] = "flush" => pc[b] = "timed")
        /\ \A d \in CDNs \ {b} : /\ pc'[d] = pc[d] /\ wake'[d] = wake[d]
                                /\ timer'[d] = timer[d]
    BY <1>0, <1>6 DEF Wake, TimeUp, Wants, Tasks
  <2>2. CASE c = b
    <3>1. age'[c] <= MaxAge
      BY <1>0, <1>1, <1>6, <1>a, <2>1, <2>2 DEF Budget
    <3> QED
      BY <1>1, <1>6, <1>a, <2>1, <2>2, <3>1, FreshFits DEF Budget, Waits
  <2>3. CASE c # b
    <3>1. ASSUME Waits(c) PROVE Fits(c)'
      <4>1. In(c, lock) /\ c \in Tasks
        BY <3>1 DEF LockIsInOrder, Wants, Waits, Tasks
      <4>2. ~Before(b, c, lock')
        BY <2>1, <2>3, <4>1, NobodyOvertakes
      <4>3. b \in Rivals(c) \/ b \notin Rivals(c)'
        BY <2>1, <2>3, <3>1, <4>2 DEF Rivals, Waits
      <4> QED
        BY <1>4, <1>6, <1>a, <2>1, <2>3, <3>1, <4>3
    <3> QED
      BY <1>1, <1>6, <1>a, <2>1, <2>3, <3>1 DEF Budget, Waits, Limit, Others
  <2> QED
    BY <2>2, <2>3
<1> QED
  BY <1>1, <1>3, <1>5, <1>6 DEF AgesFit

(* A step of a debounce task that holds the lock.                           *)
LEMMA AgesDebounce ==
  ASSUME TypeOK, TypeOK', LockIsInOrder, StopEndsTasks, AgesFit,
         NEW b \in CDNs, Check(b) \/ FlushLocked(b)
  PROVE  AgesFit'
<1> USE BatcherAssumption DEF Alive
<1>0. /\ pc \in [CDNs -> PC] /\ age \in [CDNs -> Nat] /\ timer \in [CDNs -> Nat]
      /\ idle \in [CDNs -> Nat] /\ buf \in [CDNs -> SUBSET URLs]
  BY DEF TypeOK
<1>1. /\ pc[b] \in {"check", "flush"} /\ HoldsLock(b) /\ Head(lock) = b /\ lock # << >>
      /\ b \in Tasks /\ b # Pipeline
      /\ UNCHANGED <<pipe, phase, drain, wake>>
      /\ \A d \in CDNs \ {b} : pc'[d] = pc[d] /\ timer'[d] = timer[d]
      /\ pc'[b] \in {"idle", "timed", "flush", "enqueue"}
  BY <1>0 DEF Check, FlushLocked, HoldsLock, Tasks, buffers
<1>2. ~Enqueuing /\ phase = "running" /\ Spent = 0 /\ Spent' \in Nat
  <2>1. phase = "running" /\ drain = None
    BY <1>1 DEF StopEndsTasks
  <2>2. \A c \in CDNs : pc[c] # "enqueue"
    BY <1>1 DEF LockIsInOrder, HoldsLock
  <2> QED
    BY <1>1, <2>1, <2>2 DEF Enqueuing, LockIsInOrder, HoldsLock, Spent, TypeOK
<1>a. Budget(b) /\ \A c \in CDNs \ {b} : Alive(c)' => Budget(c)
  BY <1>1, <1>2 DEF AgesFit
<1>3. /\ \A c \in CDNs \ {b} : age'[c] = age[c] /\ buf'[c] = buf[c]
      /\ age'[b] <= age[b] /\ (buf'[b] = {} => age'[b] = 0)
      /\ pc'[b] = "enqueue" => buf'[b] = {} /\ io' = 0
  BY <1>0, <1>1, <1>a DEF Check, FlushLocked, Take, buffers, Budget
<1>4. Enqueuing' => io' <= EnqueueTime
  BY <1>1, <1>2, <1>3 DEF Enqueuing
<1>5. ASSUME NEW c \in CDNs \ {b}, Alive(c)' PROVE Budget(c)'
  <2>1. ASSUME Waits(c) PROVE Fits(c)'
    <3>1. In(c, lock) /\ c \in Tasks /\ In(b, lock)
      BY <1>1, <2>1 DEF LockIsInOrder, Wants, Waits, Tasks
    <3>2. \/ UNCHANGED lock /\ pc[b] = "flush" /\ pc'[b] = "enqueue"
          \/ /\ \A u : Before(u, c, lock') => Before(u, c, lock)
             /\ Before(b, c, lock) /\ ~Before(b, c, lock')
             /\ (pc[b] = "check" /\ pc'[b] \in {"idle", "flush", "timed"}) \/ pc'[b] = "idle"
      BY <1>0, <1>1, <3>1, NobodyOvertakes DEF Check, FlushLocked
    <3>3. b \in Rivals(c) \/ b \notin Rivals(c)'
      BY <1>1, <2>1, <3>2 DEF Rivals, Waits
    <3>4. Fits(c)
      BY <1>5, <1>a, <2>1 DEF Budget
    <3>5. pc'[c] = pc[c] /\ age'[c] <= age[c] /\ Spent <= Spent'
      BY <1>0, <1>1, <1>2, <1>3, <1>5
    <3>6. \A u : Before(u, c, lock') => Before(u, c, lock)
      BY <3>2
    <3>7. \A d \in CDNs \ {c} : pc'[d] = pc[d] \/ d \in Rivals(c) \/ d \notin Rivals(c)'
      BY <1>1, <3>3
    <3> QED
      BY <2>1, <3>4, <3>5, <3>6, <3>7, WaiterKeeps
  <2> QED
    BY <1>1, <1>3, <1>5, <1>a, <2>1 DEF Budget, Waits, Limit, Others
<1>6. Budget(b)'
  <2>1. /\ age'[b] <= Limit
        /\ buf'[b] = {} => age'[b] = 0
        /\ pc'[b] = "enqueue" => buf'[b] = {}
    <3>1. age'[b] \in Nat /\ age[b] \in Nat /\ age[b] <= Limit /\ Limit \in Nat
      BY <1>a, LimitType DEF Budget, TypeOK
    <3> QED
      BY <1>1, <1>3, <3>1
  <2>2. pc'[b] = "idle" => age'[b] = 0 /\ buf'[b] = {}
    BY <1>0, <1>1, <1>3, <1>a DEF Check, FlushLocked, Budget, buffers
  <2>3. pc'[b] = "timed" => age'[b] + timer'[b] <= MaxAge
    <3> SUFFICES ASSUME pc'[b] = "timed" PROVE age'[b] + timer'[b] <= MaxAge
      OBVIOUS
    <3>1. timer'[b] = Wait(b) /\ age'[b] = age[b]
      BY <1>0, <1>1 DEF Check, FlushLocked, buffers
    <3>2. Wait(b) <= MaxAge - age[b] /\ Wait(b) \in Int
      BY <1>0 DEF Wait, Lower
    <3> QED
      BY <1>0, <3>1, <3>2
  <2>4. ASSUME pc'[b] = "flush" PROVE Fits(b)'
    <3>1. pc[b] = "check" /\ age' = age
      BY <1>0, <1>1, <2>4 DEF Check, FlushLocked, buffers
    <3>2. Rivals(b)' \subseteq Rivals(b)
      BY <1>1, <2>4, <3>1 DEF Rivals
    <3>3. Turns(b)' <= Turns(b)
      BY <2>4, <3>1 DEF Turns
    <3>4. Fits(b) /\ Spent <= Spent' /\ age'[b] <= age[b]
      BY <1>0, <1>2, <1>a, <3>1 DEF Budget, Waits
    <3> QED
      BY <3>2, <3>3, <3>4, StillFits
  <2> QED
    BY <1>1, <2>1, <2>2, <2>3, <2>4 DEF Budget, Waits, Limit, Others
<1> QED
  BY <1>2, <1>1, <1>4, <1>5, <1>6 DEF AgesFit

(* submit puts a target into a buffer, or takes the full buffer out.        *)
LEMMA AgesSubmit ==
  ASSUME TypeOK, TypeOK', LockIsInOrder, StopEndsTasks, AgesFit, SubmitLocked
  PROVE  AgesFit'
<1> USE BatcherAssumption DEF Alive
<1>0. /\ pc \in [CDNs -> PC] /\ age \in [CDNs -> Nat] /\ timer \in [CDNs -> Nat]
      /\ buf \in [CDNs -> SUBSET URLs] /\ wake \in [CDNs -> BOOLEAN] /\ pipe \in Pipe
      /\ pipe.target[1] \in CDNs
  BY DEF TypeOK, SubmitLocked, StopEndsTasks, Target
<1>b. PICK b \in CDNs : b = pipe.target[1]
  BY <1>0
<1>1. /\ HoldsLock(Pipeline) /\ Head(lock) = Pipeline /\ pipe.at = "submit"
      /\ UNCHANGED <<timer, phase, drain>>
      /\ pc'[b] = IF pc[b] = "none" THEN "idle" ELSE pc[b]
      /\ wake'[b] = TRUE
      /\ \A d \in CDNs \ {b} : pc'[d] = pc[d] /\ wake'[d] = wake[d]
  BY <1>0, <1>b DEF SubmitLocked, HoldsLock
<1>2. ~Enqueuing /\ phase = "running" /\ Spent = 0 /\ Spent' \in Nat
      /\ \A c \in CDNs : pc[c] # "enqueue" /\ pc'[c] # "enqueue"
  <2>1. phase = "running" /\ drain = None
    BY <1>1 DEF StopEndsTasks
  <2>2. \A c \in CDNs : pc[c] # "enqueue"
    BY <1>1 DEF LockIsInOrder, HoldsLock
  <2>3. \A c \in CDNs : pc'[c] # "enqueue"
    BY <1>1, <2>2
  <2> QED
    BY <1>1, <2>1, <2>2, <2>3 DEF Enqueuing, Spent, TypeOK
<1>a. \A c \in CDNs : Alive(c)' => Budget(c)
  BY <1>0, <1>1, <1>2 DEF AgesFit
<1>3. /\ \A c \in CDNs \ {b} : age'[c] = age[c] /\ buf'[c] = buf[c]
      /\ age'[b] <= age[b] /\ (buf'[b] = {} => age'[b] = 0)
      /\ age[b] = 0 => age'[b] = 0
      /\ buf[b] = {} => age'[b] = 0
      /\ \/ io' = 0 /\ UNCHANGED lock
         \/ pipe'.at # "enqueue" /\ Release
  BY <1>0, <1>1, <1>b DEF SubmitLocked, Take, Ready
<1>4. Enqueuing' => io' <= EnqueueTime
  BY <1>1, <1>2, <1>3 DEF Enqueuing, StopEndsTasks
<1>5. ASSUME NEW c \in CDNs, Budget(c), Waits(c) PROVE Fits(c)'
  <2>1. In(c, lock) /\ c \in Tasks /\ c # Pipeline
    BY <1>5 DEF LockIsInOrder, Wants, Waits, Tasks
  <2>2. \A u : Before(u, c, lock') => Before(u, c, lock)
    BY <1>1, <1>3, <2>1, NobodyOvertakes
  <2>3. \A d \in CDNs \ {c} : pc'[d] = pc[d] \/ d \notin Rivals(c)'
    BY <1>1 DEF Rivals
  <2>4. pc'[c] = pc[c] /\ age'[c] <= age[c]
    BY <1>0, <1>1, <1>3, <1>5 DEF Waits
  <2> QED
    BY <1>2, <1>5, <2>2, <2>3, <2>4, WaiterKeeps DEF Budget
<1>6. ASSUME NEW c \in CDNs \ {b}, Alive(c)' PROVE Budget(c)'
  BY <1>1, <1>3, <1>5, <1>6, <1>a DEF Budget, Waits, Limit, Others
<1>7. ASSUME Alive(b)' PROVE Budget(b)'
  <2>0. Budget(b)
    BY <1>7, <1>a
  <2>1. age'[b] <= Limit
    <3>1. age'[b] \in Nat /\ age[b] \in Nat /\ age[b] <= Limit /\ Limit \in Nat
      BY <1>0, <2>0, LimitType DEF Budget, TypeOK
    <3> QED
      BY <1>3, <3>1
  <2>2. pc'[b] # "none" /\ (pc'[b] = "idle" => age'[b] = 0)
    BY <1>0, <1>1, <1>3, <2>0 DEF Budget
  <2>3. pc'[b] = "timed" => age'[b] + timer'[b] <= MaxAge
    BY <1>0, <1>1, <1>3, <2>0 DEF Budget, TypeOK
  <2> QED
    <3>1. pc'[b] # "off" /\ pc'[b] # "dead" /\ pc'[b] # "enqueue"
      BY <1>0, <1>1, <1>2, <1>7, <2>0 DEF Budget
    <3>2. Waits(b)' => Fits(b)'
      BY <1>0, <1>1, <1>5, <2>0 DEF Waits
    <3> QED
      BY <1>0, <1>1, <1>3, <2>1, <2>2, <2>3, <3>1, <3>2 DEF Budget, Limit, Others
<1> QED
  BY <1>1, <1>2, <1>4, <1>6, <1>7 DEF AgesFit

(* The end of an enqueue makes up for the time it has taken, also when it   *)
(* fails.                                                                   *)
LEMMA AgesEnqueued ==
  ASSUME TypeOK, TypeOK', LockIsInOrder, StopEndsTasks, AgesFit, EnqueueDone \/ EnqueueFails
  PROVE  AgesFit'
<1> USE BatcherAssumption DEF Alive
<1>0. /\ pc \in [CDNs -> PC] /\ phase = "running" /\ phase' = "running" /\ Enqueuing
      /\ UNCHANGED <<buf, age, wake, timer, drain>> /\ Release
  BY DEF TypeOK, EnqueueDone, EnqueueFails, buffers
<1>1. PICK h : h = Head(lock)
  OBVIOUS
<1>2. /\ \/ h = Pipeline /\ pipe.at = "enqueue" /\ pipe'.at # "enqueue" /\ pc' = pc
            /\ \A c \in CDNs : pc[c] # "enqueue"
         \/ /\ h \in CDNs /\ pc[h] = "enqueue" /\ pipe' = pipe /\ pc'[h] \in {"idle", "dead"}
            /\ pipe.at # "enqueue"
            /\ \A c \in CDNs \ {h} : pc'[c] = pc[c] /\ pc[c] # "enqueue"
      /\ \A c \in CDNs : Waits(c) => Before(h, c, lock)
  BY <1>0, <1>1, EnqueuerIsAhead DEF EnqueueDone, EnqueueFails, Ready
<1>3. ~Enqueuing' /\ Spent' = 0 /\ Spent <= EnqueueTime
  BY <1>0, <1>2 DEF Enqueuing, Spent, StopEndsTasks, AgesFit
<1>4. ASSUME NEW c \in CDNs, Budget(c), Waits(c), c # h PROVE Fits(c)'
  <2>1. In(c, lock) /\ c \in Tasks
    BY <1>4 DEF LockIsInOrder, Wants, Waits, Tasks
  <2>2. /\ \A u : Before(u, c, lock') => Before(u, c, lock)
        /\ ~Before(h, c, lock') /\ Before(h, c, lock) /\ pc'[c] = pc[c]
    BY <1>0, <1>1, <1>2, <1>4, <2>1, NobodyOvertakes
  <2>3. /\ Rivals(c)' \subseteq Rivals(c) \ {h}
        /\ h # Pipeline => h \in Rivals(c)
    BY <1>2, <1>4, <2>2 DEF Rivals
  <2>4. /\ Turns(c)' <= Turns(c)
        /\ h = Pipeline => Turns(c)' + 1 <= Turns(c)
    BY <2>2 DEF Turns
  <2>5. /\ IsFiniteSet(Rivals(c)) /\ IsFiniteSet(Rivals(c) \ {h})
        /\ Cardinality(Rivals(c) \ {h}) =
             IF h \in Rivals(c) THEN Cardinality(Rivals(c)) - 1 ELSE Cardinality(Rivals(c))
    BY AheadType, AheadBound, FS_RemoveElement
  <2>6. Cardinality(Rivals(c)') <= Cardinality(Rivals(c) \ {h})
    BY <2>3, <2>5, FS_Subset
  <2>7. Cardinality(Rivals(c)') \in Nat /\ Cardinality(Rivals(c)) \in Nat
    BY AheadType, AheadBound
  <2>8. Ahead(c)' + 1 <= Ahead(c)
    BY <1>2, <2>3, <2>4, <2>5, <2>6, <2>7, AheadType DEF Ahead
  <2> QED
    BY <1>0, <1>3, <1>4, <2>8, TurnFits DEF Budget
<1>5. ASSUME NEW c \in CDNs, Alive(c)', c # h PROVE Budget(c)'
  <2>1. pc'[c] = pc[c]
    BY <1>2, <1>5
  <2>2. Budget(c)
    BY <1>0, <1>5, <2>1 DEF AgesFit
  <2> QED
    BY <1>0, <1>4, <1>5, <2>1, <2>2 DEF Budget, Waits, Limit, Others
<1>6. ASSUME h \in CDNs, Alive(h)' PROVE Budget(h)'
  <2>1. pc[h] = "enqueue" /\ pc'[h] = "idle"
    BY <1>0, <1>2, <1>6
  <2> QED
    BY <1>0, <1>6, <2>1 DEF AgesFit, Budget, Waits, Limit, Others
<1> QED
  BY <1>0, <1>3, <1>5, <1>6 DEF AgesFit

(* Time passes only while every task ahead waits for an enqueue.            *)
LEMMA AgesTick ==
  ASSUME TypeOK, TypeOK', LockIsInOrder, StopEndsTasks, AgesFit, Tick
  PROVE  AgesFit'
<1> USE BatcherAssumption DEF Alive
<1>0. /\ pc \in [CDNs -> PC] /\ age \in [CDNs -> Nat] /\ timer \in [CDNs -> Nat] /\ io \in Nat
      /\ wake \in [CDNs -> BOOLEAN]
  BY DEF TypeOK
<1>1. /\ UNCHANGED <<buf, wake, pc, pipe, lock, phase, drain>> /\ Quiescent
      /\ \A c \in CDNs : age'[c] = IF buf[c] = {} THEN 0 ELSE age[c] + 1
      /\ \A c \in CDNs : timer'[c] = IF timer[c] > 0 THEN timer[c] - 1 ELSE 0
      /\ Enqueuing => io < EnqueueTime
      /\ io' = IF Enqueuing THEN io + 1 ELSE io
      /\ phase # "running" => phase = "closed"
  BY DEF Tick, Later, TypeOK
<1>2. (Enqueuing' <=> Enqueuing) /\ (Enqueuing' => io' <= EnqueueTime)
  BY <1>0, <1>1 DEF Enqueuing
<1>3. ASSUME NEW c \in CDNs, Alive(c)', buf[c] = {} PROVE Budget(c)'
  <2>1. age'[c] = 0 /\ age'[c] <= MaxAge
    BY <1>1, <1>3
  <2>2. Fits(c)' /\ age'[c] <= Limit
    BY <2>1, FreshFits
  <2>3. pc[c] = "timed" => age'[c] + timer'[c] <= MaxAge
    <3>1. pc[c] = "timed" => age[c] + timer[c] <= MaxAge
      BY <1>1, <1>3 DEF AgesFit, Budget
    <3> QED
      BY <1>0, <1>1, <2>1, <3>1
  <2> QED
    BY <1>1, <1>3, <2>1, <2>2, <2>3 DEF AgesFit, Budget, Waits, Limit, Others
<1>4. ASSUME NEW c \in CDNs, Alive(c)', buf[c] # {} PROVE Budget(c)'
  <2>a. phase = "running" /\ pc[c] # "dead" /\ Budget(c)
    BY <1>1, <1>4 DEF AgesFit
  <2>1. phase = "running" /\ ~Runnable(c) /\ pc[c] \notin {"none", "enqueue", "off", "dead", "idle"}
    BY <1>0, <1>1, <1>4, <2>a DEF Quiescent, Budget, Runnable
  <2>2. CASE pc[c] = "timed"
    <3>1. timer[c] > 0 /\ age[c] + timer[c] <= MaxAge
      BY <1>0, <2>1, <2>2, <2>a DEF Budget, Runnable
    <3>2. age'[c] + timer'[c] <= MaxAge /\ age'[c] <= MaxAge /\ pc'[c] = "timed" /\ buf'[c] # {}
      BY <1>0, <1>1, <1>4, <2>2, <3>1
    <3> QED
      BY <3>2, FreshFits DEF Budget, Waits, Limit, Others
  <2>3. CASE Waits(c)
    <3>1. Enqueuing
      <4>1. /\ In(c, lock) /\ lock \in Seq(Tasks) /\ Once(lock) /\ lock # << >>
        BY <2>3 DEF LockIsInOrder, Wants, Waits, Tasks, TypeOK, In
      <4>2. Head(lock) \in Tasks /\ In(Head(lock), lock)
        BY <4>1, TailLock DEF In
      <4>3. Wants(Head(lock)) /\ HoldsLock(Head(lock))
        BY <4>1, <4>2 DEF LockIsInOrder, HoldsLock
      <4> QED
        BY <1>1, <4>2, <4>3 DEF Wants, Quiescent, Runnable, Enqueuing, Tasks
    <3>2. Ahead(c) \in Nat /\ Ahead(c) >= 1 /\ Limit \in Nat
      BY <2>1, <2>3, <3>1, SomebodyAhead, LimitType
    <3>3. Ahead(c)' = Ahead(c)
      BY <1>1 DEF Ahead, Rivals, Turns
    <3>4. age'[c] = age[c] + 1 /\ Spent' = Spent + 1 /\ Spent + 1 <= EnqueueTime /\ Spent \in Nat
      BY <1>0, <1>1, <1>2, <1>4, <3>1 DEF Spent
    <3>5. Ahead(c) * EnqueueTime \in Nat /\ Ahead(c) * EnqueueTime >= EnqueueTime
      <4>1. 1 * EnqueueTime <= Ahead(c) * EnqueueTime
        BY <3>2, Products
      <4> QED
        BY <3>2, <4>1, Products
    <3>6. Fits(c)
      BY <2>3, <2>a DEF Budget
    <3>7. Fits(c)'
      <4> HIDE DEF Limit
      <4>1. age[c] + Ahead(c) * EnqueueTime <= Limit + Spent
        BY <3>6 DEF Fits
      <4>2. age'[c] + Ahead(c)' * EnqueueTime <= Limit + Spent'
        BY <1>0, <3>2, <3>3, <3>4, <3>5, <4>1
      <4> QED
        BY <4>2 DEF Fits, Limit, Others
    <3>8. age'[c] <= Limit
      <4>1. age[c] + Ahead(c) * EnqueueTime <= Limit + Spent
        BY <3>6 DEF Fits
      <4> QED
        BY <1>0, <3>2, <3>4, <3>5, <4>1
    <3> QED
      BY <1>1, <1>4, <2>3, <3>7, <3>8 DEF Budget, Waits, Limit, Others
  <2> QED
    BY <1>0, <2>1, <2>2, <2>3 DEF Waits, PC
<1> QED
  BY <1>1, <1>2, <1>3, <1>4 DEF AgesFit

(* Every step of the batcher.                                               *)
LEMMA AgesStep ==
  ASSUME Sound, TypeOK', AgesFit, [FaultyNext]_vars
  PROVE  AgesFit'
<1> USE BatcherAssumption DEF Sound, Alive
<1>1. ASSUME UNCHANGED <<buf, age, wake, pc, timer, pipe, lock, io, phase, drain>> PROVE AgesFit'
  <2>1. \A c : Before(Pipeline, c, lock)' = Before(Pipeline, c, lock)
    BY <1>1 DEF Before
  <2>2. \A c : Rivals(c)' = Rivals(c)
    BY <1>1, Zenon DEF Rivals, Before
  <2>3. \A c : Turns(c)' = Turns(c) /\ Spent' = Spent /\ Enqueuing' = Enqueuing
    BY <1>1, <2>1, Zenon DEF Turns, Spent, Enqueuing
  <2>4. \A c : Fits(c)' = Fits(c)
    BY <1>1, <2>2, <2>3, Zenon DEF Fits, Ahead, Limit, Others
  <2>5. \A c : Budget(c)' = Budget(c)
    BY <1>1, <2>4, Zenon DEF Budget, Waits, Limit, Others
  <2> QED
    BY <1>1, <2>3, <2>5 DEF AgesFit
<1>2. ASSUME WorkerCommit \/ UNCHANGED vars
      PROVE  UNCHANGED <<buf, age, wake, pc, timer, pipe, lock, io, phase, drain>>
  BY <1>2 DEF WorkerCommit, buffers, tasks, vars
<1>3. ASSUME Stop PROVE AgesFit'
  <2>1. \A c \in CDNs : pc'[c] = "off" /\ buf'[c] = buf[c] /\ age'[c] = age[c]
    BY <1>3 DEF Stop, buffers
  <2>2. ~Enqueuing' /\ phase' = "draining"
    BY <1>3, <2>1 DEF Stop, Enqueuing, StopEndsTasks
  <2> QED
    BY <2>1, <2>2 DEF AgesFit, Budget, Waits, Limit, Others
<1>4. ASSUME NEW b \in CDNs, DrainTake(b) PROVE AgesFit'
  <2>1. /\ io' = 0 /\ phase' = "draining" /\ buf'[b] = {} /\ age'[b] = 0
        /\ \A c \in CDNs : pc'[c] = "off"
        /\ \A c \in CDNs \ {b} : buf'[c] = buf[c] /\ age'[c] = age[c]
    BY <1>4 DEF DrainTake, Take, tasks, TypeOK, StopEndsTasks
  <2>2. 0 <= Limit
    BY LimitType
  <2> QED
    BY <2>1, <2>2 DEF AgesFit, Budget, Waits, Limit, Others
<1>5. ASSUME DrainDone \/ Close PROVE AgesFit'
  <2>1. /\ UNCHANGED <<buf, age, io>> /\ \A c \in CDNs : pc'[c] = "off"
        /\ pipe'.at = "off" /\ drain' = None /\ phase' # "running"
        /\ phase' = "closed" => \A c \in CDNs : buf[c] = {}
    BY <1>5 DEF DrainDone, Close, buffers, tasks, StopEndsTasks
  <2>2. ~Enqueuing'
    BY <2>1 DEF Enqueuing
  <2> QED
    BY <2>1, <2>2 DEF AgesFit, Budget, Waits, Limit, Others
<1>6. ASSUME DrainFails PROVE AgesFit'
  <2>1. phase' = "draining" /\ UNCHANGED <<pc, pipe>> /\ drain' = None
    BY <1>6 DEF DrainFails, tasks
  <2>2. ~Enqueuing'
    BY <1>6, <2>1 DEF DrainFails, Enqueuing, StopEndsTasks
  <2> QED
    BY <2>1, <2>2 DEF AgesFit
<1> QED
  BY <1>1, <1>2, <1>3, <1>4, <1>5, <1>6, AgesRequest, AgesSubmit, AgesDebounce, AgesEnqueued,
     AgesTick
     DEF FaultyNext, Next, Debounce

(* Nothing is buffered at first.                                            *)
LEMMA AgesInit == Init => AgesFit
<1> SUFFICES ASSUME Init PROVE AgesFit
  OBVIOUS
<1>1. 0 <= Limit
  BY LimitType
<1> QED
  BY <1>1, BatcherAssumption DEF Init, AgesFit, Budget, Enqueuing, Waits, Ready

(* While no enqueue fails every debounce task lives, and after the stop the *)
(* ages only fall.                                                          *)
Lasting == (\A c \in CDNs : pc[c] # "dead") /\ AgeIsBounded

(* And they stay so.                                                        *)
LEMMA LastingStep ==
  ASSUME TypeOK, TypeOK', AgesFit, AgesFit', Lasting, [Next]_vars
  PROVE  Lasting'
<1>0. /\ pc \in [CDNs -> PC] /\ age \in [CDNs -> Nat] /\ age' \in [CDNs -> Nat]
      /\ buf \in [CDNs -> SUBSET URLs]
      /\ phase' \in {"running", "draining", "closed"}
  BY DEF TypeOK
<1>1. ASSUME NEW c \in CDNs PROVE pc'[c] # "dead"
  BY <1>0, <1>1 DEF Lasting, Next, Debounce, Submit, SubmitLocked, Wake, Check, TimeUp, FlushLocked,
     EnqueueDone, WorkerCommit, Stop, DrainTake, DrainDone, Close, Tick, tasks, vars
<1>2. ASSUME NEW c \in CDNs PROVE age'[c] <= Limit
  <2>1. age[c] \in Nat /\ age'[c] \in Nat /\ Limit \in Nat /\ age[c] <= Limit
    BY <1>0, <1>2, LimitType DEF Lasting, AgeIsBounded, Limit, Others
  <2>2. CASE phase' = "running"
    BY <1>1, <1>2, <2>2 DEF AgesFit, Alive, Budget
  <2>3. CASE phase' # "running" /\ Tick
    BY <1>2, <2>1, <2>3 DEF Tick, Later, AgesFit
  <2>4. CASE ~Tick
    <3>1. age'[c] = age[c] \/ age'[c] = 0
      BY <1>0, <1>2, <2>4 DEF Next, Debounce, Submit, SubmitLocked, Wake, Check, TimeUp,
         FlushLocked, Take, EnqueueDone, WorkerCommit, Stop, DrainTake, DrainDone, Close, buffers,
         vars
    <3> QED
      BY <2>1, <3>1
  <2> QED
    BY <2>2, <2>3, <2>4
<1> QED
  BY <1>1, <1>2 DEF Lasting, AgeIsBounded, Limit, Others

(* AgeIsBounded: no target waits in a buffer for longer than the age cap    *)
(* and the enqueues that may be ahead at the lock, however many CDNs there  *)
(* are and whatever the windows, the caps and the time of an enqueue.       *)
THEOREM BatcherAgeIsBounded == Spec => []AgeIsBounded
<1>1. Init => Lasting
  BY LimitType DEF Init, Lasting, AgeIsBounded, Limit, Others
<1>2. IInv /\ IInv' /\ AgesFit /\ [Next]_vars => AgesFit'
  BY AgesStep DEF IInv, Sound, FaultyNext
<1>3. TypeOK /\ TypeOK' /\ AgesFit /\ AgesFit' /\ Lasting /\ [Next]_vars => Lasting'
  BY LastingStep
<1>4. Lasting => AgeIsBounded
  BY DEF Lasting
<1>5. IInv => TypeOK
  BY DEF IInv, Sound
<1> QED
  BY <1>1, <1>2, <1>3, <1>4, <1>5, AgesInit, BatcherInvariance, PTL DEF Spec

(* FaultsSpareOtherAges: an enqueue() that fails leaves its own CDN without *)
(* a debounce task, and every other CDN with the same bound on its age.     *)
THEOREM BatcherFaultsSpareOtherAges == FaultySpec => []FaultsSpareOtherAges
<1>1. Sound /\ Sound' /\ AgesFit /\ [FaultyNext]_vars => AgesFit'
  BY AgesStep DEF Sound
<1>2. AgesFit => FaultsSpareOtherAges
  BY DEF AgesFit, Alive, Budget, FaultsSpareOtherAges, Limit, Others
<1> QED
  BY <1>1, <1>2, AgesInit, FaultyInvariance, PTL DEF FaultySpec
=============================================================================

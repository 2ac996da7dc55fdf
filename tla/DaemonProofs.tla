---------------------------- MODULE DaemonProofs ----------------------------
(***************************************************************************)
(* Theorems about Daemon, for every set of files, CDNs and configurations, *)
(* and every number of changes, attempts, stops and crashes.               *)
(***************************************************************************)
EXTENDS Daemon, TLAPS

-----------------------------------------------------------------------------
(* The inductive invariant *)

(* A worker holds a job of its CDN, which nobody else touches meanwhile. *)
WorkersHoldTheirJobs ==
  \A c \in CDNs : work[c] # 0 => /\ work[c] \in DOMAIN jobs
                                 /\ jobs[work[c]].cdn = c
                                 /\ jobs[work[c]].status = "in_flight"

(* Tasks die with the run, buffers with the process. *)
NothingOutlivesItsRun ==
  /\ phase # "running" => events = {} /\ fanout = {}
  /\ phase = "down" => open = {} /\ buf = Nowhere

(* enqueue() is called for one CDN at a time. *)
OneEnqueue == \A t, u \in open : t[1] = u[1]

(* No purge answers for a version from the future, and since a CDN has one *)
(* worker, none answers for an older version than the purge before.        *)
Clocks == \A c \in CDNs, f \in Files :
            /\ due[c][f] <= version[f]
            /\ answered[c][f] <= version[f]
            /\ work[c] # 0 => answered[c][f] <= begun[c][f] /\ begun[c][f] <= version[f]

(* Only a configuration that load has accepted runs. *)
BindingsResolve == \A f \in Files : conf.bindings[f] \subseteq conf.cdns

IInv == /\ TypeOK /\ WorkersHoldTheirJobs /\ NothingOutlivesItsRun
        /\ OneEnqueue /\ Clocks /\ BindingsResolve
        /\ TargetsHaveWorkers /\ NothingIsForgotten

-----------------------------------------------------------------------------
(* Lemmas about the operators on the jobs table *)

(* A row of the table is replaced by another. *)
LEMMA PutRow ==
  ASSUME NEW t \in Seq(Job), NEW i \in DOMAIN t, NEW row \in Job
  PROVE  /\ [t EXCEPT ![i] = row] \in Seq(Job)
         /\ DOMAIN [t EXCEPT ![i] = row] = DOMAIN t
         /\ \A j \in DOMAIN t : [t EXCEPT ![i] = row][j] = IF j = i THEN row ELSE t[j]
OBVIOUS

(* Claiming a row changes its status alone. *)
LEMMA ClaimedRow ==
  ASSUME NEW r \in Job
  PROVE  LET q == [r EXCEPT !.status = "in_flight"]
         IN  q \in Job /\ q.cdn = r.cdn /\ q.urls = r.urls /\ q.status = "in_flight"
BY DEF Job

(* reset_in_flight changes the status of rows in flight alone. *)
LEMMA ResetRows ==
  ASSUME NEW t \in Seq(Job), NEW q, q = [i \in DOMAIN t |-> Reset(t[i])]
  PROVE  /\ q \in Seq(Job) /\ DOMAIN q = DOMAIN t
         /\ \A j \in DOMAIN t :
              /\ q[j].cdn = t[j].cdn /\ q[j].urls = t[j].urls
              /\ q[j].status = IF t[j].status = "in_flight" THEN "pending" ELSE t[j].status
<1>1. ASSUME NEW j \in DOMAIN t
      PROVE  Reset(t[j]) \in Job
  <2>1. t[j] \in Job
    OBVIOUS
  <2> QED
    BY <2>1 DEF Job, Reset
<1>2. DOMAIN t = 1..Len(t) /\ Len(t) \in Nat
  OBVIOUS
<1>3. q \in Seq(Job) /\ DOMAIN q = DOMAIN t
  BY <1>1, <1>2
<1>4. \A j \in DOMAIN t : t[j] \in Job
  OBVIOUS
<1> QED
  BY <1>3, <1>4 DEF Job, Reset

(* enqueue() stores every target it holds in one pending row, and leaves   *)
(* the other rows alone.                                                   *)
LEMMA StoredRow ==
  ASSUME TypeOK, OneEnqueue, Stored
  PROVE  /\ jobs' \in Seq(Job) /\ DOMAIN jobs \subseteq DOMAIN jobs'
         /\ \A j \in DOMAIN jobs : jobs'[j] = jobs[j]
         /\ \A t \in open : \E i \in DOMAIN jobs' :
              /\ jobs'[i].cdn = t[1] /\ t[2] \in jobs'[i].urls
              /\ jobs'[i].status = "pending"
<1>1. PICK c \in CDNs : {c} \X Files \cap open # {} /\ jobs' = Append(jobs, NewRow(c))
  BY DEF Stored
<1>2. NewRow(c) \in Job /\ NewRow(c).cdn = c /\ NewRow(c).status = "pending"
      /\ NewRow(c).urls = {f \in Files : <<c, f>> \in open}
  BY DEF NewRow, Job
<1>3. jobs \in Seq(Job) /\ open \subseteq CDNs \X Files
  BY DEF TypeOK, Target
<1>4. /\ jobs' \in Seq(Job) /\ DOMAIN jobs = 1..Len(jobs) /\ DOMAIN jobs' = 1..(Len(jobs) + 1)
      /\ \A j \in DOMAIN jobs : jobs'[j] = jobs[j]
      /\ jobs'[Len(jobs) + 1] = NewRow(c) /\ Len(jobs) \in Nat
  BY <1>1, <1>2, <1>3
<1>5. \A t \in open : t[1] = c /\ t[2] \in NewRow(c).urls
  <2> TAKE t \in open
  <2>1. PICK u \in open : u \in {c} \X Files
    BY <1>1
  <2>2. t[1] = c
    BY <2>1 DEF OneEnqueue
  <2>3. t = <<c, t[2]>> /\ t[2] \in Files
    BY <2>2, <1>3
  <2> QED
    BY <2>2, <2>3, <1>2
<1>6. Len(jobs) + 1 \in DOMAIN jobs'
  BY <1>4
<1>7. ASSUME NEW t \in open
      PROVE  \E i \in DOMAIN jobs' : /\ jobs'[i].cdn = t[1] /\ t[2] \in jobs'[i].urls
                                    /\ jobs'[i].status = "pending"
  BY <1>2, <1>4, <1>5, <1>6
<1>8. DOMAIN jobs \subseteq DOMAIN jobs'
  BY <1>4
<1> QED
  BY <1>4, <1>7, <1>8

-----------------------------------------------------------------------------
(* Each action preserves the invariant *)

(* The initial states satisfy it. *)
LEMMA InitIInv == Init => IInv
<1> SUFFICES ASSUME Init PROVE IInv
  OBVIOUS
<1>1. conf \in Config /\ Loads(conf)
  BY DaemonAssumption DEF Init
<1>2. TypeOK
  BY <1>1 DEF Init, TypeOK, Zero, Nowhere, Versions, Target
<1>3. BindingsResolve
  BY <1>1 DEF BindingsResolve, Loads
<1>4. Clocks /\ NothingIsForgotten
  BY DEF Init, Clocks, NothingIsForgotten, Zero
<1>5. TargetsHaveWorkers /\ OneEnqueue /\ NothingOutlivesItsRun /\ WorkersHoldTheirJobs
  BY DEF Init, TargetsHaveWorkers, OneEnqueue, NothingOutlivesItsRun, WorkersHoldTheirJobs, Nowhere
<1> QED
  BY <1>2, <1>3, <1>4, <1>5 DEF IInv

(* A daemon that starts finds the rows of the one before, none of them in  *)
(* flight any more.                                                        *)
LEMMA StartIInv ==
  ASSUME IInv, NEW cfg \in Configs, Start(cfg)
  PROVE  IInv'
<1>1. /\ phase = "down" /\ events = {} /\ fanout = {} /\ open = {} /\ buf = Nowhere
      /\ \A c \in CDNs : work[c] = 0
      /\ UNCHANGED <<version, events, fanout, buf, open, work, begun, stops, due, answered, excused>>
  BY DEF IInv, Start, TypeOK, NothingOutlivesItsRun, memory, workers, history
<1>2. /\ jobs' \in Seq(Job) /\ DOMAIN jobs' = DOMAIN jobs
      /\ \A j \in DOMAIN jobs :
           /\ jobs'[j].cdn = jobs[j].cdn /\ jobs'[j].urls = jobs[j].urls
           /\ jobs'[j].status = IF jobs[j].status = "in_flight" THEN "pending" ELSE jobs[j].status
  BY ResetRows DEF IInv, TypeOK, Start
<1>3. /\ phase' \in {"down", "running"} /\ conf' \in Config
      /\ conf' = conf \/ Loads(conf')
  BY <1>1, DaemonAssumption DEF IInv, TypeOK, Start
<1>4. TypeOK'
  BY <1>1, <1>2, <1>3 DEF IInv, TypeOK
<1>5. BindingsResolve'
  BY <1>3 DEF IInv, BindingsResolve, Loads
<1>6. WorkersHoldTheirJobs' /\ NothingOutlivesItsRun' /\ OneEnqueue'
  BY <1>1 DEF WorkersHoldTheirJobs, NothingOutlivesItsRun, OneEnqueue, Nowhere
<1>7. TargetsHaveWorkers'
  BY <1>1 DEF TargetsHaveWorkers, Nowhere
<1>8. Clocks'
  BY <1>1 DEF IInv, Clocks
<1>9. ASSUME NEW c \in CDNs, NEW f \in Files, OnItsWay(c, f)
      PROVE  OnItsWay(c, f)'
  <2>1. PICK i \in DOMAIN jobs : /\ jobs[i].cdn = c /\ f \in jobs[i].urls
                                 /\ jobs[i].status \in {"pending", "in_flight"}
    BY <1>1, <1>9 DEF OnItsWay, Nowhere
  <2>2. i \in DOMAIN jobs' /\ jobs'[i].cdn = c /\ f \in jobs'[i].urls /\ jobs'[i].status = "pending"
    BY <1>2, <2>1
  <2> QED
    BY <2>2 DEF OnItsWay
<1>10. NothingIsForgotten'
  BY <1>1, <1>9 DEF IInv, NothingIsForgotten
<1> QED
  BY <1>4, <1>5, <1>6, <1>7, <1>8, <1>10 DEF IInv

(* A change is news for the CDNs bound to the file: whatever was due to    *)
(* them before, the event now covers.                                      *)
LEMMA ChangeIInv ==
  ASSUME IInv, NEW f \in Files, Change(f)
  PROVE  IInv'
<1>1. /\ UNCHANGED <<phase, conf, fanout, open, buf, jobs, work, begun, stops, answered>>
      /\ version' = [version EXCEPT ![f] = @ + 1]
  BY DEF Change, workers
<1>2. version \in [Files -> Nat] /\ due \in Versions /\ excused \subseteq Target
  BY DEF IInv, TypeOK
<1>3. \A g \in Files : version'[g] = IF g = f THEN version[f] + 1 ELSE version[g]
  BY <1>1, <1>2
<1>4. CASE phase = "running"
  <2>1. /\ events' = events \cup {f}
        /\ due' = [c \in CDNs |-> IF c \in conf.bindings[f]
                                  THEN [due[c] EXCEPT ![f] = version[f] + 1] ELSE due[c]]
        /\ excused' = excused \ (conf.bindings[f] \X {f})
    BY <1>4 DEF Change
  <2>2. /\ due' \in Versions
        /\ \A c \in CDNs, g \in Files :
             due'[c][g] = IF c \in conf.bindings[f] /\ g = f THEN version[f] + 1 ELSE due[c][g]
    BY <1>2, <2>1 DEF Versions
  <2>3. TypeOK'
    BY <1>1, <1>2, <2>1, <2>2 DEF IInv, TypeOK
  <2>4. Clocks'
    <3> SUFFICES ASSUME NEW c \in CDNs, NEW g \in Files
                 PROVE  /\ due'[c][g] <= version'[g] /\ answered'[c][g] <= version'[g]
                        /\ work'[c] # 0 => /\ answered'[c][g] <= begun'[c][g]
                                           /\ begun'[c][g] <= version'[g]
      BY DEF Clocks
    <3>1. /\ due[c][g] <= version[g] /\ answered[c][g] <= version[g]
          /\ work[c] # 0 => answered[c][g] <= begun[c][g] /\ begun[c][g] <= version[g]
      BY DEF IInv, Clocks
    <3>2. due[c][g] \in Nat /\ answered[c][g] \in Nat /\ begun[c][g] \in Nat /\ version[g] \in Nat
          /\ version[f] \in Nat
      BY DEF IInv, TypeOK, Versions
    <3> QED
      BY <1>1, <1>3, <2>2, <3>1, <3>2
  <2>5. NothingOutlivesItsRun'
    BY <1>1, <1>4, <2>1 DEF NothingOutlivesItsRun
  <2>6. NothingIsForgotten'
    <3> SUFFICES ASSUME NEW c \in CDNs, NEW g \in Files, due'[c][g] > answered'[c][g]
                 PROVE  <<c, g>> \in excused' \/ OnItsWay(c, g)'
      BY DEF NothingIsForgotten
    <3>1. CASE c \in conf.bindings[f] /\ g = f
      BY <1>1, <2>1, <3>1 DEF OnItsWay
    <3>2. CASE ~(c \in conf.bindings[f] /\ g = f)
      <4>1. due'[c][g] = due[c][g] /\ (<<c, g>> \in excused => <<c, g>> \in excused')
        BY <2>1, <2>2, <3>2
      <4>2. OnItsWay(c, g) => OnItsWay(c, g)'
        BY <1>1, <2>1, <4>1 DEF OnItsWay, TooEarly
      <4> QED
        BY <1>1, <4>1, <4>2 DEF IInv, NothingIsForgotten
    <3> QED
      BY <3>1, <3>2
  <2> QED
    BY <1>1, <2>3, <2>4, <2>5, <2>6
       DEF IInv, WorkersHoldTheirJobs, OneEnqueue, BindingsResolve, TargetsHaveWorkers
<1>5. CASE phase # "running"
  <2>1. UNCHANGED <<events, due, excused>>
    BY <1>5 DEF Change
  <2>2. TypeOK'
    BY <1>1, <1>2, <2>1 DEF IInv, TypeOK
  <2>3. Clocks'
    <3> SUFFICES ASSUME NEW c \in CDNs, NEW g \in Files
                 PROVE  /\ due'[c][g] <= version'[g] /\ answered'[c][g] <= version'[g]
                        /\ work'[c] # 0 => /\ answered'[c][g] <= begun'[c][g]
                                           /\ begun'[c][g] <= version'[g]
      BY DEF Clocks
    <3>1. /\ due[c][g] <= version[g] /\ answered[c][g] <= version[g]
          /\ work[c] # 0 => answered[c][g] <= begun[c][g] /\ begun[c][g] <= version[g]
      BY DEF IInv, Clocks
    <3>2. due[c][g] \in Nat /\ answered[c][g] \in Nat /\ begun[c][g] \in Nat /\ version[g] \in Nat
      BY DEF IInv, TypeOK, Versions
    <3> QED
      BY <1>1, <1>3, <2>1, <3>1, <3>2
  <2>4. NothingIsForgotten'
    BY <1>1, <2>1 DEF IInv, NothingIsForgotten, OnItsWay, TooEarly
  <2> QED
    BY <1>1, <2>1, <2>2, <2>3, <2>4
       DEF IInv, WorkersHoldTheirJobs, OneEnqueue, BindingsResolve, TargetsHaveWorkers,
           NothingOutlivesItsRun
<1> QED
  BY <1>4, <1>5

(* What a step of the pipeline, the batcher or the queue leaves alone.     *)
LEMMA PipelineIInv ==
  ASSUME IInv, TypeOK', OneEnqueue', TargetsHaveWorkers', NothingOutlivesItsRun',
         UNCHANGED <<conf, version, work, begun, due, answered, excused>>,
         DOMAIN jobs \subseteq DOMAIN jobs', \A i \in DOMAIN jobs : jobs'[i] = jobs[i],
         \A c \in CDNs, f \in Files : OnItsWay(c, f) => OnItsWay(c, f)'
  PROVE  IInv'
<1>1. WorkersHoldTheirJobs' /\ Clocks' /\ BindingsResolve'
  BY DEF IInv, WorkersHoldTheirJobs, Clocks, BindingsResolve
<1>2. NothingIsForgotten'
  BY DEF IInv, NothingIsForgotten
<1> QED
  BY <1>1, <1>2 DEF IInv

(* An event turns into its targets. *)
LEMMA ReadIInv ==
  ASSUME IInv, NEW f \in Files, Read(f)
  PROVE  IInv'
<1>1. /\ phase = "running" /\ f \in events
      /\ events' = events \ {f} /\ fanout' = conf.bindings[f] \X {f}
      /\ UNCHANGED <<phase, conf, version, buf, open, jobs, work, begun, stops, due, answered, excused>>
  BY DEF Read, workers, history
<1>2. TypeOK /\ conf.bindings \in [Files -> SUBSET CDNs]
  BY DEF IInv, TypeOK, Config
<1>3. TypeOK'
  BY <1>1, <1>2 DEF TypeOK, Target
<1>4. OneEnqueue' /\ NothingOutlivesItsRun'
  BY <1>1 DEF IInv, OneEnqueue, NothingOutlivesItsRun
<1>5. TargetsHaveWorkers'
  BY <1>1 DEF IInv, TargetsHaveWorkers, BindingsResolve
<1>6. \A c \in CDNs, g \in Files : OnItsWay(c, g) => OnItsWay(c, g)'
  <2> TAKE c \in CDNs, g \in Files
  <2>1. fanout = {} /\ (g = f /\ c \in conf.bindings[g] => <<c, g>> \in fanout')
    BY <1>1 DEF Read
  <2>2. g # f /\ g \in events => g \in events'
    BY <1>1
  <2> QED
    BY <1>1, <2>1, <2>2 DEF OnItsWay, TooEarly
<1> QED
  BY <1>1, <1>3, <1>4, <1>5, <1>6, PipelineIInv

(* A submitted target is in the buffer of its CDN. *)
LEMMA SubmitIInv ==
  ASSUME IInv, NEW t \in Target, Submit(t)
  PROVE  IInv'
<1>1. /\ phase = "running" /\ t \in fanout /\ open = {}
      /\ fanout' = fanout \ {t} /\ buf' = [buf EXCEPT ![t[1]] = @ \cup {t[2]}]
      /\ UNCHANGED <<phase, conf, version, events, open, jobs, work, begun, stops, due, answered, excused>>
  BY DEF Submit, workers, history
<1>2. TypeOK /\ buf \in [CDNs -> SUBSET Files] /\ t[1] \in CDNs /\ t[2] \in Files
  BY DEF IInv, TypeOK, Target
<1>3. buf' \in [CDNs -> SUBSET Files]
      /\ \A c \in CDNs : buf'[c] = IF c = t[1] THEN buf[c] \cup {t[2]} ELSE buf[c]
  BY <1>1, <1>2
<1>4. TypeOK'
  BY <1>1, <1>2, <1>3 DEF TypeOK
<1>5. OneEnqueue' /\ NothingOutlivesItsRun'
  BY <1>1 DEF IInv, OneEnqueue, NothingOutlivesItsRun
<1>6. TargetsHaveWorkers'
  BY <1>1, <1>3 DEF IInv, TargetsHaveWorkers
<1>7. \A c \in CDNs, g \in Files : OnItsWay(c, g) => OnItsWay(c, g)'
  <2> TAKE c \in CDNs, g \in Files
  <2>1. <<c, g>> \in fanout => <<c, g>> \in fanout' \/ g \in buf'[c]
    BY <1>1, <1>3
  <2>2. g \in buf[c] => g \in buf'[c]
    BY <1>3
  <2> QED
    BY <1>1, <2>1, <2>2 DEF OnItsWay, TooEarly
<1> QED
  BY <1>1, <1>4, <1>5, <1>6, <1>7, PipelineIInv

(* A flushed buffer is in the hands of enqueue(). *)
LEMMA FlushIInv ==
  ASSUME IInv, NEW k \in CDNs, Flush(k)
  PROVE  IInv'
<1>1. /\ phase # "down" /\ buf[k] # {} /\ open = {}
      /\ open' = {k} \X buf[k] /\ buf' = [buf EXCEPT ![k] = {}]
      /\ UNCHANGED <<phase, conf, version, events, fanout, jobs, work, begun, stops, due, answered, excused>>
  BY DEF Flush, workers, history
<1>2. TypeOK /\ buf \in [CDNs -> SUBSET Files]
  BY DEF IInv, TypeOK
<1>3. buf' \in [CDNs -> SUBSET Files]
      /\ \A c \in CDNs : buf'[c] = IF c = k THEN {} ELSE buf[c]
  BY <1>1, <1>2
<1>4. TypeOK'
  BY <1>1, <1>2, <1>3 DEF TypeOK, Target
<1>5. OneEnqueue' /\ NothingOutlivesItsRun'
  BY <1>1 DEF IInv, OneEnqueue, NothingOutlivesItsRun
<1>6. TargetsHaveWorkers'
  BY <1>1, <1>3 DEF IInv, TargetsHaveWorkers
<1>7. \A c \in CDNs, g \in Files : OnItsWay(c, g) => OnItsWay(c, g)'
  <2> TAKE c \in CDNs, g \in Files
  <2>1. g \in buf[c] => g \in buf'[c] \/ <<c, g>> \in open'
    BY <1>1, <1>3
  <2> QED
    BY <1>1, <2>1 DEF OnItsWay, TooEarly
<1> QED
  BY <1>1, <1>4, <1>5, <1>6, <1>7, PipelineIInv

(* A committed batch is a pending row. *)
LEMMA EnqueuedIInv ==
  ASSUME IInv, Enqueued
  PROVE  IInv'
<1>1. /\ Stored /\ phase # "down" /\ open' = {}
      /\ UNCHANGED <<phase, conf, version, events, fanout, buf, work, begun, stops, due, answered, excused>>
  BY DEF Enqueued, workers, history
<1>2. TypeOK /\ OneEnqueue
  BY DEF IInv
<1>3. /\ jobs' \in Seq(Job) /\ DOMAIN jobs \subseteq DOMAIN jobs'
      /\ \A j \in DOMAIN jobs : jobs'[j] = jobs[j]
      /\ \A t \in open : \E i \in DOMAIN jobs' :
           /\ jobs'[i].cdn = t[1] /\ t[2] \in jobs'[i].urls /\ jobs'[i].status = "pending"
  BY <1>1, <1>2, StoredRow
<1>4. TypeOK'
  BY <1>1, <1>2, <1>3 DEF TypeOK
<1>5. OneEnqueue' /\ NothingOutlivesItsRun' /\ TargetsHaveWorkers'
  BY <1>1 DEF IInv, OneEnqueue, NothingOutlivesItsRun, TargetsHaveWorkers
<1>6. \A c \in CDNs, g \in Files : OnItsWay(c, g) => OnItsWay(c, g)'
  <2> TAKE c \in CDNs, g \in Files
  <2>1. CASE <<c, g>> \in open
    BY <1>3, <2>1 DEF OnItsWay
  <2>2. CASE \E i \in DOMAIN jobs : /\ jobs[i].cdn = c /\ g \in jobs[i].urls
                                    /\ \/ jobs[i].status = "pending"
                                       \/ jobs[i].status = "in_flight" /\ ~TooEarly(c, g, i)
    BY <1>1, <1>3, <2>2 DEF OnItsWay, TooEarly
  <2>3. CASE \/ g \in events /\ c \in conf.bindings[g]
             \/ <<c, g>> \in fanout \/ g \in buf[c]
    BY <1>1, <2>3 DEF OnItsWay
  <2> QED
    BY <2>1, <2>2, <2>3 DEF OnItsWay
<1> QED
  BY <1>1, <1>3, <1>4, <1>5, <1>6, PipelineIInv

(* A purge that begins now is not too early for any change made before. *)
LEMMA ClaimIInv ==
  ASSUME IInv, NEW k \in CDNs, NEW n \in DOMAIN jobs, Claim(k, n)
  PROVE  IInv'
<1>1. /\ phase = "running" /\ work[k] = 0 /\ jobs[n].cdn = k /\ jobs[n].status = "pending"
      /\ jobs' = [jobs EXCEPT ![n].status = "in_flight"]
      /\ work' = [work EXCEPT ![k] = n] /\ begun' = [begun EXCEPT ![k] = version]
      /\ UNCHANGED <<phase, conf, version, events, fanout, buf, open, stops, due, answered, excused>>
  BY DEF Claim, memory, history
<1>2. TypeOK /\ jobs \in Seq(Job) /\ n \in Nat \ {0}
  BY DEF IInv, TypeOK
<1>3. /\ jobs' \in Seq(Job) /\ DOMAIN jobs' = DOMAIN jobs
      /\ \A j \in DOMAIN jobs :
           /\ jobs'[j].cdn = jobs[j].cdn /\ jobs'[j].urls = jobs[j].urls
           /\ jobs'[j].status = IF j = n THEN "in_flight" ELSE jobs[j].status
  <2>1. PICK row : row = [jobs[n] EXCEPT !.status = "in_flight"]
    OBVIOUS
  <2>2. jobs[n] \in Job
    BY <1>2
  <2>3. row \in Job /\ row.cdn = jobs[n].cdn /\ row.urls = jobs[n].urls /\ row.status = "in_flight"
    BY <2>1, <2>2, ClaimedRow
  <2>4. jobs' = [jobs EXCEPT ![n] = row]
    BY <1>1, <2>1
  <2>5. /\ jobs' \in Seq(Job) /\ DOMAIN jobs' = DOMAIN jobs
        /\ \A j \in DOMAIN jobs : jobs'[j] = IF j = n THEN row ELSE jobs[j]
    BY <1>2, <2>3, <2>4, PutRow
  <2> QED
    BY <2>3, <2>5
<1>4. /\ work' \in [CDNs -> Nat] /\ begun' \in Versions
      /\ \A c \in CDNs : work'[c] = IF c = k THEN n ELSE work[c]
      /\ \A c \in CDNs : begun'[c] = IF c = k THEN version ELSE begun[c]
  BY <1>1, <1>2 DEF TypeOK, Versions
<1>5. TypeOK'
  BY <1>1, <1>2, <1>3, <1>4 DEF TypeOK
<1>6. WorkersHoldTheirJobs'
  BY <1>1, <1>3, <1>4 DEF IInv, WorkersHoldTheirJobs
<1>7. Clocks'
  <2> SUFFICES ASSUME NEW c \in CDNs, NEW g \in Files
               PROVE  /\ due'[c][g] <= version'[g] /\ answered'[c][g] <= version'[g]
                      /\ work'[c] # 0 => /\ answered'[c][g] <= begun'[c][g]
                                         /\ begun'[c][g] <= version'[g]
    BY DEF Clocks
  <2>1. version[g] \in Nat
    BY <1>2 DEF TypeOK
  <2> QED
    BY <1>1, <1>4, <2>1 DEF IInv, Clocks
<1>8. \A c \in CDNs, g \in Files : OnItsWay(c, g) => OnItsWay(c, g)'
  <2> SUFFICES ASSUME NEW c \in CDNs, NEW g \in Files, NEW i \in DOMAIN jobs,
                      jobs[i].cdn = c, g \in jobs[i].urls,
                      \/ jobs[i].status = "pending"
                      \/ jobs[i].status = "in_flight" /\ ~TooEarly(c, g, i)
               PROVE  OnItsWay(c, g)'
    BY <1>1 DEF OnItsWay, TooEarly
  <2>1. due[c][g] <= version[g] /\ due[c][g] \in Nat /\ version[g] \in Nat
    BY <1>2 DEF IInv, Clocks, TypeOK, Versions
  <2>2. CASE i = n
    <3>1. ~TooEarly(c, g, n)'
      BY <1>1, <1>4, <2>1, <2>2 DEF TooEarly
    <3> QED
      BY <1>3, <2>2, <3>1 DEF OnItsWay
  <2>3. CASE i # n
    <3>1. TooEarly(c, g, i)' => TooEarly(c, g, i)
      BY <1>1, <1>4, <2>3 DEF TooEarly
    <3> QED
      BY <1>3, <2>3, <3>1 DEF OnItsWay
  <2> QED
    BY <2>2, <2>3
<1>9. NothingIsForgotten'
  BY <1>1, <1>8 DEF IInv, NothingIsForgotten
<1> QED
  BY <1>1, <1>5, <1>6, <1>7, <1>9
     DEF IInv, OneEnqueue, BindingsResolve, TargetsHaveWorkers, NothingOutlivesItsRun

(* What the end of a purge does to the table and to the targets: one that  *)
(* was on its way still is, unless the job carried it and began in time.   *)
LEMMA SettleEffect ==
  ASSUME IInv, NEW k \in CDNs, work[k] # 0,
         NEW s \in {"pending", "done", "failed"}, NEW a \in Nat, Settle(k, s, a)
  PROVE  /\ jobs' \in Seq(Job) /\ work' \in [CDNs -> Nat] /\ begun' \in Versions
         /\ phase = "running"
         /\ UNCHANGED <<phase, conf, version, events, fanout, buf, open, stops, due>>
         /\ WorkersHoldTheirJobs'
         /\ \A c \in CDNs : work'[c] # 0 => c # k /\ work[c] # 0 /\ begun'[c] = begun[c]
         /\ \A c \in CDNs, g \in Files :
              OnItsWay(c, g) =>
                   \/ OnItsWay(c, g)'
                   \/ /\ c = k /\ g \in jobs[work[k]].urls /\ s # "pending"
                      /\ ~TooEarly(c, g, work[k])
<1> DEFINE n == work[k]
<1>1. /\ jobs' = [jobs EXCEPT ![n] = [@ EXCEPT !.status = s, !.attempts = a]]
      /\ work' = [work EXCEPT ![k] = 0] /\ begun' = [begun EXCEPT ![k] = Zero[k]]
      /\ UNCHANGED <<phase, conf, version, events, fanout, buf, open, stops, due>>
  BY DEF Settle, memory
<1>2. TypeOK /\ jobs \in Seq(Job) /\ n \in DOMAIN jobs /\ jobs[n].cdn = k
      /\ jobs[n].status = "in_flight"
  BY DEF IInv, TypeOK, WorkersHoldTheirJobs
<1> HIDE DEF n
<1>3. /\ jobs' \in Seq(Job) /\ DOMAIN jobs' = DOMAIN jobs
      /\ \A j \in DOMAIN jobs :
           /\ jobs'[j].cdn = jobs[j].cdn /\ jobs'[j].urls = jobs[j].urls
           /\ jobs'[j].status = IF j = n THEN s ELSE jobs[j].status
  <2>1. PICK row : row = [jobs[n] EXCEPT !.status = s, !.attempts = a]
    OBVIOUS
  <2>2. jobs[n] \in Job
    BY <1>2
  <2>3. row \in Job /\ row.cdn = jobs[n].cdn /\ row.urls = jobs[n].urls /\ row.status = s
    BY <2>1, <2>2 DEF Job
  <2>4. jobs' = [jobs EXCEPT ![n] = row]
    BY <1>1, <2>1
  <2>5. /\ jobs' \in Seq(Job) /\ DOMAIN jobs' = DOMAIN jobs
        /\ \A j \in DOMAIN jobs : jobs'[j] = IF j = n THEN row ELSE jobs[j]
    BY <1>2, <2>3, <2>4, PutRow
  <2> QED
    BY <2>3, <2>5
<1>4. /\ work' \in [CDNs -> Nat] /\ begun' \in Versions
      /\ \A c \in CDNs : work'[c] = IF c = k THEN 0 ELSE work[c]
      /\ \A c \in CDNs : c # k => begun'[c] = begun[c]
  BY <1>1, <1>2 DEF TypeOK, Versions, Zero
<1>5. phase = "running"
  BY <1>2 DEF TypeOK, n
<1>6. WorkersHoldTheirJobs'
  BY <1>2, <1>3, <1>4 DEF IInv, WorkersHoldTheirJobs
<1>7. ASSUME NEW c \in CDNs, NEW g \in Files, OnItsWay(c, g)
      PROVE  OnItsWay(c, g)' \/ (c = k /\ g \in jobs[n].urls /\ s # "pending" /\ ~TooEarly(c, g, n))
  <2>1. CASE \/ g \in events /\ c \in conf.bindings[g]
             \/ <<c, g>> \in fanout \/ g \in buf[c] \/ <<c, g>> \in open
    BY <1>1, <2>1 DEF OnItsWay
  <2>2. ASSUME NEW i \in DOMAIN jobs, jobs[i].cdn = c, g \in jobs[i].urls,
               \/ jobs[i].status = "pending"
               \/ jobs[i].status = "in_flight" /\ ~TooEarly(c, g, i)
        PROVE  OnItsWay(c, g)' \/ (c = k /\ g \in jobs[n].urls /\ s # "pending" /\ ~TooEarly(c, g, n))
    <3>1. TooEarly(c, g, i)' => TooEarly(c, g, i)
      BY <1>1, <1>2, <1>4 DEF TooEarly
    <3>2. CASE i = n
      BY <1>2, <1>3, <2>2, <3>2 DEF OnItsWay
    <3>3. CASE i # n
      BY <1>3, <2>2, <3>1, <3>3 DEF OnItsWay
    <3> QED
      BY <3>2, <3>3
  <2> QED
    BY <1>7, <2>1, <2>2 DEF OnItsWay
<1> QED
  BY <1>1, <1>3, <1>4, <1>5, <1>6, <1>7 DEF n

(* The other worker's clocks are untouched, and nobody's answer gets older. *)
LEMMA ClocksAfterPurge ==
  ASSUME IInv, NEW k \in CDNs, work[k] # 0,
         UNCHANGED <<version, due>>,
         \A c \in CDNs : work'[c] # 0 => c # k /\ work[c] # 0 /\ begun'[c] = begun[c],
         \A c \in CDNs, g \in Files :
           \/ answered'[c][g] = answered[c][g]
           \/ c = k /\ answered'[c][g] = begun[c][g]
  PROVE  Clocks'
<1> SUFFICES ASSUME NEW c \in CDNs, NEW g \in Files
             PROVE  /\ due'[c][g] <= version'[g] /\ answered'[c][g] <= version'[g]
                    /\ work'[c] # 0 => /\ answered'[c][g] <= begun'[c][g]
                                       /\ begun'[c][g] <= version'[g]
  BY DEF Clocks
<1>1. /\ due[c][g] <= version[g] /\ answered[c][g] <= version[g]
      /\ work[c] # 0 => answered[c][g] <= begun[c][g] /\ begun[c][g] <= version[g]
  BY DEF IInv, Clocks
<1> QED
  BY <1>1

(* A job given back is on its way again; nothing else has moved. *)
LEMMA RetryIInv ==
  ASSUME IInv, NEW k \in CDNs, Retry(k)
  PROVE  IInv'
<1>1. work[k] # 0 /\ UNCHANGED <<answered, excused>>
      /\ Settle(k, "pending", Attempts(k) + 1)
  BY DEF Retry
<1>2. Attempts(k) + 1 \in Nat
  <2>1. jobs[work[k]] \in Job
    BY <1>1 DEF IInv, TypeOK, WorkersHoldTheirJobs
  <2> QED
    BY <2>1 DEF Attempts, Job
<1>3. /\ jobs' \in Seq(Job) /\ work' \in [CDNs -> Nat] /\ begun' \in Versions
      /\ phase = "running"
      /\ UNCHANGED <<phase, conf, version, events, fanout, buf, open, stops, due>>
      /\ WorkersHoldTheirJobs'
      /\ \A c \in CDNs : work'[c] # 0 => c # k /\ work[c] # 0 /\ begun'[c] = begun[c]
      /\ \A c \in CDNs, g \in Files :
           OnItsWay(c, g) => OnItsWay(c, g)'
  BY <1>1, <1>2, SettleEffect
<1>4. TypeOK'
  BY <1>1, <1>3 DEF IInv, TypeOK
<1>5. Clocks'
  BY <1>1, <1>3 DEF IInv, Clocks
<1>6. NothingIsForgotten'
  BY <1>1, <1>3 DEF IInv, NothingIsForgotten
<1> QED
  BY <1>3, <1>4, <1>5, <1>6
     DEF IInv, OneEnqueue, BindingsResolve, TargetsHaveWorkers, NothingOutlivesItsRun

(* A job that is answered carried a change only if it began after it. *)
LEMMA AnsweredIInv ==
  ASSUME IInv, NEW k \in CDNs, work[k] # 0, NEW s \in {"done", "failed"},
         Settle(k, s, Attempts(k)), Answer(k), UNCHANGED excused
  PROVE  IInv'
<1>1. jobs[work[k]] \in Job /\ jobs[work[k]].cdn = k /\ work[k] \in DOMAIN jobs
  BY DEF IInv, TypeOK, WorkersHoldTheirJobs
<1>2. Attempts(k) \in Nat
  BY <1>1 DEF Attempts, Job
<1>3. /\ jobs' \in Seq(Job) /\ work' \in [CDNs -> Nat] /\ begun' \in Versions
      /\ phase = "running"
      /\ UNCHANGED <<phase, conf, version, events, fanout, buf, open, stops, due>>
      /\ WorkersHoldTheirJobs'
      /\ \A c \in CDNs : work'[c] # 0 => c # k /\ work[c] # 0 /\ begun'[c] = begun[c]
      /\ \A c \in CDNs, g \in Files :
           OnItsWay(c, g) =>
                \/ OnItsWay(c, g)'
                \/ c = k /\ g \in jobs[work[k]].urls /\ ~TooEarly(c, g, work[k])
  BY <1>2, SettleEffect
<1>4. /\ answered' \in Versions
      /\ \A c \in CDNs, g \in Files :
           answered'[c][g] = IF c = k /\ g \in jobs[work[k]].urls THEN begun[c][g]
                                                                 ELSE answered[c][g]
  BY DEF IInv, TypeOK, Versions, Answer
<1>5. TypeOK'
  BY <1>3, <1>4 DEF IInv, TypeOK
<1>6. Clocks'
  <2>1. \A c \in CDNs, g \in Files :
          \/ answered'[c][g] = answered[c][g]
          \/ c = k /\ answered'[c][g] = begun[c][g]
    BY <1>4
  <2>2. UNCHANGED <<version, due>>
    BY <1>3
  <2>3. \A c \in CDNs : work'[c] # 0 => c # k /\ work[c] # 0 /\ begun'[c] = begun[c]
    BY <1>3
  <2> QED
    BY <2>1, <2>2, <2>3, ClocksAfterPurge
<1>7. NothingIsForgotten'
  <2> SUFFICES ASSUME NEW c \in CDNs, NEW g \in Files, due'[c][g] > answered'[c][g]
               PROVE  <<c, g>> \in excused' \/ OnItsWay(c, g)'
    BY DEF NothingIsForgotten
  <2>1. /\ due[c][g] \in Nat /\ answered[c][g] \in Nat /\ begun[c][g] \in Nat
        /\ work[c] # 0 => answered[c][g] <= begun[c][g]
    BY DEF IInv, TypeOK, Versions, Clocks
  <2>2. <<c, g>> \in excused \/ OnItsWay(c, g)
    BY <1>3, <1>4, <2>1 DEF IInv, NothingIsForgotten
  <2>3. ~(c = k /\ g \in jobs[work[k]].urls /\ ~TooEarly(c, g, work[k]))
    <3> SUFFICES ASSUME c = k, g \in jobs[work[k]].urls
                 PROVE  begun[c][g] < due[c][g]
      BY DEF TooEarly
    <3> QED
      BY <1>3, <1>4, <2>1
  <2> QED
    BY <1>3, <2>2, <2>3
<1> QED
  BY <1>3, <1>5, <1>6, <1>7
     DEF IInv, OneEnqueue, BindingsResolve, TargetsHaveWorkers, NothingOutlivesItsRun

(* What a dry run settles is excused. *)
LEMMA DryIInv ==
  ASSUME IInv, NEW k \in CDNs, Purged(k), conf.dry_run
  PROVE  IInv'
<1>1. work[k] # 0 /\ Settle(k, "done", Attempts(k)) /\ UNCHANGED answered
      /\ excused' = excused \cup ({k} \X jobs[work[k]].urls)
  BY DEF Purged
<1>2. jobs[work[k]] \in Job
  BY <1>1 DEF IInv, TypeOK, WorkersHoldTheirJobs
<1>3. Attempts(k) \in Nat /\ jobs[work[k]].urls \subseteq Files
  BY <1>2 DEF Attempts, Job
<1>4. /\ jobs' \in Seq(Job) /\ work' \in [CDNs -> Nat] /\ begun' \in Versions
      /\ phase = "running"
      /\ UNCHANGED <<phase, conf, version, events, fanout, buf, open, stops, due>>
      /\ WorkersHoldTheirJobs'
      /\ \A c \in CDNs : work'[c] # 0 => c # k /\ work[c] # 0 /\ begun'[c] = begun[c]
      /\ \A c \in CDNs, g \in Files :
           OnItsWay(c, g) =>
                \/ OnItsWay(c, g)'
                \/ c = k /\ g \in jobs[work[k]].urls /\ ~TooEarly(c, g, work[k])
  BY <1>1, <1>3, SettleEffect
<1>5. TypeOK'
  BY <1>1, <1>3, <1>4 DEF IInv, TypeOK, Target
<1>6. Clocks'
  BY <1>1, <1>4 DEF IInv, Clocks
<1>7. NothingIsForgotten'
  BY <1>1, <1>4 DEF IInv, NothingIsForgotten
<1> QED
  BY <1>4, <1>5, <1>6, <1>7
     DEF IInv, OneEnqueue, BindingsResolve, TargetsHaveWorkers, NothingOutlivesItsRun

(* The end of a purge, however it ends. *)
LEMMA WorkIInv ==
  ASSUME IInv, NEW k \in CDNs, Work(k)
  PROVE  IInv'
<1>1. CASE Purged(k)
  <2>1. CASE conf.dry_run
    BY <1>1, <2>1, DryIInv
  <2>2. CASE ~conf.dry_run
    BY <1>1, <2>2, AnsweredIInv DEF Purged
  <2> QED
    BY <2>1, <2>2
<1>2. CASE Retry(k)
  BY <1>2, RetryIInv
<1>3. CASE GiveUp(k)
  BY <1>3, AnsweredIInv DEF GiveUp
<1> QED
  BY <1>1, <1>2, <1>3 DEF Work

(* A stop or a crash: what is lost of the memory is excused, the statement *)
(* of a cut enqueue() may leave its row, and rows in flight wait for the   *)
(* next start.                                                             *)
LEMMA HaltIInv ==
  ASSUME IInv, phase # "down", phase' \in {"draining", "down"}, Halt,
         NEW gone \in SUBSET Target, Cut(gone),
         \/ buf' = buf /\ phase' = "draining"
         \/ buf' = Nowhere /\ \A c \in CDNs, g \in Files : g \in buf[c] => <<c, g>> \in gone,
         Unread \cup fanout \subseteq gone
  PROVE  IInv'
<1>1. /\ events' = {} /\ fanout' = {} /\ open' = {} /\ stops' = stops + 1
      /\ work' = [c \in CDNs |-> 0] /\ begun' = Zero
      /\ UNCHANGED <<conf, version, due, answered>>
  BY DEF Halt
<1>2. TypeOK /\ OneEnqueue /\ TargetsHaveWorkers
  BY DEF IInv
<1>3. /\ jobs' \in Seq(Job) /\ DOMAIN jobs \subseteq DOMAIN jobs'
      /\ \A j \in DOMAIN jobs : jobs'[j] = jobs[j]
      /\ gone \subseteq excused' /\ excused \subseteq excused' /\ excused' \subseteq Target
      /\ \A t \in open :
           \/ t \in excused'
           \/ \E i \in DOMAIN jobs' : /\ jobs'[i].cdn = t[1] /\ t[2] \in jobs'[i].urls
                                      /\ jobs'[i].status = "pending"
  <2>1. CASE Stored /\ Lose(gone)
    BY <1>2, <2>1, StoredRow DEF Lose, TypeOK
  <2>2. CASE UNCHANGED jobs /\ Lose(gone \cup open)
    BY <1>2, <2>2 DEF Lose, TypeOK
  <2> QED
    BY <2>1, <2>2 DEF Cut
<1>4. buf' = buf \/ buf' = Nowhere
  OBVIOUS
<1>5. TypeOK'
  BY <1>1, <1>2, <1>3, <1>4 DEF TypeOK, Zero, Versions, Nowhere
<1>6. WorkersHoldTheirJobs' /\ OneEnqueue' /\ BindingsResolve' /\ NothingOutlivesItsRun'
  BY <1>1 DEF IInv, WorkersHoldTheirJobs, OneEnqueue, BindingsResolve, NothingOutlivesItsRun
<1>7. TargetsHaveWorkers'
  BY <1>1, <1>2, <1>4 DEF TargetsHaveWorkers, Nowhere
<1>8. Clocks'
  BY <1>1 DEF IInv, Clocks
<1>9. ASSUME NEW c \in CDNs, NEW g \in Files, OnItsWay(c, g)
      PROVE  <<c, g>> \in excused' \/ OnItsWay(c, g)'
  <2>1. CASE (g \in events /\ c \in conf.bindings[g]) \/ <<c, g>> \in fanout
    <3>1. <<c, g>> \in Unread \cup fanout
      BY <2>1 DEF Unread, Target
    <3> QED
      BY <1>3, <3>1
  <2>2. CASE g \in buf[c]
    BY <1>3, <2>2 DEF OnItsWay
  <2>3. CASE <<c, g>> \in open
    BY <1>3, <2>3 DEF OnItsWay
  <2>4. CASE \E i \in DOMAIN jobs : /\ jobs[i].cdn = c /\ g \in jobs[i].urls
                                    /\ \/ jobs[i].status = "pending"
                                       \/ jobs[i].status = "in_flight" /\ ~TooEarly(c, g, i)
    <3>1. PICK i \in DOMAIN jobs : /\ jobs[i].cdn = c /\ g \in jobs[i].urls
                                   /\ jobs[i].status \in {"pending", "in_flight"}
      BY <2>4
    <3>2. ~TooEarly(c, g, i)'
      <4>1. work'[c] = 0 /\ i # 0
        BY <1>1, <1>2 DEF TypeOK
      <4> QED
        BY <4>1 DEF TooEarly
    <3> QED
      BY <1>3, <3>1, <3>2 DEF OnItsWay
  <2> QED
    BY <1>9, <2>1, <2>2, <2>3, <2>4 DEF OnItsWay
<1>10. NothingIsForgotten'
  BY <1>1, <1>3, <1>9 DEF IInv, NothingIsForgotten
<1> QED
  BY <1>5, <1>6, <1>7, <1>8, <1>10 DEF IInv

(* Stop and Crash are halts. *)
LEMMA StopIInv ==
  ASSUME IInv, Stop \/ Crash
  PROVE  IInv'
<1> DEFINE Buffered == {t \in Target : t[2] \in buf[t[1]]}
<1>1. Unread \cup fanout \in SUBSET Target /\ Unread \cup fanout \cup Buffered \in SUBSET Target
  BY DEF IInv, TypeOK, Unread
<1>2. CASE Stop
  BY <1>1, <1>2, HaltIInv DEF Stop
<1>3. CASE Crash
  <2>1. \A c \in CDNs, g \in Files : g \in buf[c] => <<c, g>> \in Unread \cup fanout \cup Buffered
    BY DEF Target
  <2>2. /\ phase # "down" /\ phase' = "down" /\ Halt /\ buf' = Nowhere
        /\ Cut(Unread \cup fanout \cup Buffered)
    BY <1>3 DEF Crash
  <2> HIDE DEF Buffered
  <2> QED
    BY <1>1, <2>1, <2>2, HaltIInv
<1> QED
  BY <1>2, <1>3

(* A drain that fails loses the buffers. *)
LEMMA DrainFailsIInv ==
  ASSUME IInv, DrainFails
  PROVE  IInv'
<1> DEFINE gone == open \cup {t \in Target : t[2] \in buf[t[1]]}
<1>1. /\ phase = "draining" /\ open' = {} /\ buf' = Nowhere /\ excused' = excused \cup gone
      /\ UNCHANGED <<phase, conf, version, events, fanout, jobs, work, begun, stops, due, answered>>
  BY DEF DrainFails, Lose, workers
<1>2. TypeOK'
  BY <1>1 DEF IInv, TypeOK, Nowhere
<1>3. \A c \in CDNs, g \in Files : OnItsWay(c, g) => <<c, g>> \in excused' \/ OnItsWay(c, g)'
  <2> TAKE c \in CDNs, g \in Files
  <2>1. g \in buf[c] \/ <<c, g>> \in open => <<c, g>> \in excused'
    BY <1>1 DEF Target
  <2> QED
    BY <1>1, <2>1 DEF OnItsWay, TooEarly
<1>4. NothingIsForgotten'
  BY <1>1, <1>3 DEF IInv, NothingIsForgotten
<1> QED
  BY <1>1, <1>2, <1>4
     DEF IInv, WorkersHoldTheirJobs, OneEnqueue, BindingsResolve, TargetsHaveWorkers,
         NothingOutlivesItsRun, Clocks, Nowhere

(* A drained daemon exits; a stutter changes nothing. *)
LEMMA QuietIInv ==
  ASSUME IInv, Close \/ UNCHANGED vars
  PROVE  IInv'
<1>1. /\ UNCHANGED <<conf, version, events, fanout, buf, open, jobs, work, begun, stops, due,
                     answered, excused>>
      /\ \/ phase' = phase
         \/ phase = "draining" /\ phase' = "down" /\ open = {} /\ buf = Nowhere
  BY DEF Close, vars, memory, workers, history
<1>2. TypeOK' /\ NothingOutlivesItsRun'
  BY <1>1 DEF IInv, TypeOK, NothingOutlivesItsRun, Nowhere
<1>3. NothingIsForgotten'
  BY <1>1 DEF IInv, NothingIsForgotten, OnItsWay, TooEarly
<1> QED
  BY <1>1, <1>2, <1>3
     DEF IInv, WorkersHoldTheirJobs, OneEnqueue, BindingsResolve, TargetsHaveWorkers, Clocks

-----------------------------------------------------------------------------
(* Theorems *)

(* The invariant holds throughout. *)
LEMMA Invariant == Spec => []IInv
<1>1. IInv /\ [Next]_vars => IInv'
  BY StartIInv, ChangeIInv, ReadIInv, SubmitIInv, FlushIInv, EnqueuedIInv, ClaimIInv,
     WorkIInv, StopIInv, DrainFailsIInv, QuietIInv DEF Next
<1> QED
  BY <1>1, InitIInv, PTL DEF Spec

(* Every state of the daemon is well formed; in particular no worker       *)
(* outlives the run that started it (the task group, daemon.py).           *)
THEOREM DaemonTypeCorrect == Spec => []TypeOK
BY Invariant, PTL DEF IInv

(* No target is ever made for a CDN without a worker: load has resolved    *)
(* the bindings, and nothing in memory outlives a configuration.           *)
THEOREM DaemonTargetsHaveWorkers == Spec => []TargetsHaveWorkers
BY Invariant, PTL DEF IInv

(* Every change a running daemon was told of is on its way to every CDN    *)
(* its file is bound to until a purge that began after it is accepted or   *)
(* given up, except for what a stop found in memory or a dry run settled;  *)
(* whatever the interleaving of tasks, retries, stops and configurations.  *)
THEOREM DaemonForgetsNothing == Spec => []NothingIsForgotten
BY Invariant, PTL DEF IInv

(* What becomes of the buffers here is no more than what the batcher may   *)
(* do with them (batcher.py), across stops, crashes and restarts.          *)
THEOREM DaemonKeepsToCoalescer == Spec => KeepsToCoalescer
<1>1. Init => Contract!Init
  BY DEF Init, Nowhere, Contract!Init, Contract!Nowhere
<1>2. ASSUME IInv, [Next]_vars
      PROVE  [Contract!Next \/ Contract!Fail \/ Contract!Die]_Contract!vars
  <2> USE DEF Contract!vars, Contract!Nowhere, Nowhere
  <2>1. CASE \E cfg \in Configs : Start(cfg)
    BY <2>1 DEF Start, memory, Contract!Start, Contract!Next
  <2>2. ASSUME NEW t \in Target, Submit(t) PROVE Contract!Next
    <3>1. t[1] \in CDNs /\ t[2] \in Files
      BY DEF Target
    <3>2. Contract!Add(t[1], t[2])
      BY <2>2 DEF Submit, Contract!Add
    <3> QED
      BY <3>1, <3>2 DEF Contract!Next
  <2>3. ASSUME NEW c \in CDNs, Flush(c) PROVE Contract!Next
    <3>1. Contract!Flush(c)
      BY <2>3 DEF Flush, Contract!Flush, Contract!HandOver
    <3> QED
      BY <3>1 DEF Contract!Next
  <2>4. CASE Enqueued
    BY <2>4 DEF Enqueued, Contract!Stored, Contract!Next
  <2>5. CASE Stop
    BY <2>5 DEF Stop, Halt, Contract!Stop, Contract!Next
  <2>6. CASE Close
    BY <2>6 DEF Close, memory, Contract!Close, Contract!Next
  <2>7. CASE DrainFails
    BY <2>7 DEF DrainFails, Contract!Fail
  <2>8. CASE Crash
    BY <2>8 DEF Crash, Halt, Contract!Die
  <2>9. ASSUME \/ \E f \in Files : Change(f) \/ Read(f)
               \/ \E c \in CDNs : Work(c)
               \/ \E c \in CDNs, i \in DOMAIN jobs : Claim(c, i)
               \/ UNCHANGED vars
        PROVE  UNCHANGED <<buf, open, phase>>
    BY <2>9 DEF Change, Read, Work, Purged, Retry, GiveUp, Settle, Claim, memory, vars
  <2> QED
    BY <1>2, <2>1, <2>2, <2>3, <2>4, <2>5, <2>6, <2>7, <2>8, <2>9 DEF Next
<1> QED
  BY <1>1, <1>2, Invariant, PTL DEF Spec, KeepsToCoalescer, Contract!FaultySpec

-----------------------------------------------------------------------------
(* The ledger of batches *)

(* Where the status of a row may go in one step. *)
Forward(s, t) == s = t \/ s \in {"pending", "in_flight"}

(* No step drops a row or moves it out of done or failed, and new rows are *)
(* pending.                                                                *)
LEMMA RowsGoForward ==
  ASSUME IInv, [Next]_vars
  PROVE  /\ DOMAIN jobs \subseteq DOMAIN jobs' /\ jobs' \in Seq(Job)
         /\ \A i \in DOMAIN jobs : Forward(jobs[i].status, jobs'[i].status)
         /\ \A i \in DOMAIN jobs' : i \in DOMAIN jobs \/ jobs'[i].status = "pending"
<1> DEFINE Goal == /\ DOMAIN jobs \subseteq DOMAIN jobs' /\ jobs' \in Seq(Job)
                   /\ \A i \in DOMAIN jobs : Forward(jobs[i].status, jobs'[i].status)
                   /\ \A i \in DOMAIN jobs' : i \in DOMAIN jobs \/ jobs'[i].status = "pending"
<1>1. TypeOK /\ OneEnqueue /\ jobs \in Seq(Job)
  BY DEF IInv, TypeOK
<1>2. CASE jobs' = jobs
  BY <1>1, <1>2 DEF Forward
<1>3. CASE Stored
  <2>1. PICK c \in CDNs : jobs' = Append(jobs, NewRow(c))
    BY <1>3 DEF Stored
  <2>2. NewRow(c) \in Job /\ NewRow(c).status = "pending"
    BY DEF NewRow, Job
  <2>3. /\ jobs' \in Seq(Job) /\ DOMAIN jobs' = DOMAIN jobs \cup {Len(jobs) + 1}
        /\ \A i \in DOMAIN jobs : jobs'[i] = jobs[i]
        /\ jobs'[Len(jobs) + 1] = NewRow(c)
    BY <1>1, <2>1, <2>2
  <2> QED BY <2>2, <2>3 DEF Forward
<1>4. ASSUME NEW cfg \in Configs, Start(cfg) PROVE Goal
  <2>1. /\ jobs' \in Seq(Job) /\ DOMAIN jobs' = DOMAIN jobs
        /\ \A j \in DOMAIN jobs :
             jobs'[j].status = IF jobs[j].status = "in_flight" THEN "pending" ELSE jobs[j].status
    BY <1>1, <1>4, ResetRows DEF Start
  <2> QED BY <2>1 DEF Forward
<1>5. ASSUME NEW i \in DOMAIN jobs, jobs[i].status \in {"pending", "in_flight"},
             NEW row \in Job, jobs' = [jobs EXCEPT ![i] = row]
      PROVE  Goal
  BY <1>1, <1>5, PutRow DEF Forward
<1>6. ASSUME NEW c \in CDNs, NEW n \in DOMAIN jobs, Claim(c, n) PROVE Goal
  <2>1. PICK row : row = [jobs[n] EXCEPT !.status = "in_flight"]
    OBVIOUS
  <2>2. jobs[n] \in Job
    BY <1>1
  <2>3. row \in Job
    BY <2>1, <2>2, ClaimedRow
  <2> QED BY <1>5, <1>6, <2>1, <2>3 DEF Claim
<1>7. ASSUME NEW c \in CDNs, Work(c) PROVE Goal
  <2>1. /\ work[c] \in DOMAIN jobs /\ jobs[work[c]].status = "in_flight"
        /\ jobs[work[c]] \in Job
    BY <1>1, <1>7 DEF IInv, WorkersHoldTheirJobs, Work, Purged, Retry, GiveUp
  <2>2. Attempts(c) \in Nat
    BY <2>1 DEF Attempts, Job
  <2>3. PICK s \in {"pending", "done", "failed"}, a \in Nat : Settle(c, s, a)
    BY <1>7, <2>2 DEF Work, Purged, Retry, GiveUp
  <2>4. PICK row : row = [jobs[work[c]] EXCEPT !.status = s, !.attempts = a]
    OBVIOUS
  <2>5. row \in Job /\ jobs' = [jobs EXCEPT ![work[c]] = row]
    BY <2>1, <2>3, <2>4 DEF Settle, Job
  <2> QED BY <1>5, <2>1, <2>5
<1>8. \/ Stored \/ jobs' = jobs
      \/ \E cfg \in Configs : Start(cfg)
      \/ \E c \in CDNs : Work(c)
      \/ \E c \in CDNs, n \in DOMAIN jobs : Claim(c, n)
  BY DEF Next, vars, Change, Read, Submit, Flush, Enqueued, Stop, DrainFails, Close, Crash, Cut
<1> QED BY <1>2, <1>3, <1>4, <1>6, <1>7, <1>8

(* What becomes of the rows here is no more than what the queue may do     *)
(* with its batches (queue.py), across workers, stops, restarts and        *)
(* changes of the configuration.                                           *)
THEOREM DaemonKeepsToLedger == Spec => KeepsToLedger
<1>1. Init => Ledger!Init
  <2> SUFFICES ASSUME Init PROVE Ledger!Init
    OBVIOUS
  <2>1. \A i : Entry(i) = "none"
    BY DEF Init, Entry
  <2> QED BY <2>1 DEF Ledger!Init
<1>2. ASSUME IInv, [Next]_vars
      PROVE  [Ledger!Next]_Ledger!vars
  <2>1. \A i \in 1..MaxRows : Entry(i) \in Ledger!State /\ Entry(i)' \in Ledger!State
    BY DEF Entry, Ledger!State
  <2>2. \A i \in DOMAIN jobs : /\ i \in DOMAIN jobs'
                               /\ Forward(jobs[i].status, jobs'[i].status)
                               /\ jobs'[i] \in Job
    BY <1>2, RowsGoForward
  <2>3. \A i \in DOMAIN jobs' : i \in DOMAIN jobs \/ jobs'[i].status = "pending"
    BY <1>2, RowsGoForward
  <2>4. \A i \in 1..MaxRows :
          \/ Entry(i)' = Entry(i)
          \/ Entry(i) = "none" /\ Entry(i)' = "queued"
          \/ Entry(i) = "queued" /\ Entry(i)' \in {"done", "failed"}
    <3> TAKE i \in 1..MaxRows
    <3>1. CASE i \in DOMAIN jobs
      <4>1. Forward(jobs[i].status, jobs'[i].status) /\ i \in DOMAIN jobs'
        BY <2>2, <3>1
      <4> QED BY <3>1, <4>1 DEF Forward, Entry
    <3>2. CASE i \notin DOMAIN jobs
      BY <2>3, <3>2 DEF Entry
    <3> QED BY <3>1, <3>2
  <2> QED BY <2>1, <2>4 DEF Ledger!Next, Ledger!Commit, Ledger!Legal
<1> QED BY <1>1, <1>2, Invariant, PTL DEF Spec, KeepsToLedger, Ledger!Spec
=============================================================================

------------------------------- MODULE Daemon -------------------------------
(***************************************************************************)
(* The daemon end to end (daemon.py, __main__.py, config.py): from the     *)
(* change of a file, through the pipeline task, the batcher, the queue and *)
(* the workers, to a purge its CDN has accepted; across stops, crashes and *)
(* restarts, each possibly with another configuration.                     *)
(*                                                                         *)
(* The components appear here as coarsely as their own modules allow:      *)
(* Watcher hands on an event for every change while it runs; Batcher and   *)
(* JobQueue (which implements PurgeLedger) turn every submitted target     *)
(* into a committed row, or lose it at a stop; a provider keeps to         *)
(* PurgeContract.  A file has one URL per binding, so a purge target is a  *)
(* CDN and a file.                                                         *)
(*                                                                         *)
(* Contents are versions.  A purge is good for the version a file has when *)
(* it begins: a change made while it runs needs another one.               *)
(* Names in _Mutant are faulty variants, as in JobQueue.                   *)
(***************************************************************************)
EXTENDS Integers, Sequences, FiniteSets

CONSTANTS
  Files,        \* under the watch roots, and passed on by the filter
  CDNs,         \* names a configuration may use
  Configs,      \* configurations the operator may start the daemon with
  MaxAttempts,  \* retry.max_attempts
  Contents,     \* bound: versions the files may have
  MaxStops,     \* bound: stops and crashes
  MaxRows       \* bound: rows of the jobs table that KeepsToLedger follows

(* What load and build_providers look at: the keys of `cdns', the CDNs     *)
(* each file's watch is bound to, the entry of each CDN in secrets.yaml,   *)
(* the mode of that file, whether the watch paths exist; and --dry-run.    *)
(* An entry is "partial" if it lacks a key that build_providers indexes:   *)
(* api_token or service_account_file.  None is asked of CloudFront, whose  *)
(* entry is "complete" whatever it holds.                                  *)
Config == [cdns : SUBSET CDNs, bindings : [Files -> SUBSET CDNs],
           secrets : [CDNs -> {"none", "partial", "complete"}],
           private : BOOLEAN, rooted : BOOLEAN, dry_run : BOOLEAN]

ASSUME DaemonAssumption ==
  /\ Configs \subseteq Config
  /\ MaxAttempts \in Int /\ Contents \subseteq [Files -> Nat] /\ MaxStops \in Nat
  /\ MaxRows \in Nat

VARIABLES
  phase,    \* of the process
  conf,     \* configuration of the run under way, or of the last one
  version,  \* of each file: the number of its changes
  events,   \* files with an event the pipeline has yet to get
  fanout,   \* targets of the event at hand that are yet to be submitted
  buf,      \* _buffers
  open,     \* targets of the enqueue() under way: it holds the batcher's lock
  jobs,     \* the jobs table
  work,     \* job each CDN's worker has sent to the provider, 0 if none
  begun,    \* version of each file when that purge began, 0 without one
  stops,    \* number of stops and crashes
  due,      \* history: version of each target a running daemon was told of
  answered, \* history: version its last purge, accepted or given up, was for
  excused   \* history: targets lost at a stop, or settled by a dry run, since

memory  == <<events, fanout, buf, open>>
workers == <<work, begun>>
history == <<due, answered, excused>>
vars    == <<phase, conf, version, events, fanout, buf, open, jobs, work, begun,
             stops, due, answered, excused>>

Target  == CDNs \X Files
Job     == [cdn : CDNs, urls : SUBSET Files, attempts : Nat,
            status : {"pending", "in_flight", "done", "failed"}]
Nowhere == [c \in CDNs |-> {}]
Zero    == [c \in CDNs |-> [f \in Files |-> 0]]

-----------------------------------------------------------------------------
(* main and run: starting *)

(* Bindings are taken on trust. *)
Loads_Mutant(cfg) == /\ cfg.private /\ cfg.rooted
                     /\ \A c \in cfg.cdns : cfg.secrets[c] # "none"
(* load returns cfg; otherwise main prints the ConfigError and exits. *)
Loads(cfg) == /\ cfg.private /\ cfg.rooted
              /\ \A f \in Files : cfg.bindings[f] \subseteq cfg.cdns
              /\ \A c \in cfg.cdns : cfg.secrets[c] # "none"

(* build_providers: a missing key raises only here, after load. *)
Builds(cfg) == \/ cfg.dry_run
               \/ \A c \in cfg.cdns : cfg.secrets[c] = "complete"

(* Rows in flight are left to the workers that had them. *)
Reset_Mutant(row) == row
(* A recovery that takes up the rows given up as failed, too. *)
Revive_Mutant(row) == IF row.status # "done" THEN [row EXCEPT !.status = "pending"] ELSE row
(* reset_in_flight *)
Reset(row) == IF row.status = "in_flight" THEN [row EXCEPT !.status = "pending"] ELSE row

Init ==
  /\ phase = "down"
  /\ conf \in {cfg \in Configs : Loads(cfg) /\ Builds(cfg)}
  /\ version = [f \in Files |-> 0]
  /\ events = {} /\ fanout = {} /\ buf = Nowhere /\ open = {}
  /\ jobs = << >>
  /\ work = [c \in CDNs |-> 0] /\ begun = Zero
  /\ stops = 0
  /\ due = Zero /\ answered = Zero /\ excused = {}

Start(cfg) ==
  /\ phase = "down"
  /\ Loads(cfg)
  /\ jobs' = [i \in DOMAIN jobs |-> Reset(jobs[i])]
  /\ IF Builds(cfg) THEN phase' = "running" /\ conf' = cfg
                    ELSE UNCHANGED <<phase, conf>>
  /\ UNCHANGED <<version, memory, workers, stops, history>>

-----------------------------------------------------------------------------
(* A file is written, moved into place or removed.  Nobody sees it while   *)
(* the daemon does not watch.                                              *)
Change(f) ==
  /\ version' = [version EXCEPT ![f] = @ + 1]
  /\ version' \in Contents
  /\ IF phase = "running"
     THEN /\ events' = events \cup {f}
          /\ due' = [c \in CDNs |-> IF c \in conf.bindings[f]
                                    THEN [due[c] EXCEPT ![f] = version[f] + 1]
                                    ELSE due[c]]
          /\ excused' = excused \ (conf.bindings[f] \X {f})
     ELSE UNCHANGED <<events, due, excused>>
  /\ UNCHANGED <<phase, conf, fanout, buf, open, jobs, workers, stops, answered>>

(* _pipeline: the next event is mapped to its targets... *)
Read(f) ==
  /\ phase = "running"
  /\ fanout = {}
  /\ f \in events
  /\ events' = events \ {f}
  /\ fanout' = conf.bindings[f] \X {f}
  /\ UNCHANGED <<phase, conf, version, buf, open, jobs, workers, stops, history>>

(* A URL that a job holds already is not taken again. *)
Submit_Mutant(t) ==
  /\ phase = "running"
  /\ t \in fanout /\ open = {}
  /\ fanout' = fanout \ {t}
  /\ buf' = IF \E i \in DOMAIN jobs : /\ jobs[i].cdn = t[1] /\ t[2] \in jobs[i].urls
                                      /\ jobs[i].status \in {"pending", "in_flight"}
            THEN buf ELSE [buf EXCEPT ![t[1]] = @ \cup {t[2]}]
  /\ UNCHANGED <<phase, conf, version, events, open, jobs, workers, stops, history>>
(* ... which are submitted one by one, each under the batcher's lock. *)
Submit(t) ==
  /\ phase = "running"
  /\ t \in fanout /\ open = {}
  /\ fanout' = fanout \ {t}
  /\ buf' = [buf EXCEPT ![t[1]] = @ \cup {t[2]}]
  /\ UNCHANGED <<phase, conf, version, events, open, jobs, workers, stops, history>>

(* A flush does not wait for the one under way. *)
Flush_Mutant(c) ==
  /\ phase # "down"
  /\ buf[c] # {}
  /\ open' = {c} \X buf[c]
  /\ buf' = [buf EXCEPT ![c] = {}]
  /\ UNCHANGED <<phase, conf, version, events, fanout, jobs, workers, stops, history>>
(* _flush_locked, for whichever reason, the drain among them. *)
Flush(c) ==
  /\ phase # "down"
  /\ buf[c] # {} /\ open = {}
  /\ open' = {c} \X buf[c]
  /\ buf' = [buf EXCEPT ![c] = {}]
  /\ UNCHANGED <<phase, conf, version, events, fanout, jobs, workers, stops, history>>

NewRow(c) == [cdn |-> c, urls |-> {f \in Files : <<c, f>> \in open},
              attempts |-> 0, status |-> "pending"]

Stored == \E c \in CDNs : /\ {c} \X Files \cap open # {}
                          /\ jobs' = Append(jobs, NewRow(c))

Enqueued ==
  /\ phase # "down"
  /\ Stored
  /\ open' = {}
  /\ UNCHANGED <<phase, conf, version, events, fanout, buf, workers, stops, history>>

-----------------------------------------------------------------------------
(* _queue_worker *)

(* claim_ready, and the call of the provider. *)
Claim(c, i) ==
  /\ phase = "running"
  /\ c \in conf.cdns
  /\ work[c] = 0
  /\ i \in DOMAIN jobs
  /\ jobs[i].cdn = c /\ jobs[i].status = "pending"
  /\ jobs' = [jobs EXCEPT ![i].status = "in_flight"]
  /\ work' = [work EXCEPT ![c] = i]
  /\ begun' = [begun EXCEPT ![c] = version]
  /\ UNCHANGED <<phase, conf, version, memory, stops, history>>

Attempts(c) == jobs[work[c]].attempts

Settle(c, status, attempts) ==
  /\ jobs' = [jobs EXCEPT ![work[c]] = [@ EXCEPT !.status = status, !.attempts = attempts]]
  /\ work' = [work EXCEPT ![c] = 0]
  /\ begun' = [begun EXCEPT ![c] = Zero[c]]
  /\ UNCHANGED <<phase, conf, version, memory, stops, due>>

Answer(c) ==
  answered' = [answered EXCEPT ![c] =
    [f \in Files |-> IF f \in jobs[work[c]].urls THEN begun[c][f] ELSE @[f]]]

(* ok: by PurgeContract the CDN has accepted every URL since the call, but *)
(* a dry run has called nobody.                                            *)
Purged(c) ==
  /\ work[c] # 0
  /\ Settle(c, "done", Attempts(c))
  /\ IF conf.dry_run
     THEN /\ excused' = excused \cup ({c} \X jobs[work[c]].urls)
          /\ UNCHANGED answered
     ELSE Answer(c) /\ UNCHANGED excused

Retry(c) ==
  /\ work[c] # 0 /\ ~conf.dry_run
  /\ Attempts(c) + 1 < MaxAttempts
  /\ Settle(c, "pending", Attempts(c) + 1)
  /\ UNCHANGED <<answered, excused>>

(* A terminal answer, or the last attempt. *)
GiveUp(c) ==
  /\ work[c] # 0 /\ ~conf.dry_run
  /\ Settle(c, "failed", Attempts(c))
  /\ Answer(c)
  /\ UNCHANGED excused

-----------------------------------------------------------------------------
(* Stopping *)

Unread == {t \in Target : t[2] \in events /\ t[1] \in conf.bindings[t[2]]}

Lose(targets) == excused' = excused \cup targets

(* The statement of a cut enqueue() may still be committed by another task. *)
Cut(targets) == \/ Stored /\ Lose(targets)
                \/ UNCHANGED jobs /\ Lose(targets \cup open)

(* The workers are not cancelled. *)
Halt_Mutant == /\ stops < MaxStops
               /\ stops' = stops + 1
               /\ events' = {} /\ fanout' = {} /\ open' = {}
               /\ UNCHANGED <<conf, version, workers, due, answered>>
Halt == /\ stops < MaxStops
        /\ stops' = stops + 1
        /\ events' = {} /\ fanout' = {} /\ open' = {}
        /\ work' = [c \in CDNs |-> 0] /\ begun' = Zero
        /\ UNCHANGED <<conf, version, due, answered>>

(* SIGTERM, or a task of the group that died: every task is cancelled.     *)
(* Events not read and targets not submitted are dropped.                  *)
Stop ==
  /\ phase = "running"
  /\ phase' = "draining"
  /\ Halt
  /\ Cut(Unread \cup fanout)
  /\ UNCHANGED buf

(* Batcher.run, cancelled: flush_all gives up at the first enqueue() that  *)
(* fails, with the buffers of the other CDNs.                              *)
DrainFails ==
  /\ phase = "draining"
  /\ open # {}
  /\ open' = {} /\ buf' = Nowhere
  /\ Lose(open \cup {t \in Target : t[2] \in buf[t[1]]})
  /\ UNCHANGED <<phase, conf, version, events, fanout, jobs, workers, stops, due, answered>>

Close ==
  /\ phase = "draining"
  /\ open = {} /\ buf = Nowhere
  /\ phase' = "down"
  /\ UNCHANGED <<conf, version, memory, jobs, workers, stops, history>>

Crash ==
  /\ phase # "down"
  /\ phase' = "down"
  /\ Halt
  /\ buf' = Nowhere
  /\ Cut(Unread \cup fanout \cup {t \in Target : t[2] \in buf[t[1]]})

-----------------------------------------------------------------------------
Work(c) == Purged(c) \/ Retry(c) \/ GiveUp(c)

Next ==
  \/ \E cfg \in Configs : Start(cfg)
  \/ \E f \in Files : Change(f) \/ Read(f)
  \/ \E t \in Target : Submit(t)
  \/ \E c \in CDNs : Flush(c) \/ Work(c)
  \/ \E c \in CDNs, i \in DOMAIN jobs : Claim(c, i)
  \/ Enqueued \/ Stop \/ DrainFails \/ Close \/ Crash

Spec == Init /\ [][Next]_vars

(* Every component makes progress, as the runs of its own module show, and *)
(* a daemon that is down is started again, in the end with a configuration *)
(* it can run with.                                                        *)
Fairness ==
  /\ WF_vars(\E cfg \in Configs : Builds(cfg) /\ Start(cfg))
  /\ WF_vars(\E f \in Files : Read(f))
  /\ WF_vars(\E t \in Target : Submit(t))
  /\ WF_vars(Enqueued) /\ WF_vars(Close)
  /\ \A c \in CDNs : /\ SF_vars(Flush(c)) /\ WF_vars(Work(c))
                     /\ WF_vars(\E i \in DOMAIN jobs : Claim(c, i))

FairSpec == Spec /\ Fairness

-----------------------------------------------------------------------------
(* Properties *)

Versions == [CDNs -> [Files -> Nat]]

TypeOK ==
  /\ phase \in {"down", "running", "draining"}
  /\ conf \in Config
  /\ version \in [Files -> Nat]
  /\ events \in SUBSET Files
  /\ fanout \in SUBSET Target /\ open \in SUBSET Target
  /\ buf \in [CDNs -> SUBSET Files]
  /\ jobs \in Seq(Job)
  /\ work \in [CDNs -> Nat] /\ (phase = "running" \/ \A c \in CDNs : work[c] = 0)
  /\ begun \in Versions
  /\ stops \in Nat
  /\ due \in Versions /\ answered \in Versions
  /\ excused \in SUBSET Target

(* Targets exist only for CDNs that have a provider, hence a worker: load  *)
(* resolves the bindings.                                                  *)
TargetsHaveWorkers ==
  /\ \A t \in fanout \cup open : t[1] \in conf.cdns
  /\ \A c \in CDNs : buf[c] # {} => c \in conf.cdns

(* The worker of CDN c has begun with job i too early for the change.      *)
TooEarly(c, f, i) == work[c] = i /\ begun[c][f] < due[c][f]

OnItsWay(c, f) ==
  \/ f \in events /\ c \in conf.bindings[f]
  \/ <<c, f>> \in fanout \/ f \in buf[c] \/ <<c, f>> \in open
  \/ \E i \in DOMAIN jobs : /\ jobs[i].cdn = c /\ f \in jobs[i].urls
                            /\ \/ jobs[i].status = "pending"
                               \/ jobs[i].status = "in_flight" /\ ~TooEarly(c, f, i)

(* Every change a running daemon was told of is on its way to every bound  *)
(* CDN until a purge that began after it has been accepted or given up;    *)
(* the exceptions are what a stop found in memory and what a dry run       *)
(* settled.  No coalescing, retry or restart lets a later purge pass for   *)
(* an earlier one or the reverse.                                          *)
NothingIsForgotten ==
  \A c \in CDNs, f \in Files :
    due[c][f] > answered[c][f] => <<c, f>> \in excused \/ OnItsWay(c, f)

(* The batcher as it appears here keeps to what Batcher implements: no     *)
(* stop, crash or restart moves a buffer but as the batcher would.         *)
Contract == INSTANCE Coalescer WITH URLs <- Files
KeepsToCoalescer == Contract!FaultySpec

(* The queue as it appears here keeps to what JobQueue implements, a batch *)
(* being its row: no restart, with whatever configuration, and no worker   *)
(* drops a row, revives one or settles it twice.                           *)
Entry(i) == IF i \notin DOMAIN jobs THEN "none"
            ELSE IF jobs[i].status \in {"done", "failed"} THEN jobs[i].status ELSE "queued"
Ledger == INSTANCE PurgeLedger WITH Flushes   <- 1..MaxRows,
                                    state     <- [i \in 1..MaxRows |-> Entry(i)],
                                    delivered <- {i \in 1..MaxRows : Entry(i) = "done"}
KeepsToLedger == Ledger!Spec

(* Every such change is answered in the end, while its CDN is configured.  *)
EveryChangeIsAnswered ==
  \A c \in CDNs, f \in Files :
    due[c][f] > answered[c][f]
      ~> (due[c][f] <= answered[c][f] \/ <<c, f>> \in excused \/ c \notin conf.cdns)

(* README.md: "The persistent queue survives restart", and a dry run       *)
(* suppresses "only the outbound API call".                                *)
DryRunTakesNothing ==
  [][conf.dry_run => \A i \in DOMAIN jobs : jobs'[i].status # "done" \/ jobs[i].status = "done"]_vars
=============================================================================

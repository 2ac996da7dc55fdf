----------------------------- MODULE GcpProvider -----------------------------
(***************************************************************************)
(* The GCP Cloud CDN provider (providers/gcp.py): purge() fans a batch out *)
(* into one task per URL; each passes the sliding-window limiter, then the *)
(* semaphore, gets a token and makes one invalidateCache request.          *)
(*                                                                         *)
(* A task that raises ends purge() at once, but not the other tasks of its *)
(* gather: they stay in the limiter and the semaphore, where they meet     *)
(* those of the next purge; hence a task is a purge and a URL.             *)
(*                                                                         *)
(* The limiter's lock is held over no suspension, so acquire() is atomic   *)
(* between two sleeps.  Times are ages, i.e. relative to the loop's clock: *)
(* an entry of `calls' or of a history is the time since it was made.      *)
(* The order in which the semaphore admits its waiters is left open.       *)
(* Names in _Mutant are faulty variants, as in JobQueue.                   *)
(***************************************************************************)
EXTENDS Integers, Sequences, FiniteSets

CONSTANTS
  URLs,         \* URLs a batch may hold
  Unsendable,   \* those whose request httpx raises at: undecodable file names
  Quota,        \* quota_per_minute; with 0 the first acquire() would raise
  Window,       \* window_seconds, in ticks
  Concurrency,  \* size of the semaphore
  MaxPurges     \* bound: batches purged

ASSUME GcpAssumption ==
  /\ IsFiniteSet(URLs) /\ Unsendable \subseteq URLs
  /\ Quota \in Nat \ {0} /\ Window \in Nat \ {0} /\ Concurrency \in Nat \ {0}
  /\ MaxPurges \in Nat

VARIABLES
  calls,     \* _calls of the limiter, as ages, oldest first
  pc,        \* where each task is suspended
  timer,     \* what is left of its sleep
  token,     \* state of the credentials
  result,    \* PurgeResult of each finished task
  batch,     \* URLs of the purge() under way, {} if none
  outcome,   \* what the last purge() returned
  purges,    \* number of purges so far
  admitted,  \* history: ages of the admissions of the last Window ticks
  accepted,  \* history: URLs the API accepted for this purge
  refused    \* history: URLs for which it answered with a terminal error

limiter == <<calls, admitted>>
task    == <<pc, timer, result>>
caller  == <<batch, outcome, purges>>
ghosts  == <<accepted, refused>>
vars    == <<calls, pc, timer, token, result, batch, outcome, purges,
             admitted, accepted, refused>>

PC      == {"off", "acquire", "asleep", "admitted", "token", "refresh", "sending", "done"}
Results == {"none", "ok", "retryable", "terminal"}
Task    == (1..MaxPurges) \X URLs

Init ==
  /\ calls = << >>
  /\ pc = [t \in Task |-> "off"]
  /\ timer = [t \in Task |-> 0]
  /\ token = "none"
  /\ result = [t \in Task |-> "none"]
  /\ batch = {}
  /\ outcome = "none"
  /\ purges = 0
  /\ admitted = << >>
  /\ accepted = {}
  /\ refused = {}

Goto(t, to) == pc' = [pc EXCEPT ![t] = to]

(* purge() still waits for the task. *)
Heard(t) == batch # {} /\ t[1] = purges

-----------------------------------------------------------------------------
(* _SlidingWindowLimiter *)

(* What is left of a sequence of ages once popleft has been called while   *)
(* the oldest is no longer within the window.                              *)
IsGone(n, ages, window) == /\ \A i \in 1..n : ages[i] >= window
                           /\ n < Len(ages) => ages[n + 1] < window
Live(ages, window) ==
  LET gone == CHOOSE n \in 0..Len(ages) : IsGone(n, ages, window)
  IN  SubSeq(ages, gone + 1, Len(ages))

(* while _calls[0] <= now - window_seconds *)
Expired == Live(calls, Window)

(* A history one tick later: what leaves the window is forgotten. *)
Recent(ages) == Live([i \in DOMAIN ages |-> ages[i] + 1], Window)

(* A sleeper that waits for a whole window. *)
Delay_Mutant(live) == Window
(* A sign error. *)
Delay_Sign_Mutant(live) == Window + Head(live)
(* oldest + window_seconds - now *)
Delay(live) == Window - Head(live)

(* A sleeper goes on without looking at the window again. *)
Acquire_Mutant(t) ==
  /\ \/ pc[t] = "acquire"
     \/ pc[t] = "asleep" /\ timer[t] = 0
  /\ \/ /\ Len(Expired) < Quota \/ pc[t] = "asleep"
        /\ calls' = Append(Expired, 0)
        /\ admitted' = Append(admitted, 0)
        /\ Goto(t, "admitted")
        /\ UNCHANGED timer
     \/ /\ pc[t] = "acquire"
        /\ Len(Expired) >= Quota
        /\ calls' = Expired
        /\ timer' = [timer EXCEPT ![t] = Delay(Expired)]
        /\ Goto(t, "asleep")
        /\ UNCHANGED admitted
  /\ UNCHANGED <<token, result, caller, ghosts>>
(* acquire: from its call, or from the end of its sleep, to the admission  *)
(* or to the next sleep.                                                   *)
Acquire(t) ==
  /\ \/ pc[t] = "acquire"
     \/ pc[t] = "asleep" /\ timer[t] = 0
  /\ \/ /\ Len(Expired) < Quota
        /\ calls' = Append(Expired, 0)
        /\ admitted' = Append(admitted, 0)
        /\ Goto(t, "admitted")
        /\ UNCHANGED timer
     \/ /\ Len(Expired) >= Quota
        /\ calls' = Expired
        /\ timer' = [timer EXCEPT ![t] = Delay(Expired)]
        /\ Goto(t, "asleep")
        /\ UNCHANGED admitted
  /\ UNCHANGED <<token, result, caller, ghosts>>

-----------------------------------------------------------------------------
(* _purge_one, inside the semaphore *)

Inside == {t \in Task : pc[t] \in {"token", "refresh", "sending"}}

EnterSemaphore(t) ==
  /\ pc[t] = "admitted"
  /\ Cardinality(Inside) < Concurrency
  /\ Goto(t, "token")
  /\ UNCHANGED <<limiter, timer, token, result, caller, ghosts>>

Finish(t, r) ==
  /\ Goto(t, "done")
  /\ result' = IF Heard(t) THEN [result EXCEPT ![t] = r] ELSE result

(* The exception is kept as a result that the verdict does not know. *)
Raise_Mutant(t) ==
  /\ Goto(t, "done")
  /\ UNCHANGED <<batch, outcome>>
(* An exception that is no httpx.HTTPError leaves the task, and ends       *)
(* purge(), which the worker takes for retryable.  If purge() has ended    *)
(* before, nobody hears of it.                                             *)
Raise(t) ==
  /\ Goto(t, "done")
  /\ IF Heard(t) THEN batch' = {} /\ outcome' = "retryable"
                 ELSE UNCHANGED <<batch, outcome>>

Post(t) ==
  \/ /\ t[2] \notin Unsendable
     /\ Goto(t, "sending")
     /\ UNCHANGED <<batch, outcome>>
  \/ t[2] \in Unsendable /\ Raise(t)

(* _get_token finds a token that is good, or starts a refresh in a thread; *)
(* several tasks may refresh at the same time.                             *)
GetToken(t) ==
  /\ pc[t] = "token"
  /\ \/ token = "valid" /\ Post(t)
     \/ token # "valid" /\ Goto(t, "refresh") /\ UNCHANGED <<batch, outcome>>
  /\ UNCHANGED <<limiter, timer, token, result, purges, ghosts>>

(* The refresh ends; the key may be refused, or the token server out of    *)
(* reach, and both come out as a terminal result.                          *)
Refreshed(t) ==
  /\ pc[t] = "refresh"
  /\ token' = "valid"
  /\ Post(t)
  /\ UNCHANGED <<limiter, timer, result, purges, ghosts>>

KeyRefused(t) ==
  /\ pc[t] = "refresh"
  /\ refused' = IF Heard(t) THEN refused \cup {t[2]} ELSE refused
  /\ Finish(t, "terminal")
  /\ UNCHANGED <<limiter, timer, token, caller, accepted>>

TokenServerUnreachable(t) ==
  /\ pc[t] = "refresh"
  /\ Finish(t, "terminal")
  /\ UNCHANGED <<limiter, timer, token, caller, ghosts>>

(* The slot of a task nobody waits for any more is not given back. *)
Answer_Mutant(t, r) ==
  /\ pc[t] = "sending"
  /\ Heard(t)
  /\ Finish(t, r)
  /\ IF r = "terminal" THEN refused' = refused \cup {t[2]} /\ UNCHANGED accepted
                       ELSE accepted' = accepted \cup {t[2]} /\ UNCHANGED refused
  /\ UNCHANGED <<limiter, timer, token, caller>>
(* The request ends: 2xx, a status of _RETRYABLE_STATUS or a transport     *)
(* error (an accepted request among them, its answer lost), or any other   *)
(* status.                                                                 *)
Answer(t, r) ==
  /\ pc[t] = "sending"
  /\ Finish(t, r)
  /\ IF Heard(t)
     THEN \/ r # "terminal" /\ accepted' = accepted \cup {t[2]} /\ UNCHANGED refused
          \/ r = "retryable" /\ UNCHANGED <<accepted, refused>>
          \/ r = "terminal" /\ refused' = refused \cup {t[2]} /\ UNCHANGED accepted
     ELSE UNCHANGED <<accepted, refused>>
  /\ UNCHANGED <<limiter, timer, token, caller>>

(* creds.expired *)
TokenExpires ==
  /\ token = "valid"
  /\ token' = "expired"
  /\ UNCHANGED <<limiter, task, caller, ghosts>>

-----------------------------------------------------------------------------
(* purge *)

(* The task of each URL starts, among those a purge that raised may have   *)
(* left behind; what is done is forgotten.                                 *)
Purge(urls) ==
  /\ batch = {}
  /\ purges < MaxPurges
  /\ purges' = purges + 1
  /\ batch' = urls
  /\ pc' = [t \in Task |-> IF t \in {purges + 1} \X urls THEN "acquire"
                           ELSE IF pc[t] = "done" THEN "off" ELSE pc[t]]
  /\ result' = [t \in Task |-> "none"]
  /\ outcome' = "none"
  /\ accepted' = {}
  /\ refused' = {}
  /\ UNCHANGED <<limiter, timer, token>>

Own == {purges} \X batch

(* A batch that went through in part counts as purged. *)
Verdict_Mutant == IF \E t \in Own : result[t] = "ok" THEN "ok"
                  ELSE IF \E t \in Own : result[t] = "terminal" THEN "terminal"
                  ELSE "retryable"
Verdict == IF \E t \in Own : result[t] = "terminal" THEN "terminal"
           ELSE IF \E t \in Own : result[t] = "retryable" THEN "retryable"
           ELSE "ok"

(* gather has every result. *)
Return ==
  /\ batch # {}
  /\ \A t \in Own : pc[t] = "done"
  /\ outcome' = Verdict
  /\ batch' = {}
  /\ UNCHANGED <<limiter, task, token, purges, ghosts>>

(* The loop's clock moves once every task that can run without it has run. *)
Quiescent ==
  \A t \in Task : /\ pc[t] \notin {"acquire", "token"}
                  /\ pc[t] = "asleep" => timer[t] > 0
                  /\ pc[t] = "admitted" => Cardinality(Inside) = Concurrency
Tick ==
  /\ Quiescent
  /\ calls' = [i \in DOMAIN calls |-> IF calls[i] < Window THEN calls[i] + 1 ELSE Window]
  /\ admitted' = Recent(admitted)
  /\ timer' = [t \in Task |-> IF timer[t] > 0 THEN timer[t] - 1 ELSE 0]
  /\ UNCHANGED <<pc, token, result, caller, ghosts>>

Step(t) ==
  \/ Acquire(t) \/ EnterSemaphore(t) \/ GetToken(t)
  \/ Refreshed(t) \/ KeyRefused(t) \/ TokenServerUnreachable(t)
  \/ \E r \in {"ok", "retryable", "terminal"} : Answer(t, r)

Next ==
  \/ \E urls \in (SUBSET URLs) \ {{}} : Purge(urls)
  \/ \E t \in Task : Step(t)
  \/ Return
  \/ TokenExpires
  \/ Tick

Spec == Init /\ [][Next]_vars

(* Tasks are scheduled, requests and refreshes end (httpx and google-auth  *)
(* time out), time passes.                                                 *)
FairSpec == /\ Spec
            /\ \A t \in Task : WF_vars(Step(t))
            /\ WF_vars(Return) /\ WF_vars(Tick)

-----------------------------------------------------------------------------
(* Properties *)

Ages == Seq(0..Window)

TypeOK ==
  /\ calls \in Ages /\ admitted \in Ages
  /\ pc \in [Task -> PC]
  /\ timer \in [Task -> 0..Window]
  /\ token \in {"none", "valid", "expired"}
  /\ result \in [Task -> Results]
  /\ batch \in SUBSET URLs
  /\ outcome \in Results
  /\ purges \in 0..MaxPurges
  /\ accepted \in SUBSET URLs /\ refused \in SUBSET URLs

(* The limiter admits at most `capacity' calls per rolling window, though  *)
(* all its sleepers wake at the same moment.                               *)
AdmissionsAreBounded == Len(admitted) <= Quota

(* It holds nobody back for longer than the window is full: a task sleeps  *)
(* only while `capacity' calls have been admitted in the last window.      *)
NoNeedlessWait ==
  \A t \in Task : pc[t] = "asleep" /\ timer[t] > 0 => Len(admitted) = Quota

(* purge() reports ok only if the API accepted every URL of the batch, and *)
(* a terminal error only if no retry could have helped one of them.  The   *)
(* worker marks the job done, or gives it up, on that word.                *)
OkMeansAccepted ==
  outcome = "ok" =>
    \A t \in Task : t[1] = purges /\ pc[t] # "off" => t[2] \in accepted

(* The worker's view of the provider, who asks no more of it. *)
Contract == INSTANCE PurgeContract
ImplementsContract == Contract!Spec

(* Every purge() returns: nobody sleeps in the limiter or waits for the    *)
(* semaphore forever, though the tasks a purge that raised has left behind *)
(* take admissions and slots from the next.                                *)
PurgeReturns == batch # {} ~> batch = {}

(* docs/cdn-providers.md: the provider "paces itself client-side via       *)
(* quota_per_minute to stay under this cap" of requests per minute, so no  *)
(* more than these are ever ready to be sent at the same time.             *)
RequestsAreBounded ==
  Cardinality({t \in Task : pc[t] \in {"admitted", "token", "refresh"}}) <= Quota

(* docs/cdn-providers.md lists transport errors among the retryable ones;  *)
(* a terminal outcome means that the API or the key refused a URL.         *)
TerminalMeansRefused == outcome = "terminal" => refused # {}
=============================================================================

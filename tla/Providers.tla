------------------------------ MODULE Providers ------------------------------
(***************************************************************************)
(* The Fastly provider (providers/fastly.py: one request per URL, and with *)
(* purge_all_service_domains one per URL and domain of the service, which  *)
(* it discovers at first use) and the CloudFront provider                  *)
(* (providers/cloudfront.py: one request for the paths of the whole        *)
(* batch).                                                                 *)
(*                                                                         *)
(* A provider has one caller, the worker of its CDN, so the lock around    *)
(* the discovery is never contended.  A request is the set of URLs it      *)
(* purges.  A task of gather that raises ends purge() at once, but not the *)
(* other tasks: they go on, hold slots of the semaphore, and meet those of *)
(* the next purge; hence a task carries the number of its purge.           *)
(* Names in _Mutant are faulty variants, as in JobQueue.                   *)
(***************************************************************************)
EXTENDS Integers, FiniteSets

CONSTANTS
  Hosts,        \* hosts of URL prefixes and domains of the service
  Paths,
  URLs,         \* URLs a batch may hold: what the bindings' prefixes make
  Unsendable,   \* paths httpx or botocore raise at: undecodable file names
  Versions,     \* versions of the Fastly service
  DomainsOf,    \* domains of each; an active version is never edited
  Kinds,        \* of provider, among those below
  Concurrency,  \* size of Fastly's semaphore
  MaxPurges,    \* bound: batches purged
  MaxChanges    \* bound: activations of another version

ASSUME ProvidersAssumption ==
  /\ URLs \subseteq Hosts \X Paths /\ Unsendable \subseteq Paths
  /\ IsFiniteSet(Hosts) /\ IsFiniteSet(URLs)
  /\ DomainsOf \in [Versions -> SUBSET Hosts]
  /\ 0 \notin Versions
  /\ Kinds \subseteq {"fastly", "fastly_all", "cloudfront"}
  /\ Concurrency \in Nat \ {0} /\ MaxPurges \in Nat /\ MaxChanges \in Nat

VARIABLES
  kind,       \* type of the CDN, and its purge_all_service_domains
  pc,         \* where purge() is suspended
  batch,      \* URLs of the last purge()
  version,    \* active version as the discovery under way learned it, or 0
  domains,    \* _domains: at most one set, none before the discovery
  waiting,    \* tasks waiting for the semaphore
  sending,    \* tasks with a request under way
  answers,    \* results of the finished tasks of this purge
  outcome,    \* what the worker makes of the last purge()
  purges,     \* number of purges so far
  active,     \* active version of the service, 0 if none
  changes,    \* number of activations so far
  since,      \* history: hosts served ever since the last discovery began
  accepted,   \* history: URLs the CDN accepted in this purge
  refused     \* history: the CDN refused something of this purge

vars == <<kind, pc, batch, version, domains, waiting, sending, answers,
          outcome, purges, active, changes, since, accepted, refused>>
service == <<active, changes>>
tasks   == <<waiting, sending, answers>>

Results == {"ok", "retryable", "terminal"}
Task    == (1..MaxPurges) \X SUBSET (Hosts \X Paths)
Served  == IF active = 0 THEN {} ELSE DomainsOf[active]

Init ==
  /\ kind \in Kinds                  \* build_providers
  /\ active \in Versions \cup {0}
  /\ pc = "idle" /\ batch = {} /\ version = 0 /\ domains = {}
  /\ waiting = {} /\ sending = {} /\ answers = {}
  /\ outcome = "none" /\ purges = 0 /\ changes = 0
  /\ since = {} /\ accepted = {} /\ refused = FALSE

-----------------------------------------------------------------------------
(* Requests *)

(* Each URL, and a copy per domain. *)
Expanded(urls, hosts) == urls \cup {<<h, u[2]>> : h \in hosts, u \in urls}

(* CloudFront strips the hosts; an invalidated path is gone from them all. *)
Requests(urls, hosts) ==
  IF kind = "cloudfront" THEN {Hosts \X {u[2] : u \in urls}}
                         ELSE {{u} : u \in Expanded(urls, hosts)}

Send(n, urls, hosts) ==
  /\ pc' = "purging"
  /\ waiting' = waiting \cup ({n} \X Requests(urls, hosts))
  /\ answers' = {}
  /\ UNCHANGED sending

Ended(r) == pc' = "idle" /\ outcome' = r

Purge(urls) ==
  /\ pc = "idle" /\ purges < MaxPurges
  /\ purges' = purges + 1
  /\ batch' = urls
  /\ outcome' = "none" /\ accepted' = {} /\ refused' = FALSE
  /\ IF kind = "fastly_all" /\ domains = {}
     THEN pc' = "service" /\ UNCHANGED tasks
     ELSE Send(purges + 1, urls, UNION domains)
  /\ UNCHANGED <<kind, version, domains, service, since>>

-----------------------------------------------------------------------------
(* _ensure_domains *)

DiscoveryFails(r) ==
  /\ Ended(r)
  /\ refused' = (r = "terminal")
  /\ version' = 0
  /\ UNCHANGED domains

(* A service without an active version is taken for one. *)
GotService_Mutant ==
  /\ pc = "service"
  /\ \/ /\ version' = active
        /\ since' = Served
        /\ pc' = "domains"
        /\ UNCHANGED <<outcome, domains, refused>>
     \/ \E r \in {"retryable", "terminal"} : DiscoveryFails(r) /\ UNCHANGED since
  /\ UNCHANGED <<kind, batch, tasks, purges, service, accepted>>
(* The answer to GET /service: the active version, if there is one, or an  *)
(* error.  A 2xx that is not JSON raises, which the worker takes for       *)
(* retryable.                                                              *)
GotService ==
  /\ pc = "service"
  /\ \/ /\ active # 0
        /\ version' = active
        /\ since' = Served
        /\ pc' = "domains"
        /\ UNCHANGED <<outcome, domains, refused>>
     \/ active = 0 /\ DiscoveryFails("terminal") /\ UNCHANGED since
     \/ \E r \in {"retryable", "terminal"} : DiscoveryFails(r) /\ UNCHANGED since
  /\ UNCHANGED <<kind, batch, tasks, purges, service, accepted>>

(* _domains is set before the answer is known to be good. *)
GotDomains_Mutant ==
  /\ pc = "domains"
  /\ \/ /\ domains' = {DomainsOf[version]}
        /\ Send(purges, batch, DomainsOf[version])
        /\ version' = 0
        /\ UNCHANGED <<outcome, refused>>
     \/ \E r \in {"retryable", "terminal"} :
          Ended(r) /\ refused' = (r = "terminal") /\ version' = 0
          /\ domains' = {{}} /\ UNCHANGED tasks
  /\ UNCHANGED <<kind, batch, purges, service, since, accepted>>
(* The answer to GET .../domain: of that version, active still or not.     *)
(* After an error the next purge discovers anew.                           *)
GotDomains ==
  /\ pc = "domains"
  /\ \/ /\ domains' = {DomainsOf[version]}
        /\ Send(purges, batch, DomainsOf[version])
        /\ version' = 0
        /\ UNCHANGED <<outcome, refused>>
     \/ \E r \in {"retryable", "terminal"} : DiscoveryFails(r) /\ UNCHANGED tasks
  /\ UNCHANGED <<kind, batch, purges, service, since, accepted>>

-----------------------------------------------------------------------------
(* _purge_one, and CloudFront's call *)

Live(t) == pc = "purging" /\ t[1] = purges
Slot    == Cardinality(sending) < Concurrency

Enter(t) ==
  /\ t \in waiting /\ Slot
  /\ \A u \in t[2] : u[2] \notin Unsendable
  /\ waiting' = waiting \ {t}
  /\ sending' = sending \cup {t}
  /\ UNCHANGED <<kind, pc, batch, version, domains, answers, outcome, purges,
                 service, since, accepted, refused>>

(* The request cannot even be built.  purge() raises, or returns the same  *)
(* verdict (CloudFront); a task of an earlier purge raises unheard.        *)
Raise(t) ==
  /\ t \in waiting /\ Slot
  /\ \E u \in t[2] : u[2] \in Unsendable
  /\ waiting' = waiting \ {t}
  /\ IF Live(t) THEN Ended("retryable") ELSE UNCHANGED <<pc, outcome>>
  /\ UNCHANGED <<kind, batch, version, domains, sending, answers, purges,
                 service, since, accepted, refused>>

(* The slot of a task nobody waits for any more is not given back. *)
Answer_Mutant(t, r) ==
  /\ t \in sending
  /\ Live(t)
  /\ sending' = sending \ {t}
  /\ answers' = answers \cup {r}
  /\ IF r = "terminal" THEN refused' = TRUE /\ UNCHANGED accepted
                       ELSE accepted' = accepted \cup t[2] /\ UNCHANGED refused
  /\ UNCHANGED <<kind, pc, batch, version, domains, waiting, outcome, purges,
                 service, since>>
(* 2xx; a retryable status or code or a transport error, after the request *)
(* was accepted or not; any other status or code, a CloudFront 5xx among   *)
(* them, which is no refusal.                                              *)
Answer(t, r) ==
  /\ t \in sending
  /\ sending' = sending \ {t}
  /\ IF Live(t)
     THEN /\ answers' = answers \cup {r}
          /\ \/ r # "terminal" /\ accepted' = accepted \cup t[2] /\ UNCHANGED refused
             \/ r = "retryable" /\ UNCHANGED <<accepted, refused>>
             \/ r = "terminal" /\ refused' = TRUE /\ UNCHANGED accepted
             \/ r = "terminal" /\ kind = "cloudfront" /\ UNCHANGED <<accepted, refused>>
     ELSE UNCHANGED <<answers, accepted, refused>>
  /\ UNCHANGED <<kind, pc, batch, version, domains, waiting, outcome, purges,
                 service, since>>

(* What went through in part counts as purged. *)
Verdict_Mutant == IF "ok" \in answers THEN "ok"
                  ELSE IF "terminal" \in answers THEN "terminal" ELSE "retryable"
(* Every failure is final. *)
Verdict_Final_Mutant == IF answers \subseteq {"ok"} THEN "ok" ELSE "terminal"
Verdict == IF "terminal" \in answers THEN "terminal"
           ELSE IF "retryable" \in answers THEN "retryable" ELSE "ok"

Return ==
  /\ pc = "purging"
  /\ \A t \in waiting \cup sending : t[1] # purges
  /\ Ended(Verdict)
  /\ UNCHANGED <<kind, batch, version, domains, tasks, purges, service,
                 since, accepted, refused>>

-----------------------------------------------------------------------------
(* The operator activates another version of the service. *)
Activate(v) ==
  /\ changes < MaxChanges
  /\ v # active
  /\ changes' = changes + 1
  /\ active' = v
  /\ since' = since \cap DomainsOf[v]
  /\ UNCHANGED <<kind, pc, batch, version, domains, tasks, outcome, purges,
                 accepted, refused>>

(* The daemon is restarted: build_providers makes a provider that knows    *)
(* nothing.                                                                *)
Restart ==
  /\ pc' = "idle" /\ batch' = {} /\ version' = 0 /\ domains' = {}
  /\ waiting' = {} /\ sending' = {} /\ answers' = {}
  /\ outcome' = "none" /\ since' = {} /\ accepted' = {} /\ refused' = FALSE
  /\ UNCHANGED <<kind, purges, service>>

Progress == \/ GotService \/ GotDomains \/ Return
            \/ \E t \in waiting : Enter(t) \/ Raise(t)
            \/ \E t \in sending, r \in Results : Answer(t, r)

Next ==
  \/ \E urls \in (SUBSET URLs) \ {{}} : Purge(urls)
  \/ Progress
  \/ \E v \in Versions : Activate(v)
  \/ Restart

Spec == Init /\ [][Next]_vars

(* Tasks are scheduled and requests end: httpx and botocore time out. *)
FairSpec == Spec /\ WF_vars(Progress)

-----------------------------------------------------------------------------
(* Properties *)

TypeOK ==
  /\ kind \in Kinds
  /\ pc \in {"idle", "service", "domains", "purging"}
  /\ batch \in SUBSET URLs
  /\ version \in Versions \cup {0} /\ (pc = "domains" => version # 0)
  /\ domains \in SUBSET SUBSET Hosts
  /\ waiting \in SUBSET Task /\ sending \in SUBSET Task
  /\ answers \in SUBSET Results /\ outcome \in Results \cup {"none"}
  /\ purges \in 0..MaxPurges
  /\ active \in Versions \cup {0} /\ changes \in 0..MaxChanges
  /\ since \in SUBSET Hosts
  /\ accepted \in SUBSET (Hosts \X Paths) /\ refused \in BOOLEAN

(* purge() reports ok only if the CDN accepted every URL of the batch, on  *)
(* every domain discovered: the worker marks the job done on that word.    *)
Contract == INSTANCE PurgeContract WITH
  batch    <- IF pc = "idle" THEN {} ELSE batch,
  accepted <- {u \in URLs : Expanded({u}, UNION domains) \subseteq accepted}
ImplementsContract == Contract!Spec

(* With purge_all_service_domains an ok purge has reached every host the   *)
(* service has served since the discovery began, though the discovery      *)
(* takes two requests, may fail between them, and its result is cached.    *)
ServedHostsArePurged ==
  kind = "fastly_all" /\ outcome = "ok" =>
    \A u \in batch, h \in since : <<h, u[2]>> \in accepted

(* Fastly: a batch is given up only if the CDN refused something of it, be *)
(* it a request of the discovery or a service that has no active version.  *)
TerminalMeansRefused == kind # "cloudfront" /\ outcome = "terminal" => refused

(* Every purge() returns: tasks left over from a purge that raised do not  *)
(* keep the semaphore from the next one.                                   *)
PurgeReturns == pc # "idle" ~> pc = "idle"

(* fastly.py: "one filesystem event flushes the cache on every host the    *)
(* service serves".                                                        *)
EveryServedHostIsPurged ==
  kind = "fastly_all" /\ outcome = "ok" =>
    \A u \in batch, h \in Served : <<h, u[2]>> \in accepted
==============================================================================

--------------------------- MODULE ProvidersProofs ---------------------------
(***************************************************************************)
(* Theorems about Providers, for every set of hosts, paths and service     *)
(* versions, every batch and any number of purges and activations.         *)
(***************************************************************************)
EXTENDS Providers, TLAPS

-----------------------------------------------------------------------------
(* The inductive invariant *)

(* A purge under way has a batch and a number. *)
PurgesAreNumbered == pc # "idle" => /\ batch # {} /\ purges \in 1..MaxPurges
                                    /\ outcome = "none"

(* While the domains are looked for nothing has been asked of the CDN, and *)
(* whatever the service has served since is among what will be found.      *)
DiscoveryComesFirst ==
  /\ pc \in {"service", "domains"} => domains = {} /\ accepted = {}
  /\ pc = "domains" => since \subseteq DomainsOf[version]
  /\ domains # {} => since \subseteq UNION domains
  /\ pc = "purging" /\ kind = "fastly_all" => domains # {}

(* The CDN has accepted u on every host that is known. *)
Done(u) == Expanded({u}, UNION domains) \subseteq accepted

(* No request of the purge under way gets lost: its task is still there,   *)
(* or the answers tell.                                                    *)
RequestsAreTracked ==
  pc = "purging" =>
    /\ \A q \in Requests(batch, UNION domains) :
         \/ <<purges, q>> \in waiting \cup sending
         \/ answers \subseteq {"ok"} => q \subseteq accepted
    /\ "terminal" \in answers /\ kind # "cloudfront" => refused

(* A purge that ended well has reached every URL of its batch.             *)
OkMeansDone == outcome = "ok" => /\ \A u \in batch : Done(u)
                                 /\ kind = "fastly_all" => domains # {}

IInv == /\ TypeOK /\ PurgesAreNumbered /\ DiscoveryComesFirst
        /\ RequestsAreTracked /\ OkMeansDone /\ TerminalMeansRefused

-----------------------------------------------------------------------------
(* Lemmas about requests *)

(* The hosts known are hosts. *)
LEMMA KnownHosts ==
  ASSUME TypeOK
  PROVE  UNION domains \subseteq Hosts /\ batch \subseteq Hosts \X Paths
BY ProvidersAssumption DEF TypeOK

(* The requests of a batch are sets of URLs, and together they purge every *)
(* URL on every host.                                                      *)
LEMMA RequestsCover ==
  ASSUME NEW urls \in SUBSET (Hosts \X Paths), NEW hosts \in SUBSET Hosts
  PROVE  /\ Requests(urls, hosts) \subseteq SUBSET (Hosts \X Paths)
         /\ \A u \in urls : \A v \in Expanded({u}, hosts) :
              \E q \in Requests(urls, hosts) : v \in q
<1>1. \A u \in urls : u = <<u[1], u[2]>> /\ u[1] \in Hosts /\ u[2] \in Paths
  OBVIOUS
<1>2. CASE kind = "cloudfront"
  <2>1. Requests(urls, hosts) = {Hosts \X {u[2] : u \in urls}}
    BY <1>2 DEF Requests
  <2>2. ASSUME NEW u \in urls, NEW v \in Expanded({u}, hosts)
        PROVE  v \in Hosts \X {w[2] : w \in urls}
    BY <1>1 DEF Expanded
  <2> QED
    BY <1>1, <2>1, <2>2
<1>3. CASE kind # "cloudfront"
  <2>1. Requests(urls, hosts) = {{u} : u \in Expanded(urls, hosts)}
    BY <1>3 DEF Requests
  <2>2. Expanded(urls, hosts) \subseteq Hosts \X Paths
    BY <1>1 DEF Expanded
  <2>3. ASSUME NEW u \in urls, NEW v \in Expanded({u}, hosts)
        PROVE  v \in Expanded(urls, hosts)
    BY DEF Expanded
  <2> QED
    BY <2>1, <2>2, <2>3
<1> QED
  BY <1>2, <1>3

(* Once every task of the purge is over, an ok verdict means that the      *)
(* whole batch is done, and a terminal one that something was refused.     *)
LEMMA VerdictIsRight ==
  ASSUME IInv, pc = "purging", \A t \in waiting \cup sending : t[1] # purges
  PROVE  /\ Verdict \in Results
         /\ Verdict = "ok" => \A u \in batch : Done(u)
         /\ Verdict = "terminal" /\ kind # "cloudfront" => refused
<1>1. Verdict \in Results
  BY DEF Verdict, Results
<1>2. ASSUME Verdict = "ok", NEW u \in batch
      PROVE  Done(u)
  <2>1. answers \subseteq {"ok"}
    BY <1>2 DEF IInv, TypeOK, Results, Verdict
  <2>2. \A q \in Requests(batch, UNION domains) : q \subseteq accepted
    BY <2>1 DEF IInv, RequestsAreTracked
  <2>3. batch \in SUBSET (Hosts \X Paths) /\ UNION domains \in SUBSET Hosts
    BY KnownHosts DEF IInv
  <2>4. \A v \in Expanded({u}, UNION domains) : \E q \in Requests(batch, UNION domains) : v \in q
    BY <1>2, <2>3, RequestsCover
  <2> QED
    BY <2>2, <2>4 DEF Done
<1>3. Verdict = "terminal" => "terminal" \in answers
  BY DEF Verdict
<1> QED
  BY <1>1, <1>2, <1>3 DEF IInv, RequestsAreTracked

-----------------------------------------------------------------------------
(* Each action preserves the invariant *)

(* The tasks sent out cover the requests of the batch. *)
LEMMA SentIsTracked ==
  ASSUME NEW n, NEW urls, NEW hosts, Send(n, urls, hosts)
  PROVE  /\ pc' = "purging" /\ answers' = {} /\ UNCHANGED sending
         /\ waiting' = waiting \cup ({n} \X Requests(urls, hosts))
         /\ \A q \in Requests(urls, hosts) : <<n, q>> \in waiting'
BY DEF Send

(* Tasks of a purge with a number are tasks. *)
LEMMA TasksAreTasks ==
  ASSUME TypeOK, NEW n \in 1..MaxPurges, NEW urls \in SUBSET URLs, NEW hosts \in SUBSET Hosts
  PROVE  {n} \X Requests(urls, hosts) \subseteq Task
<1>1. urls \in SUBSET (Hosts \X Paths)
  BY ProvidersAssumption
<1>2. Requests(urls, hosts) \subseteq SUBSET (Hosts \X Paths)
  BY <1>1, RequestsCover
<1> QED
  BY <1>2 DEF Task

(* A purge begins: with the discovery, or with its requests. *)
LEMMA PurgeIInv ==
  ASSUME IInv, NEW urls \in (SUBSET URLs) \ {{}}, Purge(urls)
  PROVE  IInv'
<1>1. /\ pc = "idle" /\ purges' = purges + 1 /\ batch' = urls
      /\ outcome' = "none" /\ accepted' = {} /\ refused' = FALSE
      /\ UNCHANGED <<kind, version, domains, active, changes, since>>
      /\ purges < MaxPurges
  BY DEF Purge, service
<1>2. purges \in Nat /\ purges + 1 \in 1..MaxPurges /\ purges + 1 \in 0..MaxPurges /\ TypeOK
  BY <1>1, ProvidersAssumption DEF IInv, TypeOK
<1>3. CASE /\ kind = "fastly_all" /\ domains = {} /\ pc' = "service" /\ UNCHANGED tasks
  <2>1. answers' = answers /\ UNCHANGED <<waiting, sending>>
    BY <1>3 DEF tasks
  <2>2. TypeOK'
    BY <1>1, <1>2, <1>3, <2>1 DEF TypeOK
  <2> QED
    BY <1>1, <1>2, <1>3, <2>1, <2>2
       DEF IInv, PurgesAreNumbered, DiscoveryComesFirst, RequestsAreTracked, OkMeansDone,
           TerminalMeansRefused
<1>4. CASE /\ ~(kind = "fastly_all" /\ domains = {})
           /\ Send(purges + 1, urls, UNION domains)
  <2>1. /\ pc' = "purging" /\ answers' = {} /\ UNCHANGED sending
        /\ waiting' = waiting \cup ({purges + 1} \X Requests(urls, UNION domains))
        /\ \A q \in Requests(urls, UNION domains) : <<purges + 1, q>> \in waiting'
    BY <1>4, SentIsTracked
  <2>2. {purges + 1} \X Requests(urls, UNION domains) \subseteq Task
    BY <1>2, KnownHosts, TasksAreTasks
  <2>3. TypeOK'
    BY <1>1, <1>2, <2>1, <2>2 DEF TypeOK
  <2>4. RequestsAreTracked'
    <3>1. Requests(batch, UNION domains)' = Requests(urls, UNION domains)
      BY <1>1 DEF Requests, Expanded
    <3> QED
      BY <1>1, <2>1, <3>1 DEF RequestsAreTracked
  <2> QED
    BY <1>1, <1>2, <1>4, <2>1, <2>3, <2>4
       DEF IInv, PurgesAreNumbered, DiscoveryComesFirst, OkMeansDone, TerminalMeansRefused
<1> QED
  BY <1>3, <1>4 DEF Purge

(* A discovery that fails ends the purge, and says so. *)
LEMMA DiscoveryFailsIInv ==
  ASSUME IInv, pc \in {"service", "domains"}, NEW r \in {"retryable", "terminal"},
         DiscoveryFails(r),
         UNCHANGED <<kind, batch, waiting, sending, answers, purges, active, changes, since, accepted>>
  PROVE  IInv'
<1>1. pc' = "idle" /\ outcome' = r /\ refused' = (r = "terminal") /\ version' = 0 /\ UNCHANGED domains
  BY DEF DiscoveryFails, Ended
<1>2. TypeOK'
  BY <1>1 DEF IInv, TypeOK, Results
<1> QED
  BY <1>1, <1>2 DEF IInv, PurgesAreNumbered, DiscoveryComesFirst, RequestsAreTracked,
                    OkMeansDone, TerminalMeansRefused

(* The active version is known. *)
LEMMA GotServiceIInv ==
  ASSUME IInv, GotService
  PROVE  IInv'
<1>1. /\ pc = "service"
      /\ UNCHANGED <<kind, batch, waiting, sending, answers, purges, active, changes, accepted>>
  BY DEF GotService, tasks, service
<1>2. CASE /\ active # 0 /\ version' = active /\ since' = Served /\ pc' = "domains"
           /\ UNCHANGED <<outcome, domains, refused>>
  <2>1. active \in Versions /\ since' = DomainsOf[active] /\ since' \in SUBSET Hosts
    BY <1>2, ProvidersAssumption DEF IInv, TypeOK, Served
  <2>2. TypeOK'
    BY <1>1, <1>2, <2>1 DEF IInv, TypeOK
  <2> QED
    BY <1>1, <1>2, <2>1, <2>2
       DEF IInv, PurgesAreNumbered, DiscoveryComesFirst, RequestsAreTracked, OkMeansDone,
           TerminalMeansRefused
<1>3. ASSUME NEW r \in {"retryable", "terminal"}, DiscoveryFails(r), UNCHANGED since
      PROVE  IInv'
  BY <1>1, <1>3, DiscoveryFailsIInv
<1> QED
  BY <1>2, <1>3 DEF GotService

(* The domains are known, and every request goes to all of them. *)
LEMMA GotDomainsIInv ==
  ASSUME IInv, GotDomains
  PROVE  IInv'
<1>1. /\ pc = "domains" /\ UNCHANGED <<kind, batch, purges, active, changes, since, accepted>>
  BY DEF GotDomains, service
<1>2. CASE /\ domains' = {DomainsOf[version]} /\ Send(purges, batch, DomainsOf[version])
           /\ version' = 0 /\ UNCHANGED <<outcome, refused>>
  <2>0. PICK hosts : hosts = DomainsOf[version]
    OBVIOUS
  <2>1. version \in Versions /\ hosts \in SUBSET Hosts /\ UNION domains' = hosts
        /\ purges \in 1..MaxPurges /\ TypeOK /\ batch \in SUBSET URLs
    BY <1>1, <1>2, <2>0, ProvidersAssumption DEF IInv, TypeOK, PurgesAreNumbered
  <2>2. /\ pc' = "purging" /\ answers' = {} /\ UNCHANGED sending
        /\ waiting' = waiting \cup ({purges} \X Requests(batch, hosts))
        /\ \A q \in Requests(batch, hosts) : <<purges, q>> \in waiting'
    BY <1>2, <2>0, SentIsTracked
  <2>3. {purges} \X Requests(batch, hosts) \subseteq Task
    BY <2>1, TasksAreTasks
  <2>4. TypeOK'
    BY <1>1, <1>2, <2>1, <2>2, <2>3 DEF TypeOK
  <2>5. RequestsAreTracked'
    <3>0. UNION domains' = hosts /\ batch' = batch /\ kind' = kind
      BY <1>1, <2>1
    <3>1. Requests(batch, UNION domains)' = Requests(batch, hosts)
      <4>1. Expanded(batch, UNION domains)' = Expanded(batch, hosts)
        BY <3>0 DEF Expanded
      <4>2. {u[2] : u \in batch}' = {u[2] : u \in batch}
        BY <3>0
      <4> QED
        BY <3>0, <4>1, <4>2 DEF Requests
    <3> QED
      BY <1>1, <2>2, <3>1 DEF RequestsAreTracked
  <2> QED
    BY <1>1, <1>2, <2>0, <2>1, <2>2, <2>4, <2>5
       DEF IInv, PurgesAreNumbered, DiscoveryComesFirst, OkMeansDone, TerminalMeansRefused
<1>3. ASSUME NEW r \in {"retryable", "terminal"}, DiscoveryFails(r), UNCHANGED tasks
      PROVE  IInv'
  BY <1>1, <1>3, DiscoveryFailsIInv DEF tasks
<1> QED
  BY <1>2, <1>3 DEF GotDomains

(* A task that enters the semaphore is still there. *)
LEMMA EnterIInv ==
  ASSUME IInv, NEW t \in waiting, Enter(t)
  PROVE  IInv'
<1>1. /\ waiting' = waiting \ {t} /\ sending' = sending \cup {t}
      /\ UNCHANGED <<kind, pc, batch, version, domains, answers, outcome, purges, active,
                     changes, since, accepted, refused>>
  BY DEF Enter, service
<1>2. TypeOK' /\ waiting' \cup sending' = waiting \cup sending
  BY <1>1 DEF IInv, TypeOK
<1>3. RequestsAreTracked'
  BY <1>1, <1>2 DEF IInv, RequestsAreTracked, Requests, Expanded
<1> QED
  BY <1>1, <1>2, <1>3 DEF IInv, PurgesAreNumbered, DiscoveryComesFirst, OkMeansDone,
                          TerminalMeansRefused, Done, Expanded

(* A request that cannot be built ends its purge, if that still runs; the  *)
(* tasks of a purge that runs are untouched by one that does not.          *)
LEMMA RaiseIInv ==
  ASSUME IInv, NEW t \in waiting, Raise(t)
  PROVE  IInv'
<1>1. /\ waiting' = waiting \ {t}
      /\ UNCHANGED <<kind, batch, version, domains, sending, answers, purges, active,
                     changes, since, accepted, refused>>
      /\ IF Live(t) THEN pc' = "idle" /\ outcome' = "retryable" ELSE UNCHANGED <<pc, outcome>>
  BY DEF Raise, service, Ended
<1>2. TypeOK'
  BY <1>1 DEF IInv, TypeOK, Results
<1>3. RequestsAreTracked'
  <2> SUFFICES ASSUME ~Live(t), pc = "purging"
               PROVE  RequestsAreTracked'
    BY <1>1 DEF Live, RequestsAreTracked
  <2>1. \A q : <<purges, q>> \in waiting => <<purges, q>> \in waiting'
    BY <1>1 DEF Live
  <2> QED
    BY <1>1, <2>1 DEF IInv, RequestsAreTracked, Requests, Expanded
<1> QED
  BY <1>1, <1>2, <1>3 DEF IInv, PurgesAreNumbered, DiscoveryComesFirst, OkMeansDone,
                          TerminalMeansRefused, Done, Expanded

(* An answer takes the place of its task; what is not ok spoils the purge. *)
LEMMA AnswerIInv ==
  ASSUME IInv, NEW t \in sending, NEW r \in Results, Answer(t, r)
  PROVE  IInv'
<1>1. /\ sending' = sending \ {t}
      /\ UNCHANGED <<kind, pc, batch, version, domains, waiting, outcome, purges, active,
                     changes, since>>
  BY DEF Answer, service
<1>2. TypeOK /\ t[2] \subseteq Hosts \X Paths
  BY DEF IInv, TypeOK, Task
<1>3. CASE ~Live(t)
  <2>1. UNCHANGED <<answers, accepted, refused>>
    BY <1>3 DEF Answer
  <2>2. TypeOK'
    BY <1>1, <2>1 DEF IInv, TypeOK
  <2>3. RequestsAreTracked'
    <3> SUFFICES ASSUME pc = "purging"
                 PROVE  RequestsAreTracked'
      BY <1>1 DEF RequestsAreTracked
    <3>1. \A q : <<purges, q>> \in sending => <<purges, q>> \in sending'
      BY <1>1, <1>3 DEF Live
    <3> QED
      BY <1>1, <2>1, <3>1 DEF IInv, RequestsAreTracked, Requests, Expanded
  <2> QED
    BY <1>1, <2>1, <2>2, <2>3
       DEF IInv, PurgesAreNumbered, DiscoveryComesFirst, OkMeansDone, TerminalMeansRefused,
           Done, Expanded
<1>4. CASE Live(t)
  <2>1. /\ pc = "purging" /\ t[1] = purges /\ answers' = answers \cup {r}
        /\ \/ r # "terminal" /\ accepted' = accepted \cup t[2] /\ UNCHANGED refused
           \/ r = "retryable" /\ UNCHANGED <<accepted, refused>>
           \/ r = "terminal" /\ refused' = TRUE /\ UNCHANGED accepted
           \/ r = "terminal" /\ kind = "cloudfront" /\ UNCHANGED <<accepted, refused>>
    BY <1>4 DEF Answer, Live
  <2>2. accepted \subseteq accepted' /\ accepted' \in SUBSET (Hosts \X Paths)
        /\ refused' \in BOOLEAN /\ (refused => refused')
        /\ (r = "ok" => t[2] \subseteq accepted')
        /\ (r = "terminal" /\ kind # "cloudfront" => refused')
    BY <1>2, <2>1 DEF TypeOK
  <2>3. TypeOK'
    BY <1>1, <1>2, <2>1, <2>2 DEF TypeOK
  <2>4. Requests(batch, UNION domains)' = Requests(batch, UNION domains)
    BY <1>1 DEF Requests, Expanded
  <2>5. ASSUME NEW q \in Requests(batch, UNION domains)
        PROVE  \/ <<purges, q>> \in waiting' \cup sending'
               \/ answers' \subseteq {"ok"} => q \subseteq accepted'
    <3>1. CASE t = <<purges, q>>
      BY <2>1, <2>2, <3>1
    <3>2. CASE t # <<purges, q>>
      BY <1>1, <2>1, <2>2, <3>2 DEF IInv, RequestsAreTracked
    <3> QED
      BY <3>1, <3>2
  <2>6. RequestsAreTracked'
    <3>1. "terminal" \in answers' /\ kind # "cloudfront" => refused'
      BY <2>1, <2>2 DEF IInv, RequestsAreTracked
    <3>2. purges' = purges /\ kind' = kind
      BY <1>1
    <3> QED
      BY <2>4, <2>5, <3>1, <3>2, Zenon DEF RequestsAreTracked
  <2>7. outcome = "none"
    BY <2>1 DEF IInv, PurgesAreNumbered
  <2> QED
    BY <1>1, <2>1, <2>3, <2>6, <2>7
       DEF IInv, PurgesAreNumbered, DiscoveryComesFirst, OkMeansDone, TerminalMeansRefused
<1> QED
  BY <1>3, <1>4

(* purge() returns the verdict. *)
LEMMA ReturnIInv ==
  ASSUME IInv, Return
  PROVE  IInv'
<1>1. /\ pc = "purging" /\ \A t \in waiting \cup sending : t[1] # purges
      /\ pc' = "idle" /\ outcome' = Verdict
      /\ UNCHANGED <<kind, batch, version, domains, waiting, sending, answers, purges, active,
                     changes, since, accepted, refused>>
  BY DEF Return, Ended, tasks, service
<1>2. /\ Verdict \in Results
      /\ Verdict = "ok" => \A u \in batch : Done(u)
      /\ Verdict = "terminal" /\ kind # "cloudfront" => refused
  BY <1>1, VerdictIsRight
<1>3. TypeOK'
  BY <1>1, <1>2 DEF IInv, TypeOK
<1>4. OkMeansDone'
  BY <1>1, <1>2 DEF IInv, OkMeansDone, DiscoveryComesFirst, Done, Expanded
<1> QED
  BY <1>1, <1>2, <1>3, <1>4
     DEF IInv, PurgesAreNumbered, DiscoveryComesFirst, RequestsAreTracked, TerminalMeansRefused

(* Another version is activated: the hosts served ever since get fewer. *)
LEMMA ActivateIInv ==
  ASSUME IInv, NEW v \in Versions, Activate(v)
  PROVE  IInv'
<1>1. /\ active' = v /\ changes' = changes + 1 /\ changes < MaxChanges /\ since' \subseteq since
      /\ UNCHANGED <<kind, pc, batch, version, domains, waiting, sending, answers, outcome,
                     purges, accepted, refused>>
  BY DEF Activate, tasks
<1>2. changes' \in 0..MaxChanges
  BY <1>1, ProvidersAssumption DEF IInv, TypeOK
<1>3. TypeOK'
  BY <1>1, <1>2 DEF IInv, TypeOK
<1>4. RequestsAreTracked'
  BY <1>1 DEF IInv, RequestsAreTracked, Requests, Expanded
<1>5. DiscoveryComesFirst'
  BY <1>1 DEF IInv, DiscoveryComesFirst
<1> QED
  BY <1>1, <1>3, <1>4, <1>5 DEF IInv, PurgesAreNumbered, OkMeansDone, TerminalMeansRefused,
                                Done, Expanded

(* A restart forgets everything; a stutter nothing. *)
LEMMA RestartIInv ==
  ASSUME IInv, Restart \/ UNCHANGED vars
  PROVE  IInv'
<1>1. CASE Restart
  BY <1>1 DEF IInv, Restart, service, TypeOK, PurgesAreNumbered, DiscoveryComesFirst,
              RequestsAreTracked, OkMeansDone, TerminalMeansRefused
<1>2. CASE UNCHANGED vars
  BY <1>2 DEF IInv, vars, service, tasks, TypeOK, PurgesAreNumbered, DiscoveryComesFirst,
              RequestsAreTracked, OkMeansDone, TerminalMeansRefused, Done, Requests, Expanded
<1> QED
  BY <1>1, <1>2

(* The initial states satisfy the invariant. *)
LEMMA InitIInv == Init => IInv
<1> SUFFICES ASSUME Init PROVE IInv
  OBVIOUS
<1>1. 0 \in 0..MaxPurges /\ 0 \in 0..MaxChanges
  BY ProvidersAssumption
<1> QED
  BY <1>1 DEF Init, IInv, TypeOK, PurgesAreNumbered, DiscoveryComesFirst,
              RequestsAreTracked, OkMeansDone, TerminalMeansRefused

-----------------------------------------------------------------------------
(* Theorems *)

(* The invariant holds throughout. *)
LEMMA Invariant == Spec => []IInv
<1>1. IInv /\ [Next]_vars => IInv'
  BY PurgeIInv, GotServiceIInv, GotDomainsIInv, EnterIInv, RaiseIInv, AnswerIInv, ReturnIInv,
     ActivateIInv, RestartIInv DEF Next, Progress
<1> QED
  BY <1>1, InitIInv, PTL DEF Spec

(* Every state of the providers is well formed.                            *)
THEOREM ProvidersTypeCorrect == Spec => []TypeOK
BY Invariant, PTL DEF IInv

(* purge_all_service_domains: an ok purge has reached every host that the  *)
(* service has served ever since the discovery began.                      *)
THEOREM FastlyServedHostsArePurged == Spec => []ServedHostsArePurged
<1>1. IInv => ServedHostsArePurged
  <2> SUFFICES ASSUME IInv, kind = "fastly_all", outcome = "ok",
                      NEW u \in batch, NEW h \in since
               PROVE  <<h, u[2]>> \in accepted
    BY DEF ServedHostsArePurged
  <2>1. h \in UNION domains /\ Done(u)
    BY DEF IInv, OkMeansDone, DiscoveryComesFirst
  <2> QED
    BY <2>1 DEF Done, Expanded
<1> QED
  BY <1>1, Invariant, PTL

(* Fastly: a batch is given up only if something of it was refused.        *)
THEOREM FastlyTerminalMeansRefused == Spec => []TerminalMeansRefused
BY Invariant, PTL DEF IInv

(* Both providers are what the queue worker takes them for.                *)
THEOREM ProvidersImplementContract == Spec => ImplementsContract
<1> DEFINE got == {u \in URLs : Expanded({u}, UNION domains) \subseteq accepted}
           now == IF pc = "idle" THEN {} ELSE batch
<1>1. Init => Contract!Init
  BY DEF Init, Contract!Init, Expanded
<1>2. ASSUME IInv, [Next]_vars
      PROVE  [Contract!Next]_Contract!vars
  <2>1. TypeOK /\ PurgesAreNumbered /\ DiscoveryComesFirst
    BY <1>2 DEF IInv
  <2>2. ASSUME NEW urls \in (SUBSET URLs) \ {{}}, Purge(urls)
        PROVE  Contract!Begin
    <3>1. /\ pc = "idle" /\ pc' # "idle" /\ batch' = urls /\ accepted' = {} /\ outcome' = "none"
      BY <2>2 DEF Purge, Send
    <3>2. got' = {}
      BY <3>1 DEF Expanded
    <3> QED
      BY <3>1, <3>2 DEF Contract!Begin
  <2>3. ASSUME NEW r \in {"retryable", "terminal"}, pc # "idle", Ended(r),
               UNCHANGED <<domains, accepted>>
        PROVE  Contract!Next
    <3>1. now # {} /\ now' = {} /\ outcome' = r /\ got' = got
      BY <2>1, <2>3 DEF Ended, PurgesAreNumbered, Expanded
    <3>2. Contract!Return(r)
      BY <3>1 DEF Contract!Return
    <3> QED
      BY <3>2 DEF Contract!Next
  <2>4. CASE GotService
    <3>1. CASE pc' = "domains" /\ UNCHANGED <<outcome, domains, batch, accepted>>
      BY <2>4, <3>1 DEF GotService, Contract!vars, Expanded
    <3>2. ASSUME NEW r \in {"retryable", "terminal"}, DiscoveryFails(r)
          PROVE  Contract!Next
      BY <2>3, <2>4, <3>2 DEF DiscoveryFails, GotService
    <3> QED
      BY <2>4, <3>1, <3>2 DEF GotService
  <2>5. CASE GotDomains
    <3>1. CASE Send(purges, batch, DomainsOf[version]) /\ UNCHANGED outcome
      <4>1. accepted = {} /\ accepted' = {} /\ got = {} /\ got' = {}
        BY <2>1, <2>5 DEF GotDomains, DiscoveryComesFirst, Expanded
      <4>2. now' = now
        BY <2>5, <3>1 DEF GotDomains, Send
      <4> QED
        BY <3>1, <4>1, <4>2 DEF Contract!vars
    <3>2. ASSUME NEW r \in {"retryable", "terminal"}, DiscoveryFails(r)
          PROVE  Contract!Next
      BY <2>3, <2>5, <3>2 DEF DiscoveryFails, GotDomains
    <3> QED
      BY <2>5, <3>1, <3>2 DEF GotDomains
  <2>6. ASSUME NEW t \in waiting, Enter(t) \/ Raise(t)
        PROVE  Contract!Next \/ UNCHANGED Contract!vars
    <3>1. UNCHANGED <<domains, accepted, batch>>
      BY <2>6 DEF Enter, Raise
    <3>2. CASE Raise(t) /\ Live(t)
      BY <2>3, <3>1, <3>2 DEF Raise, Live
    <3>3. CASE Enter(t) \/ ~Live(t)
      BY <2>6, <3>1, <3>3 DEF Enter, Raise, Contract!vars, Expanded
    <3> QED
      BY <2>6, <3>2, <3>3
  <2>7. ASSUME NEW t \in sending, NEW r \in Results, Answer(t, r)
        PROVE  Contract!Accept
    <3>1. accepted \subseteq accepted' /\ UNCHANGED <<pc, batch, domains, outcome>>
      BY <2>7 DEF Answer
    <3>2. got \subseteq got' /\ got' \subseteq URLs
      BY <3>1 DEF Expanded
    <3> QED
      BY <3>1, <3>2 DEF Contract!Accept
  <2>8. CASE Return
    <3>1. /\ pc = "purging" /\ \A t \in waiting \cup sending : t[1] # purges
          /\ pc' = "idle" /\ outcome' = Verdict /\ UNCHANGED <<batch, domains, accepted>>
      BY <2>8 DEF Return, Ended
    <3>2. Verdict \in Results /\ (Verdict = "ok" => batch \subseteq got)
      BY <1>2, <2>1, <3>1, VerdictIsRight DEF Done, TypeOK
    <3>3. now # {} /\ now = batch /\ now' = {} /\ got' = got
      BY <2>1, <3>1 DEF PurgesAreNumbered, Expanded
    <3>4. Contract!Return(Verdict)
      BY <3>1, <3>2, <3>3 DEF Contract!Return
    <3> QED
      BY <3>2, <3>4 DEF Contract!Next, Results
  <2>9. CASE Restart
    <3>1. got' = {}
      BY <2>9 DEF Restart, Expanded
    <3>2. Contract!Abandon
      BY <2>9, <3>1 DEF Restart, Contract!Abandon
    <3> QED
      BY <3>2 DEF Contract!Next
  <2>10. CASE UNCHANGED vars \/ \E v \in Versions : Activate(v)
    BY <2>10 DEF vars, Activate, Contract!vars, Expanded
  <2> QED
    BY <1>2, <2>2, <2>4, <2>5, <2>6, <2>7, <2>8, <2>9, <2>10 DEF Next, Progress, Contract!Next
<1> QED
  BY <1>1, <1>2, Invariant, PTL DEF Spec, ImplementsContract, Contract!Spec
==============================================================================

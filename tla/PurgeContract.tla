---------------------------- MODULE PurgeContract ----------------------------
(***************************************************************************)
(* What the queue worker relies on when it calls a provider (CdnProvider   *)
(* and PurgeResult, providers/base.py): one purge at a time, and `ok' only *)
(* once the CDN has accepted every URL of the batch.  On that word alone a *)
(* job is marked done.  The providers are shown to implement this module.  *)
(***************************************************************************)
CONSTANT URLs       \* URLs a batch may hold

VARIABLES
  batch,            \* URLs of the purge under way, {} if none
  accepted,         \* URLs the CDN has accepted in the last purge
  outcome           \* PurgeResult of the last purge, "none" while there is none

vars == <<batch, accepted, outcome>>

Init == batch = {} /\ accepted = {} /\ outcome = "none"

Begin == /\ batch = {}
         /\ batch' \in (SUBSET URLs) \ {{}}
         /\ accepted' = {}
         /\ outcome' = "none"

Accept == /\ accepted \subseteq accepted'
          /\ accepted' \in SUBSET URLs
          /\ UNCHANGED <<batch, outcome>>

Return(r) == /\ batch # {}
             /\ r = "ok" => batch \subseteq accepted
             /\ batch' = {}
             /\ outcome' = r
             /\ UNCHANGED accepted

(* The daemon goes down, whether or not a purge is under way. *)
Abandon == batch' = {} /\ accepted' = {} /\ outcome' = "none"

Next == \/ Begin \/ Accept \/ Abandon
        \/ \E r \in {"ok", "retryable", "terminal"} : Return(r)

Spec == Init /\ [][Next]_vars
==============================================================================

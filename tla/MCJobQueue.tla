----------------------------- MODULE MCJobQueue -----------------------------
(* Instances of JobQueue for TLC. *)
EXTENDS JobQueue

(* The daemon's own arrangement: one worker per CDN, named after it. *)
OneWorkerPerCdn == [w \in Workers |-> w]

(* Two claimers of one CDN, the race claim_ready's docstring describes. *)
SharedCdn == [w \in Workers |-> CHOOSE c \in CDNs : TRUE]
=============================================================================

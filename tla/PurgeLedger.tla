---------------------------- MODULE PurgeLedger ----------------------------
(***************************************************************************)
(* What the durable queue promises the batcher, without tables,            *)
(* transactions, workers or restarts: a batch that was recorded stays      *)
(* recorded, and leaves the queue only as done, after the CDN accepted it, *)
(* or as failed.  Several batches may move in one step, because a COMMIT   *)
(* of the shared connection covers the statements of several tasks.        *)
(***************************************************************************)
CONSTANT Flushes      \* the batches

VARIABLES
  state,      \* of each batch
  delivered   \* batches their CDN accepted in full

vars == <<state, delivered>>

State == {"none", "queued", "done", "failed"}

Init == /\ state = [f \in Flushes |-> "none"]
        /\ delivered = {}

Deliver(f) == /\ state[f] = "queued"
              /\ delivered' = delivered \cup {f}
              /\ UNCHANGED state

(* Batch f stays where it is or moves one step along its life. *)
Legal(f) == \/ state'[f] = state[f]
            \/ state[f] = "none"   /\ state'[f] = "queued"
            \/ state[f] = "queued" /\ state'[f] = "failed"
            \/ state[f] = "queued" /\ state'[f] = "done" /\ f \in delivered'

(* Queued batches only are delivered, before their COMMIT or with it. *)
Commit == /\ delivered \subseteq delivered'
          /\ \A f \in delivered' \ delivered : f \in Flushes /\ state[f] = "queued"
          /\ state' \in [Flushes -> State]
          /\ \A f \in Flushes : Legal(f)

Next == Commit \/ \E f \in Flushes : Deliver(f)

Spec == Init /\ [][Next]_vars
=============================================================================

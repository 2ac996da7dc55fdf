------------------------------ MODULE Coalescer ------------------------------
(***************************************************************************)
(* What the daemon relies on when it submits purge targets (Batcher in     *)
(* batcher.py): a target stays in the buffer of its CDN until it leaves    *)
(* with all the others there, as one batch; batches are handed to the      *)
(* queue one at a time; and no buffer is left behind at a stop.  When a    *)
(* buffer is handed over is not said.  Batcher and Daemon are shown to     *)
(* implement this module, so that what Daemon does with a batcher is no    *)
(* more than what the batcher does.                                        *)
(***************************************************************************)
CONSTANTS
  CDNs,
  URLs

VARIABLES
  buf,      \* targets submitted and not handed over
  open,     \* targets handed over and not stored
  phase     \* "down", "running", or "draining" after a graceful stop

vars == <<buf, open, phase>>

Nowhere == [c \in CDNs |-> {}]

Init == phase \in {"down", "running"} /\ buf = Nowhere /\ open = {}

Start == /\ phase = "down" /\ phase' = "running"
         /\ UNCHANGED <<buf, open>>

(* submit *)
Add(c, u) ==
  /\ phase = "running"
  /\ open = {}
  /\ buf' = [buf EXCEPT ![c] = @ \cup {u}]
  /\ UNCHANGED <<open, phase>>

(* _flush_locked of a buffer that holds urls now.  After a stop the batch  *)
(* whose enqueue() was cut may still be in the open transaction.           *)
HandOver(c, urls) ==
  /\ phase # "down"
  /\ phase = "running" => open = {}
  /\ urls # {}
  /\ open' = open \cup ({c} \X urls)
  /\ buf' = [buf EXCEPT ![c] = {}]
  /\ UNCHANGED phase

(* The size cap hands over the buffer with the target just submitted.      *)
Flush(c) == HandOver(c, buf[c])
Fill(c, u) == phase = "running" /\ HandOver(c, buf[c] \cup {u})

(* enqueue() has returned, or another task's COMMIT has stored its rows. *)
Stored == /\ phase # "down"
          /\ open' = {}
          /\ UNCHANGED <<buf, phase>>

Stop == /\ phase = "running" /\ phase' = "draining"
        /\ open' \in {open, {}}
        /\ UNCHANGED buf

Close == /\ phase = "draining" /\ phase' = "down"
         /\ buf = Nowhere
         /\ open' = {}
         /\ UNCHANGED buf

Next ==
  \/ Start \/ Stored \/ Stop \/ Close
  \/ \E c \in CDNs : Flush(c)
  \/ \E c \in CDNs, u \in URLs : Add(c, u) \/ Fill(c, u)

Spec == Init /\ [][Next]_vars

(* flush_all gives up when an enqueue() fails; the process dies. *)
Fail == /\ phase = "draining"
        /\ open' = {} /\ buf' = Nowhere
        /\ UNCHANGED phase
Die  == /\ phase # "down" /\ phase' = "down"
        /\ open' = {} /\ buf' = Nowhere

FaultySpec == Init /\ [][Next \/ Fail \/ Die]_vars
==============================================================================

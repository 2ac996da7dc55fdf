------------------------------ MODULE MCDaemon ------------------------------
(* Instance of Daemon for TLC: two files, the first bound to both CDNs;    *)
(* the operator may drop the second CDN, run dry, leave a key out of       *)
(* secrets.yaml, or bind a CDN that is not defined.                        *)
EXTENDS Daemon

CONSTANTS a, b, c1, c2

TwoChanges == {v \in [{a, b} -> 0..2] : v[a] + v[b] <= 2 /\ v[a] < 2}

Usual   == [cdns |-> {c1, c2}, bindings |-> [f \in {a, b} |-> IF f = a THEN {c1, c2} ELSE {c1}],
            secrets |-> [c \in {c1, c2} |-> "complete"],
            private |-> TRUE, rooted |-> TRUE, dry_run |-> FALSE]
Dropped == [Usual EXCEPT !.cdns = {c1}, !.bindings = [f \in {a, b} |-> {c1}]]
Dry     == [Usual EXCEPT !.dry_run = TRUE]
Keyless == [Usual EXCEPT !.secrets[c2] = "partial"]
Unbound == [Usual EXCEPT !.cdns = {c1}]

AllConfigs == {Usual, Dropped, Dry, Keyless, Unbound}
=============================================================================

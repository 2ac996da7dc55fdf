----------------------------- MODULE MCProviders -----------------------------
(* Instance of Providers for TLC: bindings on one host of a service whose  *)
(* second version replaces one domain by another.                          *)
EXTENDS Providers

CONSTANTS h1, h2, h3, p, q

AllHosts == {h1, h2, h3}
Names    == {<<h1, p>>, <<h1, q>>}
Bad      == {q}
Domains  == [v \in {1, 2} |-> IF v = 1 THEN {h1, h2} ELSE {h1, h3}]
==============================================================================

------------------------------ MODULE MCWatcher ------------------------------
(* Instances of Watcher for TLC. *)
EXTENDS Watcher

Fastly == [cdn |-> "fastly", url_prefix |-> "https://repo"]
Gcp    == [cdn |-> "gcp", url_prefix |-> "https://repo"]
Vault  == [cdn |-> "gcp", url_prefix |-> "https://vault"]

Watch(path, ignore, flush_on_delete, bindings) ==
  [path |-> path, ignore |-> ignore, flush_on_delete |-> flush_on_delete, bindings |-> bindings]

(* The rsync staging pattern of the example configuration. *)
Staging == <<"**", "tmp", "**">>

OneRoot == <<Watch(<< >>, {Staging}, TRUE, {Fastly, Gcp})>>

(* A root below another, listed after it. *)
NestedRoots == <<Watch(<< >>, {Staging}, FALSE, {Fastly}),
                 Watch(<<"a">>, {Staging}, TRUE, {Fastly, Vault})>>

(* The root above ignores what the nested one does not. *)
OuterIgnoresMore == <<Watch(<< >>, {Staging}, FALSE, {Fastly}),
                      Watch(<<"a">>, {}, TRUE, {Fastly, Vault})>>

(* Two watches of one root. *)
Twice == <<Watch(<< >>, {}, FALSE, {Fastly}), Watch(<< >>, {}, FALSE, {Vault})>>

(* The watches agree on what the tree holds, which is what the theorems    *)
(* about the watcher's coverage ask of a configuration.                    *)
ASSUME WatchesAgree == Watches \in {OneRoot, NestedRoots} => DirsAgree /\ FilesAgree
==============================================================================

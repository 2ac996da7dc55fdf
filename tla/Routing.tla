------------------------------- MODULE Routing -------------------------------
(***************************************************************************)
(* Which events reach which CDN: the event filter (filter.py) and the      *)
(* mapper (mapper.py), two pure functions of the configured watches.       *)
(*                                                                         *)
(* A path is the sequence of its components below the outermost watch      *)
(* root, a pattern the sequence of its components.  Components are         *)
(* compared as wholes: fnmatch inside one component is the library's.      *)
(*                                                                         *)
(* Names in _Mutant are faulty variants, as in JobQueue.                   *)
(***************************************************************************)
EXTENDS Integers, FiniteSets, SequencesExt

CONSTANTS
  Watches  \* the configured watches, in the order of the configuration

ASSUME RoutingAssumption ==
  Watches \in Seq([path : Seq(STRING), ignore : SUBSET Seq(STRING),
                   flush_on_delete : BOOLEAN,
                   bindings : SUBSET [cdn : STRING, url_prefix : STRING]])

WatchIds == DOMAIN Watches

-----------------------------------------------------------------------------
(* filter.py *)

Fnmatch(part, pattern) == pattern \in {"*", part}

(* `**` takes at least one component. *)
Gm_Mutant(pp, sp) ==
  LET gm[pi \in 1..Len(pp) + 1] == [si \in 1..Len(sp) + 1 |->
        IF pi > Len(pp) THEN si > Len(sp)
        ELSE IF pp[pi] = "**"
        THEN \E j \in si + 1..Len(sp) + 1 : gm[pi + 1][j]
        ELSE si <= Len(sp) /\ Fnmatch(sp[si], pp[pi]) /\ gm[pi + 1][si + 1]]
  IN  gm[1][1]

(* The matcher on the rest of the pattern and of the path: runs of `**`    *)
(* are collapsed, and one at the end takes whatever is left.               *)
RunEnd(pp, pi) ==
  CHOOSE k \in pi..Len(pp) : /\ \A m \in pi..k : pp[m] = "**"
                             /\ k = Len(pp) \/ pp[k + 1] # "**"
Gm(pp, sp) ==
  LET gm[pi \in 1..Len(pp) + 1] == [si \in 1..Len(sp) + 1 |->
        IF pi > Len(pp) THEN si > Len(sp)
        ELSE IF pp[pi] = "**"
        THEN LET k == RunEnd(pp, pi)
             IN  k = Len(pp) \/ \E j \in si..Len(sp) + 1 : gm[k + 1][j]
        ELSE si <= Len(sp) /\ Fnmatch(sp[si], pp[pi]) /\ gm[pi + 1][si + 1]]
  IN  gm[1][1]

Relative(p, root) == SubSeq(p, Len(root) + 1, Len(p))

(* matches_any_glob on the path below the watch's root. *)
MatchesAnyGlob(p, i) ==
  \E pattern \in Watches[i].ignore : Gm(pattern, Relative(p, Watches[i].path))

Holding(p) == {i \in WatchIds : IsPrefix(Watches[i].path, p)}

(* The first watch of the configuration that has the path. *)
Owner_Mutant(p) == {i \in Holding(p) : \A j \in Holding(p) : i <= j}
(* The first of the watches that have the path, sorted by depth: deepest   *)
(* first, watches of one depth in the order of the configuration.          *)
Owner(p) ==
  {i \in Holding(p) : \A j \in Holding(p) :
     \/ Len(Watches[i].path) > Len(Watches[j].path)
     \/ Len(Watches[i].path) = Len(Watches[j].path) /\ i <= j}

LiveMasks == {"IN_MOVED_TO", "IN_CLOSE_WRITE"}
GoneMasks == {"IN_DELETE", "IN_MOVED_FROM"}

EventKind(mask, i) ==
  IF mask \in LiveMasks THEN {"invalidate"}
  ELSE IF mask \in GoneMasks /\ Watches[i].flush_on_delete
  THEN {"delete"} ELSE {}

(* The normalized event, or none. *)
Normalize(mask, p) ==
  UNION {{[kind |-> k, abs_path |-> p, watch_root |-> Watches[i].path] :
            k \in EventKind(mask, i)} : i \in {o \in Owner(p) : ~MatchesAnyGlob(p, o)}}

-----------------------------------------------------------------------------
(* mapper.py *)

Target(b, root, p) == [cdn |-> b.cdn, url |-> <<b.url_prefix, Relative(p, root)>>]

(* _by_root keeps the last watch of a root. *)
ByRoot(root) == Max({i \in WatchIds : Watches[i].path = root})
Map(e) == {Target(b, e.watch_root, e.abs_path) : b \in Watches[ByRoot(e.watch_root)].bindings}

(* What the pipeline submits for an event. *)
Targets(mask, p) == UNION {Map(e) : e \in Normalize(mask, p)}

-----------------------------------------------------------------------------
(* What the documentation says, stated without the code's order of search. *)

(* A pattern matches a path if the path can be cut into one stretch per    *)
(* component of the pattern: any stretch for `**`, one component otherwise.*)
Matches(pp, sp) ==
  \E cut \in [0..Len(pp) -> 0..Len(sp)] :
    /\ cut[0] = 0 /\ cut[Len(pp)] = Len(sp)
    /\ \A k \in 1..Len(pp) :
         IF pp[k] = "**" THEN cut[k - 1] <= cut[k]
         ELSE cut[k] = cut[k - 1] + 1 /\ Fnmatch(sp[cut[k]], pp[k])

Deepest(p) == {i \in Holding(p) : \A j \in Holding(p) :
                 Len(Watches[j].path) <= Len(Watches[i].path)}

IgnoredBy(p, i) == \E pp \in Watches[i].ignore : Matches(pp, Relative(p, Watches[i].path))

(* The targets owed when a file at p has changed, or has been removed. *)
Due(removed, p) ==
  UNION {{Target(b, Watches[i].path, p) : b \in Watches[i].bindings} :
           i \in {d \in Deepest(p) : /\ ~IgnoredBy(p, d)
                                     /\ removed => Watches[d].flush_on_delete}}

(* An event of a file at p has the pipeline submit what is due for it, and *)
(* nothing else.                                                           *)
RoutedAsDue(mask, p) == Targets(mask, p) = Due(mask \in GoneMasks, p)

(* No two watches share a root, which the loader does not ask for.         *)
DistinctRoots == \A i, j \in WatchIds : Watches[i].path = Watches[j].path => i = j
=============================================================================

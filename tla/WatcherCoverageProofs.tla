------------------------ MODULE WatcherCoverageProofs ------------------------
(***************************************************************************)
(* That the watcher covers its tree: an idle watcher has a watch on every  *)
(* directory it is to have one on, and all that is due for a file that was *)
(* written or removed has been submitted, for every tree and every budget  *)
(* of watches and length of the kernel's queue, and for configurations     *)
(* whose watches agree on what they ignore.                                *)
(***************************************************************************)
EXTENDS WatcherProofs, RoutingProofs

(* The kernel has dropped events since the watcher was opened.             *)
Drops(q) == \E n \in 1..Len(q) : q[n].kind = "overflow"
Lost == Root \in blind \/ Drops(queue)

Live  == phase \in {"walking", "running"}
Sound == Live /\ ~Lost

(* The n-th event says that d was made, or that it was removed.            *)
MadeAt(n, d) == n \in 1..Len(queue) /\ queue[n].kind = "mkdir" /\ queue[n].path = d
SelfAt(n, d) == n \in 1..Len(queue) /\ queue[n].kind = "self" /\ queue[n].watch = d

(* It is among what is left to do.                                         *)
Left(t) == {t[k] : k \in 1..Len(t)}
Pending(op, d) == \E w \in Left(todo) : w.op = op /\ w.path = d

(* A watcher that is closed knows nothing, and neither does the kernel;    *)
(* startup blames no directory.                                            *)
NothingHeld ==
  /\ phase = "closed" => /\ marks = [d \in Paths |-> None]
                         /\ queue = << >>
                         /\ config = [d \in Paths |-> 0]
                         /\ todo = << >>
  /\ phase \in {"closed", "walking"} => blind = {}

(* Below a directory there are only directories.                           *)
TreeIsClosed == Root \in dirs /\ \A d \in dirs \ {Root} : Front(d) \in dirs

(* What the kernel's events look like.                                     *)
EventsFit ==
  \A n \in 1..Len(queue) :
    /\ queue[n].kind = "self" => queue[n].watch # Root
    /\ queue[n].kind = "mkdir" =>
         queue[n].path # Root /\ Front(queue[n].path) = queue[n].watch
    /\ queue[n].kind \in FileMasks => queue[n].path = queue[n].watch

(* A directory is known, or worked on, under a watch whose root it has; at *)
(* run time no root is added.                                              *)
WorkFits ==
  /\ \A d \in Paths : config[d] # 0 => config[d] \in Holding(d)
  /\ \A w \in Left(todo) :
       /\ w.wc \in Holding(w.path)
       /\ phase = "running" /\ w.op = "add" => Watches[w.wc].path # w.path

(* An entry has a watch, or the event that ends it is in the queue.        *)
EntriesFit ==
  \A d \in Paths : config[d] # 0 => marks[d] = d \/ \E n \in Nat : SelfAt(n, d)

(* A directory whose DELETE_SELF is unread has not been made anew, and     *)
(* will be heard of when it is; or it was, and will be heard of after; or  *)
(* its parent went after it.                                               *)
RemovalsFit ==
  \A n \in Nat : \A d \in Paths \ torn : SelfAt(n, d) =>
    \/ d \notin dirs /\ marks[Front(d)] = Front(d)
    \/ \E m \in Nat : m > n /\ (MadeAt(m, d) \/ SelfAt(m, Front(d)))

(* A directory that exists has its watch, is about to get it, or will when *)
(* its parent does.                                                        *)
Reached(d) ==
  \/ marks[d] = d
  \/ Pending("add", d)
  \/ /\ d # Root
     /\ \/ marks[Front(d)] = None
        \/ Pending("scan", Front(d))
        \/ \E n \in Nat : MadeAt(n, d)

DirsAreReached ==
  DirsAgree => \A d \in (dirs \cap Wanted) \ (blind \cup torn) : Reached(d)

CoverInv ==
  /\ NothingHeld
  /\ TreeIsClosed
  /\ EventsFit
  /\ WorkFits
  /\ Sound => EntriesFit /\ RemovalsFit /\ DirsAreReached

(* The event of a change, or of the removal, of the file of d.             *)
FileAt(n, masks, d) == n \in 1..Len(queue) /\ queue[n].kind \in masks /\ queue[n].path = d

(* A file that was written is found, or heard of, or below no watch.       *)
WritesAreHeard ==
  \A d \in dirty \ excused :
    \/ marks[d] = None
    \/ Pending("scan", d) \/ Pending("file", d)
    \/ \E k \in 1..Len(synthetic) : synthetic[k] = d
    \/ \E n \in Nat : FileAt(n, LiveMasks, d)

(* The removal of a file is heard of before that of its directory.         *)
RemovalsAreHeard ==
  \A d \in gone \ excused :
    \E n \in Nat : /\ FileAt(n, GoneMasks, d)
                   /\ marks[d] = d \/ \E m \in Nat : m > n /\ SelfAt(m, d)

FilesInv ==
  /\ phase # "running" => dirty \cup gone \subseteq excused
  /\ dirty \subseteq DueLive /\ gone \subseteq DueGone
  /\ Sound /\ phase = "running" => WritesAreHeard /\ RemovalsAreHeard

-----------------------------------------------------------------------------
(* Paths *)

(* What is above a directory is above what is in it, the root above all.   *)
LEMMA Above ==
  ASSUME NEW d \in Paths
  PROVE  /\ IsPrefix(Root, d)
         /\ IsPrefix(d, d)
         /\ d # Root => /\ Front(d) \in Paths /\ Len(Front(d)) = Len(d) - 1
                        /\ \A e \in Paths : IsPrefix(e, Front(d)) => IsPrefix(e, d) /\ e # d
<1>1. d \in Seq(Names) /\ Len(d) \in Nat /\ Root \in Seq(Names) /\ Len(Root) = 0
  BY PathFacts DEF Root
<1>2. IsPrefix(Root, d) /\ IsPrefix(d, d)
  BY <1>1 DEF IsPrefix, Root
<1>3. ASSUME d # Root
      PROVE  /\ Front(d) \in Paths /\ Len(Front(d)) = Len(d) - 1
             /\ \A e \in Paths : IsPrefix(e, Front(d)) => IsPrefix(e, d) /\ e # d
  <2>1. Front(d) \in Paths /\ Front(d) \in Seq(Names)
    BY <1>3, NameParts, PathFacts
  <2>2. Len(d) # 0
    BY <1>1, <1>3 DEF Root
  <2>3. Len(Front(d)) = Len(d) - 1 /\ \A k \in 1..Len(d) - 1 : Front(d)[k] = d[k]
    <3>1. Front(d) = [k \in 1..Len(d) - 1 |-> d[k]]
      BY <1>1, <2>2 DEF Front
    <3> QED
      BY <1>1, <2>1, <2>2, <3>1
  <2>4. ASSUME NEW e \in Paths, IsPrefix(e, Front(d)) PROVE IsPrefix(e, d) /\ e # d
    <3>1. e \in Seq(Names) /\ Len(e) \in Nat
      BY PathFacts
    <3>2. Len(e) <= Len(Front(d)) /\ \A k \in 1..Len(e) : e[k] = Front(d)[k]
      BY <2>1, <2>4, <3>1, PrefixIs
    <3>3. Len(e) <= Len(d) - 1 /\ \A k \in 1..Len(e) : e[k] = d[k]
      BY <1>1, <2>3, <3>1, <3>2
    <3> QED
      BY <1>1, <3>1, <3>3, PrefixIs
  <2> QED
    BY <2>1, <2>3, <2>4
<1> QED
  BY <1>2, <1>3

(* A directory in one of a watch is the watch's and not its root.          *)
LEMMA HoldingBelow ==
  ASSUME NEW d \in Paths, NEW i \in WatchIds
  PROVE  /\ Watches[i].path = d => i \in Holding(d)
         /\ d # Root /\ i \in Holding(Front(d)) => i \in Holding(d) /\ Watches[i].path # d
         /\ i \in Holding(d) /\ d = Root => Watches[i].path = d
<1>1. Watches[i].path \in Paths
  BY WatchFacts
<1>2. i \in Holding(d) /\ d = Root => Watches[i].path = d
  <2>1. \A e \in Paths : IsPrefix(e, Root) => e = Root
    <3> SUFFICES ASSUME NEW e \in Paths, IsPrefix(e, Root) PROVE e = Root
      OBVIOUS
    <3>1. e \in Seq(Names) /\ Len(e) \in Nat /\ Root \in Seq(Names) /\ Len(Root) = 0
      BY PathFacts DEF Root
    <3>2. Len(e) <= Len(Root)
      BY <3>1, PrefixIs
    <3> QED
      BY <3>1, <3>2 DEF Root
  <2> QED
    BY <1>1, <2>1 DEF Holding
<1> QED
  BY <1>1, <1>2, Above DEF Holding

-----------------------------------------------------------------------------
(* What the watches agree on *)

(* A file has a name below its directory.                                  *)
LEMMA FilePath == \A d \in Paths : d \in Seq(Names \cup {"f"}) /\ File(d) \in Seq(Names \cup {"f"})
<1> SUFFICES ASSUME NEW d \in Paths
             PROVE  d \in Seq(Names \cup {"f"}) /\ File(d) \in Seq(Names \cup {"f"})
  OBVIOUS
<1>1. PICK T : T = Names \cup {"f"}
  OBVIOUS
<1>2. Names \subseteq T /\ "f" \in T
  BY <1>1
<1>3. d \in Seq(T)
  BY <1>2, PathFacts
<1> QED
  BY <1>1, <1>2, <1>3 DEF File

(* The walk leaves no directory out that is to be watched.                 *)
LEMMA AgreedDirs ==
  ASSUME DirsAgree
  PROVE  \A d \in Wanted : \A i \in Holding(d) : Watches[i].path = d \/ d \notin IgnoredDirs[i]
<1> SUFFICES ASSUME NEW d \in Wanted, NEW i \in Holding(d), Watches[i].path # d
             PROVE  d \notin IgnoredDirs[i]
  OBVIOUS
<1>1. d \in Paths /\ i \in WatchIds
  BY DEF Wanted, Holding
<1>2. ~IgnoredBy(d, i)
  BY DEF DirsAgree
<1>3. ~MatchesAnyGlob(d, i)
  BY <1>1, <1>2, FilePath, IgnoredIs
<1> QED
  BY <1>1, <1>3 DEF IgnoredDirs

(* One watch agrees with itself.                                           *)
LEMMA OneWatchAgrees ==
  ASSUME Len(Watches) = 1
  PROVE  DirsAgree
<1>1. WatchIds = {1} /\ Watches[1].path = Root
  BY WatchFacts, WatcherAssumption DEF WatchIds, Root
<1>2. Len(Root) = 0 /\ \A d \in Paths : d \in Seq(Names) /\ Len(d) \in Nat /\ Holding(d) = {1}
  BY <1>1, PathFacts, Above DEF Holding, Root
<1>3. \A d \in Paths : Deepest(d) = {1}
  BY <1>1, <1>2 DEF Deepest
<1>4. \A d \in Wanted : d \in Paths /\ \A n \in 1..Len(d) : ~IgnoredBy(SubSeq(d, 1, n), 1)
  BY <1>1, <1>2, <1>3 DEF Wanted
<1>5. ASSUME NEW d \in Wanted, d # Root
      PROVE  Front(d) \in Wanted /\ ~IgnoredBy(d, 1)
  <2>1. d \in Paths /\ d \in Seq(Names) /\ Len(d) \in Nat \ {0}
    BY <1>2, <1>4, <1>5 DEF Root
  <2>2. SubSeq(d, 1, Len(d)) = d
    BY <2>1
  <2>3. Front(d) \in Paths /\ Len(Front(d)) = Len(d) - 1 /\ Front(d) = SubSeq(d, 1, Len(d) - 1)
    BY <1>5, <2>1, Above DEF Front
  <2>4. ASSUME NEW n \in 1..Len(Front(d)) PROVE ~IgnoredBy(SubSeq(Front(d), 1, n), 1)
    <3>1. SubSeq(SubSeq(d, 1, Len(d) - 1), 1, n) = SubSeq(d, 1, n) /\ n \in 1..Len(d)
      BY <2>1, <2>3
    <3>2. SubSeq(Front(d), 1, n) = SubSeq(d, 1, n)
      BY <2>3, <3>1
    <3>3. ~IgnoredBy(SubSeq(d, 1, n), 1)
      BY <1>4, <3>1
    <3> QED
      BY <3>2, <3>3, Zenon
  <2>5. Front(d) \in Wanted
    <3>1. 1 \in Deepest(Front(d)) /\ Len(Watches[1].path) + 1 = 1
      BY <1>1, <1>2, <1>3, <2>3
    <3> QED
      BY <2>3, <2>4, <3>1, Zenon DEF Wanted
  <2>6. ~IgnoredBy(SubSeq(d, 1, Len(d)), 1)
    BY <1>4, <2>1
  <2> QED
    BY <2>2, <2>5, <2>6, Zenon
<1> QED
  BY <1>1, <1>2, <1>4, <1>5 DEF DirsAgree

(* Nor does it a file something is due for, whose events are worth all of  *)
(* it.                                                                     *)
LEMMA AgreedFiles ==
  ASSUME FilesAgree
  PROVE  /\ \A d \in DueLive :
              /\ d \in Wanted
              /\ \A i \in Holding(d) : d \notin IgnoredFiles[i]
              /\ \A mask \in LiveMasks : d \in Purged[mask]
         /\ \A d \in DueGone : \A mask \in GoneMasks : d \in Purged[mask]
<1>1. \A d \in Paths, mask \in FileMasks : Targets(mask, File(d)) = Due(mask \in GoneMasks, File(d))
  BY FilePath, RoutingIsRight DEF FilesAgree, FileMasks, LiveMasks, GoneMasks, RoutedAsDue
<1>2. LiveMasks \subseteq FileMasks /\ GoneMasks \subseteq FileMasks /\ LiveMasks \cap GoneMasks = {}
  BY DEF LiveMasks, GoneMasks, FileMasks
<1>3. ASSUME NEW d \in DueLive, NEW i \in Holding(d) PROVE d \notin IgnoredFiles[i]
  <2>1. d \in Paths /\ i \in WatchIds /\ ~IgnoredBy(File(d), i)
    BY <1>3 DEF FilesAgree, DueLive, Holding
  <2>2. ~MatchesAnyGlob(File(d), i)
    BY <2>1, FilePath, IgnoredIs
  <2> QED
    BY <2>1, <2>2 DEF IgnoredFiles
<1>4. ASSUME NEW d \in DueLive, NEW mask \in LiveMasks PROVE d \in Purged[mask]
  <2>1. d \in Paths /\ (mask \in GoneMasks) = FALSE
    BY <1>2 DEF DueLive
  <2> QED
    BY <1>1, <1>2, <2>1 DEF Purged
<1>5. ASSUME NEW d \in DueGone, NEW mask \in GoneMasks PROVE d \in Purged[mask]
  <2>1. d \in Paths /\ (mask \in GoneMasks) = TRUE /\ Due(TRUE, File(d)) # {}
    BY DEF DueGone
  <2>2. \A i, j \in Deepest(File(d)) : i = j
    <3>1. \A i, j \in Deepest(File(d)) : Len(Watches[i].path) = Len(Watches[j].path)
      <4>1. \A i \in Deepest(File(d)) : i \in Holding(File(d)) /\ Len(Watches[i].path) \in Nat
        BY Configured DEF Deepest, Holding
      <4> QED
        BY <4>1 DEF Deepest
    <3> QED
      BY <2>1, <3>1, FilePath, SameRoot DEF FilesAgree, DistinctRoots, Deepest, Holding
  <2>3. Due(FALSE, File(d)) \subseteq Due(TRUE, File(d))
    BY <2>1, <2>2 DEF Due
  <2> QED
    BY <1>1, <1>2, <2>1, <2>3 DEF Purged
<1> QED
  BY <1>3, <1>4, <1>5 DEF FilesAgree

-----------------------------------------------------------------------------
(* What a change of the tree puts into the kernel's queue *)

Ev(kind, w, name) == [kind |-> kind, watch |-> w,
                      path |-> IF name = None THEN w ELSE Append(w, name)]

(* r is q with more events, those of S, at the end.                        *)
Grown(q, r, S) ==
  /\ q \in Seq(Event) /\ r \in Seq(Event)
  /\ Len(q) <= Len(r)
  /\ \A n \in 1..Len(q) : r[n] = q[n]
  /\ \A n \in 1..Len(r) : n > Len(q) => r[n] \in S

(* An event put at the end.                                                *)
LEMMA AppendGrows ==
  ASSUME NEW q \in Seq(Event), NEW e \in Event
  PROVE  /\ Grown(q, Append(q, e), {e})
         /\ Len(q) + 1 \in 1..Len(Append(q, e)) /\ Append(q, e)[Len(q) + 1] = e
<1>1. /\ Append(q, e) \in Seq(Event) /\ Len(q) \in Nat
      /\ Len(Append(q, e)) = Len(q) + 1 /\ Append(q, e)[Len(q) + 1] = e
      /\ \A n \in 1..Len(q) : Append(q, e)[n] = q[n]
  OBVIOUS
<1> QED
  BY <1>1 DEF Grown

(* The kernel adds the event or the notice that it dropped some; it is the *)
(* event unless there is a notice.                                         *)
LEMMA PostGrows ==
  ASSUME NEW q \in Seq(Event), NEW kind \in Kinds \ {"overflow"}, NEW w \in Paths, NEW name,
         Ev(kind, w, name).path \in Paths
  PROVE  /\ Grown(q, Post(q, kind, w, name), {Overflow, Ev(kind, w, name)})
         /\ ~Drops(Post(q, kind, w, name)) =>
              \E n \in 1..Len(Post(q, kind, w, name)) :
                n > Len(q) /\ Post(q, kind, w, name)[n] = Ev(kind, w, name)
<1>1. Ev(kind, w, name) \in Event
  BY DEF Ev, Event
<1>2. Overflow \in Event /\ Overflow.kind = "overflow"
  BY PathFacts DEF Overflow, Event, Kinds
<1>3. Post(q, kind, w, name) =
        IF Len(q) < MaxQueue THEN Append(q, Ev(kind, w, name))
        ELSE IF Contains(q, Overflow) THEN q ELSE Append(q, Overflow)
  BY PathFacts DEF Post, Ev
<1>4. Len(q) \in Nat
  OBVIOUS
<1>5. CASE Len(q) < MaxQueue
  <2>1. Post(q, kind, w, name) = Append(q, Ev(kind, w, name))
    BY <1>3, <1>5
  <2> QED
    BY <1>1, <1>4, <2>1, AppendGrows DEF Grown
<1>6. CASE ~(Len(q) < MaxQueue) /\ Contains(q, Overflow)
  <2>1. Post(q, kind, w, name) = q /\ Drops(q)
    BY <1>2, <1>3, <1>6 DEF Contains, Drops
  <2> QED
    BY <1>4, <2>1 DEF Grown
<1>7. CASE ~(Len(q) < MaxQueue) /\ ~Contains(q, Overflow)
  <2>1. Post(q, kind, w, name) = Append(q, Overflow)
    BY <1>3, <1>7
  <2>2. Grown(q, Append(q, Overflow), {Overflow}) /\ Drops(Append(q, Overflow))
    BY <1>2, AppendGrows DEF Drops
  <2> QED
    BY <2>1, <2>2 DEF Grown
<1> QED
  BY <1>5, <1>6, <1>7

(* Where nobody watches it adds nothing.                                   *)
LEMMA PostNone ==
  ASSUME NEW q \in Seq(Event), NEW kind, NEW name, NEW S
  PROVE  Post(q, kind, None, name) = q /\ Grown(q, q, S)
<1>1. Len(q) \in Nat
  OBVIOUS
<1> QED
  BY <1>1 DEF Post, Grown

(* Events of two changes, one after the other.                             *)
LEMMA GrownTwice ==
  ASSUME NEW q, NEW r, NEW s, NEW S, NEW T, Grown(q, r, S), Grown(r, s, T)
  PROVE  /\ Grown(q, s, S \cup T)
         /\ Drops(q) => Drops(s)
         /\ Drops(r) => Drops(s)
<1>1. Len(q) \in Nat /\ Len(r) \in Nat /\ Len(s) \in Nat
  BY DEF Grown
<1>2. \A n \in 1..Len(s) : n > Len(q) => s[n] \in S \cup T
  <2> SUFFICES ASSUME NEW n \in 1..Len(s), n > Len(q) PROVE s[n] \in S \cup T
    OBVIOUS
  <2>1. CASE n > Len(r)
    BY <2>1 DEF Grown
  <2>2. CASE ~(n > Len(r))
    <3>1. n \in 1..Len(r) /\ s[n] = r[n]
      BY <1>1, <2>2 DEF Grown
    <3> QED
      BY <3>1 DEF Grown
  <2> QED
    BY <2>1, <2>2
<1>3. \A n \in 1..Len(q) : n \in 1..Len(r) /\ n \in 1..Len(s) /\ s[n] = q[n]
  BY <1>1 DEF Grown
<1>4. \A n \in 1..Len(r) : n \in 1..Len(s) /\ s[n] = r[n]
  BY <1>1 DEF Grown
<1> QED
  BY <1>1, <1>2, <1>3, <1>4 DEF Grown, Drops

(* The kernel's queue after each change.                                   *)
LEMMA ChangeNews ==
  ASSUME IInv, NEW d \in Paths
  PROVE  /\ Mkdir(d) =>
              /\ Grown(queue, queue', {Overflow, Ev("mkdir", Front(d), Last(d))})
              /\ \/ marks[Front(d)] = None \/ Drops(queue')
                 \/ \E n \in 1..Len(queue') :
                      n > Len(queue) /\ queue'[n] = Ev("mkdir", Front(d), Last(d))
         /\ Rmdir(d) =>
              /\ Grown(queue, queue', {Overflow, Ev("self", d, None)})
              /\ marks[d] = None => queue' = queue
              /\ \/ marks[d] = None \/ Drops(queue')
                 \/ \E n \in 1..Len(queue') : n > Len(queue) /\ queue'[n] = Ev("self", d, None)
         /\ Write(d) =>
              /\ Grown(queue, queue', {Overflow, Ev("IN_CLOSE_WRITE", d, None)})
              /\ \/ marks[d] = None \/ Drops(queue')
                 \/ \E n \in 1..Len(queue') :
                      n > Len(queue) /\ queue'[n] = Ev("IN_CLOSE_WRITE", d, None)
         /\ Unlink(d) =>
              /\ Grown(queue, queue', {Overflow, Ev("IN_DELETE", d, None)})
              /\ \/ marks[d] = None \/ Drops(queue')
                 \/ \E n \in 1..Len(queue') :
                      n > Len(queue) /\ queue'[n] = Ev("IN_DELETE", d, None)
<1>1. queue \in Seq(Event) /\ marks[d] \in {d, None} /\ d # None
  BY PathFacts DEF IInv, TypeOK, MarksAreNames
<1>2. {"mkdir", "self", "IN_CLOSE_WRITE", "IN_DELETE"} \subseteq Kinds \ {"overflow"}
  BY DEF Kinds, FileMasks, LiveMasks, GoneMasks
<1>3. \A kind : Ev(kind, d, None).path \in Paths
  BY DEF Ev
<1>4. ASSUME NEW kind \in {"self", "IN_CLOSE_WRITE", "IN_DELETE"},
             queue' = Post(queue, kind, marks[d], None)
      PROVE  /\ Grown(queue, queue', {Overflow, Ev(kind, d, None)})
             /\ marks[d] = None => queue' = queue
             /\ \/ marks[d] = None \/ Drops(queue')
                \/ \E n \in 1..Len(queue') : n > Len(queue) /\ queue'[n] = Ev(kind, d, None)
  <2>1. CASE marks[d] = None
    BY <1>1, <1>4, <2>1, PostNone
  <2>2. CASE marks[d] = d
    <3>1. kind \in Kinds \ {"overflow"} /\ queue' = Post(queue, kind, d, None)
      BY <1>2, <1>4, <2>2
    <3> QED
      BY <1>1, <1>3, <2>2, <3>1, PostGrows
  <2> QED
    BY <1>1, <2>1, <2>2
<1>5. ASSUME Mkdir(d)
      PROVE  /\ Grown(queue, queue', {Overflow, Ev("mkdir", Front(d), Last(d))})
             /\ \/ marks[Front(d)] = None \/ Drops(queue')
                \/ \E n \in 1..Len(queue') :
                     n > Len(queue) /\ queue'[n] = Ev("mkdir", Front(d), Last(d))
  <2>1. d # Root /\ queue' = Post(queue, "mkdir", marks[Front(d)], Last(d))
    BY <1>5 DEF Mkdir
  <2>2. Front(d) \in Paths /\ Append(Front(d), Last(d)) = d
    BY <2>1, NameParts
  <2>3. marks[Front(d)] \in {Front(d), None}
    BY <2>2 DEF IInv, MarksAreNames
  <2>4. Ev("mkdir", Front(d), Last(d)).path \in Paths
    BY <2>2 DEF Ev
  <2>5. CASE marks[Front(d)] = None
    BY <1>1, <2>1, <2>5, PostNone
  <2>6. CASE marks[Front(d)] = Front(d)
    <3>1. queue' = Post(queue, "mkdir", Front(d), Last(d))
      BY <2>1, <2>6
    <3> QED
      BY <1>1, <1>2, <2>2, <2>4, <3>1, PostGrows
  <2> QED
    BY <2>3, <2>5, <2>6
<1>6. Rmdir(d) => queue' = Post(queue, "self", marks[d], None)
  BY DEF Rmdir
<1>7. Write(d) => queue' = Post(queue, "IN_CLOSE_WRITE", marks[d], None)
  BY DEF Write
<1>8. Unlink(d) => queue' = Post(queue, "IN_DELETE", marks[d], None)
  BY DEF Unlink
<1> QED
  BY <1>4, <1>5, <1>6, <1>7, <1>8

(* A renaming is told of at both directories.                              *)
LEMMA RenameNews ==
  ASSUME IInv, NEW d \in Paths, NEW e \in Paths, Rename(d, e)
  PROVE  /\ Grown(queue, queue', {Overflow, Ev("IN_MOVED_FROM", d, None), Ev("IN_MOVED_TO", e, None)})
         /\ \/ marks[d] = None \/ Drops(queue')
            \/ \E n \in 1..Len(queue') :
                 n > Len(queue) /\ queue'[n] = Ev("IN_MOVED_FROM", d, None)
         /\ \/ marks[e] = None \/ Drops(queue')
            \/ \E n \in 1..Len(queue') :
                 n > Len(queue) /\ queue'[n] = Ev("IN_MOVED_TO", e, None)
<1>1. PICK q : q = Post(queue, "IN_MOVED_FROM", marks[d], None)
  OBVIOUS
<1>2. queue' = Post(q, "IN_MOVED_TO", marks[e], None)
  BY <1>1 DEF Rename
<1>3. /\ queue \in Seq(Event) /\ marks[d] \in {d, None} /\ marks[e] \in {e, None}
      /\ d # None /\ e # None
  BY PathFacts DEF IInv, TypeOK, MarksAreNames
<1>4. {"IN_MOVED_FROM", "IN_MOVED_TO"} \subseteq Kinds \ {"overflow"}
  BY DEF Kinds, FileMasks, LiveMasks, GoneMasks
<1>5. Ev("IN_MOVED_FROM", d, None).path \in Paths /\ Ev("IN_MOVED_TO", e, None).path \in Paths
  BY DEF Ev
<1>6. /\ Grown(queue, q, {Overflow, Ev("IN_MOVED_FROM", d, None)})
      /\ \/ marks[d] = None \/ Drops(q)
         \/ \E n \in 1..Len(q) : n > Len(queue) /\ q[n] = Ev("IN_MOVED_FROM", d, None)
  <2>1. CASE marks[d] = None
    BY <1>1, <1>3, <2>1, PostNone
  <2>2. CASE marks[d] = d
    <3>1. q = Post(queue, "IN_MOVED_FROM", d, None)
      BY <1>1, <2>2
    <3> QED
      BY <1>3, <1>4, <1>5, <3>1, PostGrows
  <2> QED
    BY <1>3, <2>1, <2>2
<1>7. q \in Seq(Event) /\ Len(q) \in Nat /\ Len(queue) \in Nat /\ Len(queue) <= Len(q)
  BY <1>6 DEF Grown
<1>8. /\ Grown(q, queue', {Overflow, Ev("IN_MOVED_TO", e, None)})
      /\ \/ marks[e] = None \/ Drops(queue')
         \/ \E n \in 1..Len(queue') : n > Len(q) /\ queue'[n] = Ev("IN_MOVED_TO", e, None)
  <2>1. CASE marks[e] = None
    BY <1>2, <1>3, <1>7, <2>1, PostNone
  <2>2. CASE marks[e] = e
    <3>1. queue' = Post(q, "IN_MOVED_TO", e, None)
      BY <1>2, <2>2
    <3> QED
      BY <1>3, <1>4, <1>5, <1>7, <3>1, PostGrows
  <2> QED
    BY <1>3, <2>1, <2>2
<1>9. /\ Grown(queue, queue', {Overflow, Ev("IN_MOVED_FROM", d, None)} \cup
                              {Overflow, Ev("IN_MOVED_TO", e, None)})
      /\ Drops(q) => Drops(queue')
  BY <1>6, <1>8, GrownTwice
<1>10. Len(queue') \in Nat /\ \A n \in 1..Len(q) : n \in 1..Len(queue') /\ queue'[n] = q[n]
  BY <1>7, <1>8 DEF Grown
<1>11. \A n \in 1..Len(queue') : n > Len(q) => n > Len(queue)
  BY <1>7, <1>10
<1>12. Grown(queue, queue', {Overflow, Ev("IN_MOVED_FROM", d, None), Ev("IN_MOVED_TO", e, None)})
  BY <1>9 DEF Grown
<1> QED
  BY <1>6, <1>8, <1>9, <1>10, <1>11, <1>12

-----------------------------------------------------------------------------
(* What is left to do *)

(* The first of it and the rest.                                           *)
LEMMA TailLeft ==
  ASSUME NEW S, NEW t \in Seq(S)
  PROVE  /\ Left(t) \subseteq S
         /\ t # << >> => Left(t) = {Head(t)} \cup Left(Tail(t))
<1>1. Left(t) \subseteq S
  BY DEF Left
<1>2. ASSUME t # << >> PROVE Left(t) = {Head(t)} \cup Left(Tail(t))
  <2>1. /\ Head(t) = t[1] /\ Len(t) \in Nat \ {0} /\ Len(Tail(t)) = Len(t) - 1
        /\ \A k \in 1..Len(Tail(t)) : k + 1 \in 1..Len(t) /\ Tail(t)[k] = t[k + 1]
    BY <1>2, TailMoves
  <2>2. \A k \in 1..Len(t) : k = 1 \/ (k - 1 \in 1..Len(Tail(t)) /\ Tail(t)[k - 1] = t[k])
    BY <2>1
  <2>3. 1 \in 1..Len(t)
    BY <2>1
  <2> HIDE DEF Left
  <2>4. Left(t) \subseteq {Head(t)} \cup Left(Tail(t))
    BY <2>1, <2>2 DEF Left
  <2>5. {Head(t)} \cup Left(Tail(t)) \subseteq Left(t)
    BY <2>1, <2>3 DEF Left
  <2> QED
    BY <2>4, <2>5
<1> QED
  BY <1>1, <1>2

(* Two lists, one after the other.                                         *)
LEMMA JoinLeft ==
  ASSUME NEW S, NEW s \in Seq(S), NEW t \in Seq(S)
  PROVE  Left(s \o t) = Left(s) \cup Left(t)
<1>1. /\ Len(s) \in Nat /\ Len(t) \in Nat /\ Len(s \o t) = Len(s) + Len(t)
      /\ \A k \in 1..Len(s) + Len(t) : (s \o t)[k] = IF k <= Len(s) THEN s[k] ELSE t[k - Len(s)]
  OBVIOUS
<1>2. Left(s \o t) \subseteq Left(s) \cup Left(t)
  <2> SUFFICES ASSUME NEW k \in 1..Len(s \o t) PROVE (s \o t)[k] \in Left(s) \cup Left(t)
    BY DEF Left
  <2>1. CASE k <= Len(s)
    BY <1>1, <2>1 DEF Left
  <2>2. CASE ~(k <= Len(s))
    <3>1. k - Len(s) \in 1..Len(t)
      BY <1>1, <2>2
    <3> QED
      BY <1>1, <2>2, <3>1 DEF Left
  <2> QED
    BY <2>1, <2>2
<1>3. Left(s) \subseteq Left(s \o t)
  <2> SUFFICES ASSUME NEW k \in 1..Len(s) PROVE s[k] \in Left(s \o t)
    BY DEF Left
  <2>1. k \in 1..Len(s \o t) /\ (s \o t)[k] = s[k]
    BY <1>1
  <2> QED
    BY <2>1 DEF Left
<1>4. Left(t) \subseteq Left(s \o t)
  <2> SUFFICES ASSUME NEW k \in 1..Len(t) PROVE t[k] \in Left(s \o t)
    BY DEF Left
  <2>1. k + Len(s) \in 1..Len(s \o t) /\ (s \o t)[k + Len(s)] = t[k]
    BY <1>1
  <2> QED
    BY <2>1 DEF Left
<1> QED
  BY <1>2, <1>3, <1>4

(* A list of one.                                                          *)
LEMMA OneLeft ==
  ASSUME NEW w
  PROVE  Left(<<w>>) = {w} /\ Left(<< >>) = {}
BY DEF Left

(* Whatever the order, all of it is in the list.                           *)
LEMMA OrderLeft ==
  ASSUME NEW E, IsFiniteSet(E), NEW order \in SetToSeqs(E)
  PROVE  Left(order) = E
<1>1. PICK n \in Nat : n = Cardinality(E)
  BY FS_CardinalityType
<1>2. order \in [1..n -> E] /\ \A i, j \in 1..n : i # j => order[i] # order[j]
  BY <1>1 DEF SetToSeqs
<1>3. order \in Injection(1..n, E)
  BY <1>2 DEF Injection, IsInjective
<1>4. Cardinality(1..n) = n
  BY <1>1, FS_Interval
<1>5. order \in Surjection(1..n, E)
  BY <1>1, <1>3, <1>4, FS_Injection
<1>6. Len(order) = n
  BY <1>1, <1>2
<1> QED
  BY <1>2, <1>5, <1>6 DEF Left, Surjection

(* But for the first.                                                      *)
Rest == Left(Tail(todo))

(* What each step of the watcher does to the work left.                    *)
LEMMA WorkLeft ==
  ASSUME IInv
  PROVE  /\ todo = << >> => Left(todo) = {}
         /\ todo # << >> => Left(todo) = {Head(todo)} \cup Rest
         /\ AddSkip \/ Synthesize => Left(todo') = Rest
         /\ AddRefused => Left(todo') = IF phase = "walking" THEN {} ELSE Rest
         /\ AddWatch => Left(todo') = {Do("scan", Head(todo).path, Head(todo).wc)} \cup Rest
         /\ Scan => Left(todo') = Entries(Head(todo).path, Head(todo).wc) \cup Rest
<1>1. TypeOK /\ IsFiniteSet(dirs) /\ todo \in Seq(Work)
  BY DEF IInv, TypeOK
<1>2. todo # << >> => Tail(todo) \in Seq(Work)
  BY <1>1, TailMoves
<1>3. todo = << >> => Left(todo) = {}
  BY OneLeft
<1>4. todo # << >> => Left(todo) = {Head(todo)} \cup Rest
  BY <1>1, TailLeft DEF Rest
<1>5. AddSkip \/ Synthesize => Left(todo') = Rest
  BY DEF AddSkip, Synthesize, Rest
<1>6. AddRefused => Left(todo') = IF phase = "walking" THEN {} ELSE Rest
  BY OneLeft DEF AddRefused, Rest
<1>7. ASSUME AddWatch
      PROVE  Left(todo') = {Do("scan", Head(todo).path, Head(todo).wc)} \cup Rest
  <2>1. Working("add") /\ todo' = <<Do("scan", Head(todo).path, Head(todo).wc)>> \o Tail(todo)
    BY <1>7 DEF AddWatch
  <2>2. Head(todo).path \in Paths /\ Head(todo).wc \in WatchIds /\ Tail(todo) \in Seq(Work)
    BY <1>1, <2>1, WorkType
  <2>3. PICK w \in Work : w = Do("scan", Head(todo).path, Head(todo).wc)
    BY <2>2 DEF Do, Work
  <2>4. <<w>> \in Seq(Work) /\ todo' = <<w>> \o Tail(todo)
    BY <2>1, <2>3
  <2>5. Left(todo') = Left(<<w>>) \cup Rest
    BY <2>2, <2>4, JoinLeft DEF Rest
  <2> QED
    BY <2>3, <2>5, OneLeft
<1>8. ASSUME Scan
      PROVE  Left(todo') = Entries(Head(todo).path, Head(todo).wc) \cup Rest
  <2>1. Working("scan")
    BY <1>8 DEF Scan
  <2>2. Head(todo).path \in Paths /\ Head(todo).wc \in WatchIds /\ Tail(todo) \in Seq(Work)
    BY <1>1, <2>1, WorkType
  <2>3. PICK order \in SetToSeqs(Entries(Head(todo).path, Head(todo).wc)) : todo' = order \o Tail(todo)
    BY <1>8 DEF Scan
  <2>4. IsFiniteSet(Entries(Head(todo).path, Head(todo).wc)) /\ order \in Seq(Work)
    BY <1>1, <2>2, EntriesFinite, ScanType
  <2>5. Left(order) = Entries(Head(todo).path, Head(todo).wc)
    BY <2>4, OrderLeft
  <2>6. Left(order \o Tail(todo)) = Left(order) \cup Left(Tail(todo))
    BY <2>2, <2>4, JoinLeft
  <2> QED
    BY <2>3, <2>5, <2>6 DEF Rest
<1> QED
  BY <1>3, <1>4, <1>5, <1>6, <1>7, <1>8

-----------------------------------------------------------------------------
(* What holds even when events are dropped *)

Frame == NothingHeld /\ TreeIsClosed /\ EventsFit /\ WorkFits

(* What the kernel says in an event.                                       *)
LEMMA EvFacts ==
  /\ Overflow.kind = "overflow"
  /\ \A kind, d : Ev(kind, d, None) = [kind |-> kind, watch |-> d, path |-> d]
  /\ \A d \in Paths \ {Root} :
       Ev("mkdir", Front(d), Last(d)) = [kind |-> "mkdir", watch |-> Front(d), path |-> d]
<1>1. ASSUME NEW d \in Paths \ {Root}
      PROVE  Ev("mkdir", Front(d), Last(d)) = [kind |-> "mkdir", watch |-> Front(d), path |-> d]
  <2>1. Append(Front(d), Last(d)) = d
    BY NameParts
  <2>2. Last(d) # None
    <3>1. PICK n \in 0..Depth : d \in [1..n -> Names]
      BY DEF Paths
    <3>2. Len(d) = n /\ n # 0
      BY <3>1, WatcherAssumption DEF Root
    <3>3. Last(d) \in Names
      BY <3>1, <3>2, WatcherAssumption DEF Last
    <3> QED
      BY <3>3, WatcherAssumption
  <2> QED
    BY <2>1, <2>2 DEF Ev
<1>2. \A kind, d : Ev(kind, d, None) = [kind |-> kind, watch |-> d, path |-> d]
  BY DEF Ev
<1>3. Overflow.kind = "overflow"
  BY DEF Overflow
<1> QED
  BY <1>1, <1>2, <1>3

(* New events that fit keep the queue fitting.                             *)
LEMMA NewEventsFit ==
  ASSUME EventsFit, NEW S, Grown(queue, queue', S),
         \A e \in S : /\ e.kind = "self" => e.watch # Root
                      /\ e.kind = "mkdir" => e.path # Root /\ Front(e.path) = e.watch
                      /\ e.kind \in FileMasks => e.path = e.watch
  PROVE  EventsFit'
<1>1. Len(queue) \in Nat /\ Len(queue') \in Nat
  BY DEF Grown
<1>2. \A n \in 1..Len(queue') : (n \in 1..Len(queue) /\ queue'[n] = queue[n]) \/ queue'[n] \in S
  BY <1>1 DEF Grown
<1> QED
  BY <1>2 DEF EventsFit

(* A change of the tree.                                                   *)
LEMMA ChangeFrame ==
  ASSUME IInv, Frame, NEW d \in Paths,
         Mkdir(d) \/ Rmdir(d) \/ Write(d) \/ Unlink(d) \/ \E e \in Paths : Rename(d, e)
  PROVE  Frame'
<1>1. /\ UNCHANGED <<config, todo, phase>>
      /\ marks \in [Paths -> Paths \cup {None}] /\ queue \in Seq(Event) /\ dirs \subseteq Paths
  BY DEF Mkdir, Rmdir, Write, Unlink, Rename, Change, reader, IInv, TypeOK
<1>2. WorkFits'
  BY <1>1 DEF Frame, WorkFits, Left
<1>3. EventsFit'
  <2>1. "mkdir" \notin FileMasks /\ "self" \notin FileMasks /\ "overflow" \notin FileMasks
    BY DEF FileMasks, LiveMasks, GoneMasks
  <2>2. CASE Mkdir(d)
    <3>1. Grown(queue, queue', {Overflow, Ev("mkdir", Front(d), Last(d))}) /\ d \in Paths \ {Root}
      BY <2>2, ChangeNews DEF Mkdir
    <3> QED
      BY <2>1, <3>1, EvFacts, NewEventsFit DEF Frame
  <2>3. CASE Rmdir(d)
    <3>1. Grown(queue, queue', {Overflow, Ev("self", d, None)}) /\ d # Root
      BY <2>3, ChangeNews DEF Rmdir
    <3> QED
      BY <2>1, <3>1, EvFacts, NewEventsFit DEF Frame
  <2>4. CASE Write(d)
    <3>1. Grown(queue, queue', {Overflow, Ev("IN_CLOSE_WRITE", d, None)})
      BY <2>4, ChangeNews
    <3> QED
      BY <2>1, <3>1, EvFacts, NewEventsFit DEF Frame
  <2>5. CASE Unlink(d)
    <3>1. Grown(queue, queue', {Overflow, Ev("IN_DELETE", d, None)})
      BY <2>5, ChangeNews
    <3> QED
      BY <2>1, <3>1, EvFacts, NewEventsFit DEF Frame
  <2>6. ASSUME NEW e \in Paths, Rename(d, e) PROVE EventsFit'
    <3>1. Grown(queue, queue', {Overflow, Ev("IN_MOVED_FROM", d, None), Ev("IN_MOVED_TO", e, None)})
      BY <2>6, RenameNews
    <3> QED
      BY <2>1, <3>1, EvFacts, NewEventsFit DEF Frame
  <2> QED
    BY <2>2, <2>3, <2>4, <2>5, <2>6
<1>4. TreeIsClosed'
  <2>1. CASE Mkdir(d)
    BY <2>1 DEF Mkdir, Frame, TreeIsClosed
  <2>2. CASE Rmdir(d)
    BY <2>2 DEF Rmdir, Children, Frame, TreeIsClosed
  <2>3. CASE ~Mkdir(d) /\ ~Rmdir(d)
    BY <2>3 DEF Write, Unlink, Rename, Frame, TreeIsClosed
  <2> QED
    BY <2>1, <2>2, <2>3
<1>5. NothingHeld'
  <2>1. blind' \subseteq blind
    BY DEF Mkdir, Rmdir, Write, Unlink, Rename
  <2>2. ASSUME phase = "closed" PROVE marks' = marks /\ queue' = queue
    <3>1. \A e \in Paths : marks[e] = None
      BY <2>2 DEF Frame, NothingHeld
    <3>2. \A kind, name : Post(queue, kind, None, name) = queue
      BY DEF Post
    <3>3. CASE Mkdir(d)
      <4>1. Front(d) \in Paths
        BY <3>3, NameParts DEF Mkdir
      <4> QED
        BY <3>1, <3>2, <3>3, <4>1 DEF Mkdir
    <3>4. CASE Rmdir(d)
      <4>1. [marks EXCEPT ![d] = None] = marks
        BY <1>1, <3>1
      <4> QED
        BY <3>1, <3>2, <3>4, <4>1 DEF Rmdir
    <3>5. CASE Write(d) \/ Unlink(d)
      BY <3>1, <3>2, <3>5 DEF Write, Unlink
    <3>6. ASSUME NEW e \in Paths, Rename(d, e) PROVE marks' = marks /\ queue' = queue
      BY <3>1, <3>2, <3>6 DEF Rename
    <3> QED
      BY <3>3, <3>4, <3>5, <3>6
  <2> QED
    BY <1>1, <2>1, <2>2 DEF Frame, NothingHeld
<1> QED
  BY <1>2, <1>3, <1>4, <1>5 DEF Frame

(* What a walk through a directory finds is below the root of its watch.   *)
LEMMA EntriesHold ==
  ASSUME TypeOK, NEW d \in Paths, NEW i \in WatchIds, i \in Holding(d),
         NEW w \in Entries(d, i)
  PROVE  /\ w.wc \in Holding(w.path)
         /\ w.op = "add" => Watches[w.wc].path # w.path
         /\ w.op # "scan"
<1>1. CASE w \in Subdirs(d, i)
  <2>1. PICK e \in Children(d) : w = Do("add", e, i)
    BY <1>1 DEF Subdirs
  <2>2. e \in Paths /\ e # Root /\ Front(e) = d
    BY <2>1 DEF Children, TypeOK
  <2>3. i \in Holding(e) /\ Watches[i].path # e
    BY <2>2, HoldingBelow
  <2> QED
    BY <2>1, <2>3 DEF Do
<1>2. CASE w \in NewFiles(d, i)
  <2>1. w = Do("file", d, i)
    BY <1>2 DEF NewFiles
  <2> QED
    BY <2>1 DEF Do
<1> QED
  BY <1>1, <1>2 DEF Entries

(* A step of the watcher, its opening and its closing.                     *)
LEMMA WatcherFrame ==
  ASSUME IInv, Frame, Open \/ Close \/ WatcherStep
  PROVE  Frame'
<1>1. /\ TypeOK /\ queue \in Seq(Event) /\ todo \in Seq(Work)
      /\ NothingHeld /\ TreeIsClosed /\ EventsFit /\ WorkFits
  BY DEF IInv, TypeOK, Frame
<1>2. UNCHANGED dirs
  BY DEF Open, Close, WatcherStep, WalkDone, AddSkip, AddRefused, AddWatch, Scan, Synthesize,
         YieldSynthetic, ReadOverflow, ReadSelf, ReadMkdir, ReadFile, tree
<1>3. TreeIsClosed'
  BY <1>1, <1>2 DEF TreeIsClosed
<1>4. ASSUME UNCHANGED <<marks, queue, config, blind>>,
             phase' \in {"closed", "walking"} => phase \in {"closed", "walking"},
             phase' = "closed" => phase = "closed" /\ todo' = todo
      PROVE  NothingHeld' /\ EventsFit'
  BY <1>1, <1>4 DEF NothingHeld, EventsFit
<1>5. ASSUME UNCHANGED <<config, phase>>, Left(todo') \subseteq Left(todo)
      PROVE  WorkFits'
  BY <1>1, <1>5 DEF WorkFits
<1>6. CASE Open
  <2>1. NothingHeld' /\ EventsFit'
    BY <1>4, <1>6 DEF Open, kernel, history
  <2>2. CASE phase' = "refused" /\ todo' = todo
    BY <1>1, <1>3, <1>6, <2>1, <2>2 DEF Open, WorkFits, Frame
  <2>3. CASE phase' = "walking" /\ todo' = [i \in WatchIds |-> Do("add", Watches[i].path, i)]
    <3>1. PICK t : t = [i \in WatchIds |-> Do("add", Watches[i].path, i)]
      OBVIOUS
    <3>2. Len(t) = Len(Watches) /\ \A i \in 1..Len(t) : i \in WatchIds /\ t[i] = Do("add", Watches[i].path, i)
      BY <3>1, WatchFacts
    <3>3. \A i \in WatchIds : i \in Holding(Watches[i].path)
      BY WatchFacts, HoldingBelow
    <3>4. \A w \in Left(t) : w.wc \in Holding(w.path)
      <4>1. \A i \in 1..Len(t) : t[i].wc = i /\ t[i].path = Watches[i].path /\ i \in WatchIds
        <5> SUFFICES ASSUME NEW i \in 1..Len(t)
                     PROVE  t[i].wc = i /\ t[i].path = Watches[i].path /\ i \in WatchIds
          OBVIOUS
        <5>1. i \in WatchIds /\ t[i] = Do("add", Watches[i].path, i)
          BY <3>2
        <5>2. Do("add", Watches[i].path, i).wc = i /\ Do("add", Watches[i].path, i).path = Watches[i].path
          BY DEF Do
        <5> QED
          BY <5>1, <5>2
      <4> QED
        BY <3>3, <4>1 DEF Left
    <3>5. todo' = t /\ config' = config /\ phase' # "running"
      BY <1>6, <2>3, <3>1 DEF Open
    <3>6. WorkFits'
      BY <1>1, <3>4, <3>5 DEF WorkFits
    <3> QED
      BY <1>3, <2>1, <3>6 DEF Frame
  <2> QED
    BY <1>6, <2>2, <2>3 DEF Open
<1>7. CASE Close
  <2>1. NothingHeld' /\ EventsFit'
    BY <1>7 DEF Close, NothingHeld, EventsFit
  <2>2. WorkFits'
    BY <1>7, OneLeft DEF Close, WorkFits
  <2> QED
    BY <1>3, <2>1, <2>2 DEF Frame
<1>8. CASE WalkDone
  <2>1. NothingHeld' /\ EventsFit'
    BY <1>4, <1>8 DEF WalkDone, kernel, reader, history
  <2>2. Left(todo') = {} /\ config' = config
    BY <1>8, OneLeft DEF WalkDone, reader
  <2>3. WorkFits'
    BY <1>1, <2>2 DEF WorkFits
  <2> QED
    BY <1>3, <2>1, <2>3 DEF Frame
<1>9. CASE AddSkip \/ Synthesize
  <2>1. NothingHeld' /\ EventsFit'
    <3>1. phase # "closed"
      BY <1>1, <1>9 DEF AddSkip, Synthesize, Working, NothingHeld
    <3> QED
      BY <1>4, <1>9, <3>1 DEF AddSkip, Synthesize, kernel, history
  <2>2. Left(todo') = Rest /\ Left(todo) = {Head(todo)} \cup Rest /\ UNCHANGED <<config, phase>>
    BY <1>9, WorkLeft DEF AddSkip, Synthesize, Working
  <2>3. WorkFits'
    BY <1>5, <2>2
  <2> QED
    BY <1>3, <2>1, <2>3 DEF Frame
<1>10. CASE AddRefused
  <2>1. /\ Left(todo) = {Head(todo)} \cup Rest /\ config' = config
        /\ Left(todo') = IF phase = "walking" THEN {} ELSE Rest
    BY <1>10, WorkLeft DEF AddRefused, Working
  <2>2. CASE phase = "walking"
    <3>1. phase' = "refused" /\ queue' = << >>
      BY <1>10, <2>2 DEF AddRefused
    <3>2. NothingHeld' /\ EventsFit'
      BY <3>1 DEF NothingHeld, EventsFit
    <3>3. WorkFits'
      BY <1>1, <2>1, <2>2 DEF WorkFits
    <3> QED
      BY <1>3, <3>2, <3>3 DEF Frame
  <2>3. CASE phase # "walking"
    <3>1. UNCHANGED <<phase, marks, queue, config>>
      BY <1>10, <2>3 DEF AddRefused
    <3>2. phase # "closed"
      BY <1>1, <1>10 DEF AddRefused, Working, NothingHeld
    <3> QED
      BY <1>1, <1>3, <1>5, <2>1, <2>3, <3>1, <3>2 DEF Frame, NothingHeld, EventsFit
  <2> QED
    BY <2>2, <2>3
<1>11. ASSUME UNCHANGED <<marks, queue, config, phase>>, blind' \subseteq blind, todo # << >>
       PROVE  NothingHeld' /\ EventsFit'
  BY <1>1, <1>11 DEF NothingHeld, EventsFit
<1>12. CASE AddWatch
  <2>1. /\ Left(todo) = {Head(todo)} \cup Rest
        /\ Left(todo') = {Do("scan", Head(todo).path, Head(todo).wc)} \cup Rest
    BY <1>12, WorkLeft DEF AddWatch, Working
  <2>2. PICK d \in Paths, i \in WatchIds : d = Head(todo).path /\ i = Head(todo).wc
    BY <1>1, <1>12, WorkType DEF AddWatch
  <2>3. /\ config' = [config EXCEPT ![d] = i] /\ UNCHANGED <<phase, queue>>
        /\ blind' = blind \ {d} /\ todo # << >>
    BY <1>12, <2>2 DEF AddWatch, Working
  <2>4. i \in Holding(d) /\ \A w \in Rest : w \in Left(todo)
    BY <1>1, <2>1, <2>2 DEF WorkFits
  <2>5. \A e \in Paths : config'[e] = config[e] \/ (e = d /\ config'[e] = i)
    BY <1>1, <2>3 DEF TypeOK
  <2>6. WorkFits'
    <3>1. \A w \in Left(todo') : w \in Left(todo) \/ (w.wc = i /\ w.path = d /\ w.op # "add")
      BY <2>1, <2>2 DEF Do
    <3> QED
      BY <1>1, <2>3, <2>4, <2>5, <3>1 DEF WorkFits
  <2>7. phase # "closed"
    BY <1>1, <2>3 DEF NothingHeld
  <2>8. NothingHeld' /\ EventsFit'
    BY <1>1, <2>3, <2>7 DEF NothingHeld, EventsFit
  <2> QED
    BY <1>3, <2>6, <2>8 DEF Frame
<1>13. CASE Scan
  <2>1. PICK d \in Paths, i \in WatchIds : d = Head(todo).path /\ i = Head(todo).wc
    BY <1>1, <1>13, WorkType DEF Scan
  <2>2. Left(todo) = {Head(todo)} \cup Rest /\ Left(todo') = Entries(d, i) \cup Rest
    BY <1>13, <2>1, WorkLeft DEF Scan, Working
  <2>3. UNCHANGED <<marks, queue, config, phase, blind>> /\ todo # << >>
    BY <1>13 DEF Scan, Working, kernel, history
  <2>4. i \in Holding(d)
    BY <1>1, <2>1, <2>2 DEF WorkFits
  <2>5. WorkFits'
    BY <1>1, <2>2, <2>3, <2>4, EntriesHold DEF WorkFits
  <2> QED
    BY <1>3, <1>11, <2>3, <2>5 DEF Frame
<1>14. CASE YieldSynthetic
  <2>1. UNCHANGED <<marks, queue, config, phase, todo, blind>>
    BY <1>14 DEF YieldSynthetic, kernel
  <2> QED
    BY <1>1, <1>3, <2>1 DEF Frame, NothingHeld, EventsFit, WorkFits
<1>15. ASSUME NEW kinds, Get(kinds), phase' = phase PROVE NothingHeld' /\ EventsFit'
  <2>1. phase = "running" /\ queue # << >> /\ queue' = Tail(queue)
    BY <1>15 DEF Get, Reading
  <2>2. \A n \in 1..Len(queue') : n + 1 \in 1..Len(queue) /\ queue'[n] = queue[n + 1]
    BY <1>1, <2>1, TailMoves
  <2> QED
    BY <1>1, <1>15, <2>1, <2>2 DEF NothingHeld, EventsFit
<1>16. CASE ReadOverflow \/ ReadFile
  <2>1. NothingHeld' /\ EventsFit' /\ UNCHANGED <<config, phase, todo>>
    BY <1>15, <1>16 DEF ReadOverflow, ReadFile, reader
  <2> QED
    BY <1>3, <1>5, <2>1 DEF Frame
<1>17. CASE ReadSelf
  <2>1. PICK d \in Paths : config' = [config EXCEPT ![d] = 0]
    BY <1>1, <1>17, EventType DEF ReadSelf
  <2>2. \A e \in Paths : config'[e] = config[e] \/ config'[e] = 0
    BY <1>1, <2>1 DEF TypeOK
  <2>3. NothingHeld' /\ EventsFit' /\ UNCHANGED <<phase, todo>>
    BY <1>15, <1>17 DEF ReadSelf
  <2>4. WorkFits'
    BY <1>1, <2>2, <2>3 DEF WorkFits
  <2> QED
    BY <1>3, <2>3, <2>4 DEF Frame
<1>18. CASE ReadMkdir
  <2>1. NothingHeld' /\ EventsFit' /\ UNCHANGED <<phase, config>>
    BY <1>15, <1>18 DEF ReadMkdir
  <2>2. PICK d \in Paths, p \in Paths :
          d = Head(queue).path /\ p = Head(queue).watch /\ Head(queue).kind = "mkdir"
    BY <1>1, <1>18, EventType DEF ReadMkdir
  <2>3. Head(queue) = queue[1] /\ 1 \in 1..Len(queue)
    BY <1>1, <1>18, TailMoves DEF ReadMkdir, Get
  <2>4. d # Root /\ Front(d) = p
    BY <1>1, <2>2, <2>3 DEF EventsFit
  <2>5. PICK i : i = config[p]
    OBVIOUS
  <2>6. todo' = IF i # 0 THEN <<Do("add", d, i)>> ELSE << >>
    BY <1>18, <2>2, <2>5 DEF ReadMkdir
  <2>7. \A w \in Left(todo') : w = Do("add", d, i) /\ i # 0
    BY <2>6, OneLeft
  <2>8. i # 0 => i \in Holding(d) /\ Watches[i].path # d
    <3>1. i # 0 => i \in WatchIds /\ i \in Holding(p)
      BY <1>1, <2>5 DEF TypeOK, WorkFits
    <3> QED
      BY <2>4, <3>1, HoldingBelow
  <2>9. WorkFits'
    BY <1>1, <2>1, <2>7, <2>8 DEF WorkFits, Do
  <2> QED
    BY <1>3, <2>1, <2>9 DEF Frame
<1> QED
  BY <1>6, <1>7, <1>8, <1>9, <1>10, <1>12, <1>13, <1>14, <1>16, <1>17, <1>18 DEF WatcherStep

-----------------------------------------------------------------------------
(* While nothing is dropped *)

(* Events stay where they are when others come.                            *)
LEMMA GrownKeeps ==
  ASSUME NEW S, Grown(queue, queue', S)
  PROVE  /\ \A n \in Nat, d \in Paths : /\ MadeAt(n, d) => MadeAt(n, d)'
                                        /\ SelfAt(n, d) => SelfAt(n, d)'
         /\ \A n \in Nat : \A masks, d : FileAt(n, masks, d) => FileAt(n, masks, d)'
         /\ \A n \in Nat, d \in Paths : SelfAt(n, d)' =>
              SelfAt(n, d) \/ (queue'[n] \in S /\ queue'[n].kind = "self" /\ queue'[n].watch = d)
         /\ \A n \in Nat : \A d : SelfAt(n, d) \/ MadeAt(n, d) => n <= Len(queue)
         /\ \A n \in Nat : \A masks, d : FileAt(n, masks, d) => n <= Len(queue)
         /\ Len(queue) \in Nat /\ Len(queue') \in Nat
         /\ ~Drops(queue') => ~Drops(queue)
<1>1. Len(queue) \in Nat /\ Len(queue') \in Nat
  BY DEF Grown
<1>2. \A n \in 1..Len(queue) : n \in 1..Len(queue') /\ queue'[n] = queue[n]
  BY <1>1 DEF Grown
<1>3. \A n \in 1..Len(queue') : n \in 1..Len(queue) \/ queue'[n] \in S
  BY <1>1 DEF Grown
<1> QED
  BY <1>1, <1>2, <1>3 DEF MadeAt, SelfAt, FileAt, Drops

(* Reading an event moves the others up by one.                            *)
LEMMA GetKeeps ==
  ASSUME TypeOK, NEW kinds, Get(kinds)
  PROVE  /\ \A n \in Nat, d \in Paths :
              /\ MadeAt(n, d) => n = 1 \/ MadeAt(n - 1, d)'
              /\ SelfAt(n, d) => n = 1 \/ SelfAt(n - 1, d)'
              /\ SelfAt(n, d)' => SelfAt(n + 1, d)
         /\ \A n \in Nat : \A masks, d : FileAt(n, masks, d) => n = 1 \/ FileAt(n - 1, masks, d)'
         /\ Head(queue) = queue[1]
         /\ Drops(queue) => "overflow" \in kinds \/ Drops(queue')
<1>1. /\ queue # << >> /\ queue' = Tail(queue) /\ queue \in Seq(Event)
      /\ Head(queue).kind \in kinds
  BY DEF Get, TypeOK
<1>2. /\ Head(queue) = queue[1] /\ Len(queue) \in Nat \ {0} /\ Len(queue') = Len(queue) - 1
      /\ \A n \in 1..Len(queue') : n + 1 \in 1..Len(queue) /\ queue'[n] = queue[n + 1]
  BY <1>1, TailMoves
<1>3. \A n \in 1..Len(queue) : n = 1 \/ (n - 1 \in 1..Len(queue') /\ queue'[n - 1] = queue[n])
  BY <1>2
<1> QED
  BY <1>1, <1>2, <1>3 DEF MadeAt, SelfAt, FileAt, Drops

(* What the watcher or the kernel has lost stays lost until it is opened.  *)
LEMMA SoundBefore ==
  ASSUME IInv, Frame, Next, Sound'
  PROVE  Sound \/ Open
<1>1. TypeOK /\ WorkFits /\ NothingHeld /\ queue \in Seq(Event)
  BY DEF IInv, Frame, TypeOK
<1>2. ASSUME NEW d \in Paths,
             Mkdir(d) \/ Rmdir(d) \/ Write(d) \/ Unlink(d) \/ \E e \in Paths : Rename(d, e)
      PROVE  Sound
  <2>1. phase' = phase /\ (Root \in blind => Root \in blind')
    BY <1>2 DEF Mkdir, Rmdir, Write, Unlink, Rename, Change
  <2>2. \E S : Grown(queue, queue', S)
    BY <1>2, ChangeNews, RenameNews
  <2>3. ~Drops(queue') => ~Drops(queue)
    BY <2>2, GrownKeeps
  <2> QED
    BY <2>1, <2>3 DEF Sound, Live, Lost
<1>3. ASSUME UNCHANGED queue, Root \in blind => Root \in blind', Live' => Live PROVE Sound
  BY <1>3 DEF Sound, Lost
<1>4. CASE Close
  BY <1>4 DEF Close, Sound, Live
<1>5. CASE WalkDone \/ AddSkip \/ Scan \/ Synthesize \/ YieldSynthetic
  BY <1>3, <1>5 DEF WalkDone, AddSkip, Scan, Synthesize, YieldSynthetic, kernel, history, Live
<1>6. CASE AddRefused
  BY <1>3, <1>6 DEF AddRefused, Sound, Live
<1>7. CASE AddWatch
  <2>1. PICK d \in Paths, i \in WatchIds :
          d = Head(todo).path /\ i = Head(todo).wc /\ Head(todo).op = "add"
    BY <1>1, <1>7, WorkType DEF AddWatch
  <2>2. /\ blind' = blind \ {d} /\ UNCHANGED <<queue, phase>>
        /\ Head(todo) \in Left(todo)
    BY <1>7, <2>1, WorkLeft DEF AddWatch, Working
  <2>3. phase = "running" => d # Root
    BY <1>1, <2>1, <2>2, HoldingBelow DEF WorkFits
  <2>4. Root \in blind => Root \in blind' \/ ~Live
    BY <1>1, <2>2, <2>3 DEF NothingHeld, Live
  <2> QED
    BY <2>2, <2>4 DEF Sound, Lost, Live
<1>8. CASE ReadOverflow
  BY <1>8 DEF ReadOverflow, Sound, Lost
<1>9. ASSUME NEW kinds, Get(kinds), "overflow" \notin kinds, UNCHANGED <<phase, blind>> PROVE Sound
  BY <1>1, <1>9, GetKeeps DEF Sound, Lost, Live
<1>10. CASE ReadSelf \/ ReadMkdir \/ ReadFile
  <2>1. "overflow" \notin FileMasks /\ "overflow" \notin {"self"} /\ "overflow" \notin {"mkdir"}
    BY DEF FileMasks, LiveMasks, GoneMasks
  <2> QED
    BY <1>9, <1>10, <2>1 DEF ReadSelf, ReadMkdir, ReadFile, history
<1> QED
  BY <1>2, <1>4, <1>5, <1>6, <1>7, <1>8, <1>10 DEF Next, WatcherStep

Covered == EntriesFit /\ RemovalsFit /\ DirsAreReached

(* The events of a change, none of which is dropped.                       *)
LEMMA SoundNews ==
  ASSUME IInv, NEW d \in Paths, ~Drops(queue')
  PROVE  /\ Mkdir(d) /\ marks[Front(d)] # None =>
              \E n \in Nat : n > Len(queue) /\ MadeAt(n, d)'
         /\ Rmdir(d) /\ marks[d] # None =>
              \E n \in Nat : n > Len(queue) /\ SelfAt(n, d)'
<1>1. ASSUME Mkdir(d), marks[Front(d)] # None
      PROVE  \E n \in Nat : n > Len(queue) /\ MadeAt(n, d)'
  <2>1. PICK n \in 1..Len(queue') : n > Len(queue) /\ queue'[n] = Ev("mkdir", Front(d), Last(d))
    BY <1>1, ChangeNews
  <2>2. queue'[n] = [kind |-> "mkdir", watch |-> Front(d), path |-> d]
    BY <1>1, <2>1, EvFacts DEF Mkdir
  <2>3. n \in Nat /\ MadeAt(n, d)'
    BY <2>1, <2>2 DEF MadeAt
  <2> QED
    BY <2>1, <2>3
<1>2. ASSUME Rmdir(d), marks[d] # None
      PROVE  \E n \in Nat : n > Len(queue) /\ SelfAt(n, d)'
  <2>1. PICK n \in 1..Len(queue') : n > Len(queue) /\ queue'[n] = Ev("self", d, None)
    BY <1>2, ChangeNews
  <2>2. queue'[n] = [kind |-> "self", watch |-> d, path |-> d]
    BY <2>1, EvFacts
  <2>3. n \in Nat /\ SelfAt(n, d)'
    BY <2>1, <2>2 DEF SelfAt
  <2> QED
    BY <2>1, <2>3
<1> QED
  BY <1>1, <1>2

(* A new directory is heard of, or has a parent that is not watched.       *)
LEMMA MkdirCovered ==
  ASSUME IInv, Frame, Covered, NEW d \in Paths, Mkdir(d), ~Drops(queue')
  PROVE  Covered'
<1>1. /\ UNCHANGED <<marks, config, todo, blind, torn>> /\ dirs' = dirs \cup {d}
      /\ d \notin dirs /\ d # Root
      /\ Grown(queue, queue', {Overflow, Ev("mkdir", Front(d), Last(d))})
  BY ChangeNews DEF Mkdir, Change, reader
<1>2. marks[Front(d)] # None => \E n \in Nat : n > Len(queue) /\ MadeAt(n, d)'
  BY SoundNews
<1>3. \A n \in Nat, e \in Paths : SelfAt(n, e)' => SelfAt(n, e)
  BY <1>1, EvFacts, GrownKeeps
<1>4. EntriesFit'
  BY <1>1, GrownKeeps DEF Covered, EntriesFit
<1>5. RemovalsFit'
  <2> SUFFICES ASSUME NEW n \in Nat, NEW e \in Paths \ torn, SelfAt(n, e)'
               PROVE  \/ e \notin dirs' /\ marks[Front(e)] = Front(e)
                      \/ \E m \in Nat : m > n /\ (MadeAt(m, e)' \/ SelfAt(m, Front(e))')
    BY <1>1 DEF RemovalsFit, SelfAt, MadeAt
  <2>1. SelfAt(n, e) /\ n <= Len(queue) /\ Len(queue) \in Nat
    BY <1>1, <1>3, GrownKeeps
  <2>2. e # Root /\ Front(e) \in Paths /\ Front(e) # None
    <3>1. e # Root
      BY <2>1 DEF Frame, EventsFit, SelfAt
    <3> QED
      BY <3>1, NameParts, PathFacts
  <2>3. CASE e \notin dirs /\ marks[Front(e)] = Front(e)
    BY <1>1, <1>2, <2>1, <2>2, <2>3
  <2>4. ASSUME NEW m \in Nat, m > n, MadeAt(m, e) \/ SelfAt(m, Front(e))
        PROVE  MadeAt(m, e)' \/ SelfAt(m, Front(e))'
    BY <1>1, <2>2, <2>4, GrownKeeps
  <2> QED
    BY <2>1, <2>3, <2>4 DEF Covered, RemovalsFit
<1>6. DirsAreReached'
  <2> SUFFICES ASSUME DirsAgree, NEW e \in (dirs' \cap Wanted) \ (blind' \cup torn')
               PROVE  Reached(e)'
    BY DEF DirsAreReached
  <2>1. e \in Paths
    BY DEF Wanted
  <2>2. CASE e = d
    BY <1>1, <1>2, <2>2 DEF Reached
  <2>3. CASE e # d
    <3>1. Reached(e)
      BY <1>1, <2>3 DEF Covered, DirsAreReached
    <3>2. \A n \in Nat : MadeAt(n, e) => MadeAt(n, e)'
      BY <1>1, <2>1, GrownKeeps
    <3> QED
      BY <1>1, <3>1, <3>2 DEF Reached, Pending
  <2> QED
    BY <2>2, <2>3
<1> QED
  BY <1>4, <1>5, <1>6 DEF Covered

(* The removal of a directory is heard of after those in it, and before    *)
(* its parent's.                                                           *)
LEMMA RmdirCovered ==
  ASSUME IInv, Frame, Covered, NEW d \in Paths, Rmdir(d), ~Drops(queue')
  PROVE  Covered'
<1>1. /\ UNCHANGED <<config, todo>> /\ dirs' = dirs \ {d}
      /\ marks' = [marks EXCEPT ![d] = None] /\ blind' = blind \ {d}
      /\ torn' = IF marks[d] # None /\ marks[Front(d)] = None THEN torn \cup {d} ELSE torn
      /\ d \in dirs /\ d # Root
      /\ Grown(queue, queue', {Overflow, Ev("self", d, None)})
      /\ marks[d] = None => queue' = queue
  BY ChangeNews DEF Rmdir, Change, reader
<1>2. marks[d] # None => \E n \in Nat : n > Len(queue) /\ SelfAt(n, d)'
  BY SoundNews
<1>3. /\ \A e \in Paths : marks[e] \in {e, None} /\ e # None
      /\ \A e \in Paths : e # d => marks'[e] = marks[e]
      /\ marks'[d] = None
  BY <1>1, PathFacts DEF IInv, TypeOK, MarksAreNames
<1>4. \A n \in Nat, e \in Paths : SelfAt(n, e)' => SelfAt(n, e) \/ (e = d /\ marks[d] = d)
  <2>1. marks[d] = None => \A n \in Nat, e \in Paths : SelfAt(n, e)' => SelfAt(n, e)
    BY <1>1 DEF SelfAt
  <2> QED
    BY <1>1, <1>3, <2>1, EvFacts, GrownKeeps
<1>5. EntriesFit'
  BY <1>1, <1>2, <1>3, GrownKeeps DEF Covered, EntriesFit
<1>6. RemovalsFit'
  <2> SUFFICES ASSUME NEW n \in Nat, NEW e \in Paths \ torn', SelfAt(n, e)'
               PROVE  \/ e \notin dirs' /\ marks'[Front(e)] = Front(e)
                      \/ \E m \in Nat : m > n /\ (MadeAt(m, e)' \/ SelfAt(m, Front(e))')
    BY DEF RemovalsFit, SelfAt, MadeAt
  <2>1. e # Root
    <3>1. SelfAt(n, e) => e # Root
      BY DEF Frame, EventsFit, SelfAt
    <3> QED
      BY <1>1, <1>4, <3>1
  <2>2. Front(e) \in Paths /\ Front(e) # None /\ Front(e) # e
    BY <2>1, Above, PathFacts
  <2>3. CASE SelfAt(n, e)
    <3>1. n <= Len(queue) /\ Len(queue) \in Nat /\ e \notin torn
      BY <1>1, <2>3, GrownKeeps
    <3>2. CASE e \notin dirs /\ marks[Front(e)] = Front(e)
      BY <1>1, <1>2, <1>3, <2>2, <3>1, <3>2
    <3>3. ASSUME NEW m \in Nat, m > n, MadeAt(m, e) \/ SelfAt(m, Front(e))
          PROVE  MadeAt(m, e)' \/ SelfAt(m, Front(e))'
      BY <1>1, <2>2, <3>3, GrownKeeps
    <3> QED
      BY <2>3, <3>1, <3>2, <3>3 DEF Covered, RemovalsFit
  <2>4. CASE e = d /\ marks[d] = d
    BY <1>1, <1>3, <2>2, <2>4
  <2> QED
    BY <1>4, <2>3, <2>4
<1>7. DirsAreReached'
  <2> SUFFICES ASSUME DirsAgree, NEW e \in (dirs' \cap Wanted) \ (blind' \cup torn')
               PROVE  Reached(e)'
    BY DEF DirsAreReached
  <2>1. e \in Paths /\ e # d /\ e \notin blind /\ e \notin torn /\ e \in dirs
    BY <1>1 DEF Wanted
  <2>2. Reached(e)
    BY <2>1 DEF Covered, DirsAreReached
  <2>3. \A n \in Nat : MadeAt(n, e) => MadeAt(n, e)'
    BY <1>1, <2>1, GrownKeeps
  <2>4. e # Root /\ marks[Front(e)] = None => marks'[Front(e)] = None
    BY <1>3, <2>1, NameParts
  <2> QED
    BY <1>1, <1>3, <2>1, <2>2, <2>3, <2>4 DEF Reached, Pending
<1> QED
  BY <1>5, <1>6, <1>7 DEF Covered

(* A change of files changes nothing of this.                              *)
LEMMA FileCovered ==
  ASSUME Frame, Covered, UNCHANGED <<dirs, marks, config, todo, blind, torn>>,
         NEW S, Grown(queue, queue', S), \A e \in S : e.kind # "self"
  PROVE  Covered'
<1>1. \A n \in Nat, e \in Paths : SelfAt(n, e)' => SelfAt(n, e)
  BY GrownKeeps
<1>2. EntriesFit'
  BY GrownKeeps DEF Covered, EntriesFit
<1>3. RemovalsFit'
  <2> SUFFICES ASSUME NEW n \in Nat, NEW e \in Paths \ torn, SelfAt(n, e)'
               PROVE  \/ e \notin dirs /\ marks[Front(e)] = Front(e)
                      \/ \E m \in Nat : m > n /\ (MadeAt(m, e)' \/ SelfAt(m, Front(e))')
    BY DEF RemovalsFit, SelfAt, MadeAt
  <2>1. SelfAt(n, e)
    BY <1>1
  <2>2. Front(e) \in Paths
    <3>1. e # Root
      BY <2>1 DEF Frame, EventsFit, SelfAt
    <3> QED
      BY <3>1, NameParts
  <2>3. ASSUME NEW m \in Nat, m > n, MadeAt(m, e) \/ SelfAt(m, Front(e))
        PROVE  MadeAt(m, e)' \/ SelfAt(m, Front(e))'
    BY <2>2, <2>3, GrownKeeps
  <2> QED
    BY <2>1, <2>3 DEF Covered, RemovalsFit
<1>4. DirsAreReached'
  <2> SUFFICES ASSUME DirsAgree, NEW e \in (dirs \cap Wanted) \ (blind \cup torn)
               PROVE  Reached(e)'
    BY DEF DirsAreReached
  <2>1. Reached(e) /\ e \in Paths
    BY DEF Covered, DirsAreReached, Wanted
  <2>2. \A n \in Nat : MadeAt(n, e) => MadeAt(n, e)'
    BY <2>1, GrownKeeps
  <2> QED
    BY <2>1, <2>2 DEF Reached, Pending
<1> QED
  BY <1>2, <1>3, <1>4 DEF Covered

(* Every change of the tree.                                               *)
LEMMA ChangeCovered ==
  ASSUME IInv, Frame, Covered, NEW d \in Paths, ~Drops(queue'),
         Mkdir(d) \/ Rmdir(d) \/ Write(d) \/ Unlink(d) \/ \E e \in Paths : Rename(d, e)
  PROVE  Covered'
<1>1. CASE Write(d)
  <2>1. /\ UNCHANGED <<dirs, marks, config, todo, blind, torn>>
        /\ Grown(queue, queue', {Overflow, Ev("IN_CLOSE_WRITE", d, None)})
    BY <1>1, ChangeNews DEF Write, Change, reader
  <2> QED
    BY <2>1, EvFacts, FileCovered
<1>2. CASE Unlink(d)
  <2>1. /\ UNCHANGED <<dirs, marks, config, todo, blind, torn>>
        /\ Grown(queue, queue', {Overflow, Ev("IN_DELETE", d, None)})
    BY <1>2, ChangeNews DEF Unlink, Change, reader
  <2> QED
    BY <2>1, EvFacts, FileCovered
<1>3. ASSUME NEW e \in Paths, Rename(d, e) PROVE Covered'
  <2>1. /\ UNCHANGED <<dirs, marks, config, todo, blind, torn>>
        /\ Grown(queue, queue', {Overflow, Ev("IN_MOVED_FROM", d, None), Ev("IN_MOVED_TO", e, None)})
    BY <1>3, RenameNews DEF Rename, Change, reader
  <2> QED
    BY <2>1, EvFacts, FileCovered
<1> QED
  BY <1>1, <1>2, <1>3, MkdirCovered, RmdirCovered

(* The steps that change neither the tree nor what the kernel knows: what  *)
(* is taken from the work left is done.                                    *)
LEMMA WorkCovered ==
  ASSUME Covered, UNCHANGED <<dirs, marks, queue, config, torn>>, blind \subseteq blind',
         DirsAgree => \A d \in (dirs \cap Wanted) \ (blind' \cup torn) :
           /\ Pending("add", d) => Reached(d)'
           /\ d # Root /\ Pending("scan", Front(d)) => Reached(d)'
  PROVE  Covered'
<1>1. EntriesFit' /\ RemovalsFit'
  BY DEF Covered, EntriesFit, RemovalsFit, SelfAt, MadeAt
<1>2. DirsAreReached'
  <2> SUFFICES ASSUME DirsAgree, NEW d \in (dirs \cap Wanted) \ (blind' \cup torn)
               PROVE  Reached(d)'
    BY DEF DirsAreReached
  <2>1. Reached(d)
    BY DEF Covered, DirsAreReached
  <2> QED
    BY <2>1 DEF Reached, MadeAt
<1> QED
  BY <1>1, <1>2 DEF Covered

(* A directory that is not added is ignored by none, and either watched    *)
(* already or made anew and heard of after its stale entry.                *)
LEMMA SkipCovered ==
  ASSUME IInv, Frame, Covered, Live, AddSkip
  PROVE  Covered'
<1>1. PICK d \in Paths, i \in WatchIds :
        d = Head(todo).path /\ i = Head(todo).wc /\ Head(todo).op = "add"
  BY WorkType DEF AddSkip, IInv
<1>2. /\ Left(todo) = {Head(todo)} \cup Rest /\ Left(todo') = Rest
      /\ UNCHANGED <<dirs, marks, queue, config, torn, blind>> /\ Skip(d, i)
  BY <1>1, WorkLeft DEF AddSkip, Working, tree, kernel, history
<1>3. ASSUME DirsAgree, d \in (dirs \cap Wanted) \ (blind \cup torn)
      PROVE  marks[d] = d \/ (d # Root /\ (marks[Front(d)] = None \/ \E n \in Nat : MadeAt(n, d)))
  <2>1. i \in Holding(d) /\ (phase = "running" => Watches[i].path # d)
    BY <1>1, <1>2 DEF Frame, WorkFits
  <2>2. config[d] # 0
    BY <1>2, <1>3, <2>1, AgreedDirs DEF Skip, Live
  <2>3. CASE marks[d] = d
    BY <2>3
  <2>4. ASSUME NEW n \in Nat, SelfAt(n, d) PROVE d # Root /\ (marks[Front(d)] = None \/ \E m \in Nat : MadeAt(m, d))
    <3>1. d # Root
      BY <2>4 DEF Frame, EventsFit, SelfAt
    <3>2. PICK m \in Nat : m > n /\ (MadeAt(m, d) \/ SelfAt(m, Front(d)))
      BY <1>3, <2>4 DEF Covered, RemovalsFit
    <3>3. SelfAt(m, Front(d)) => marks[Front(d)] = None
      BY DEF SelfAt, IInv, SelfIsLast
    <3> QED
      BY <3>1, <3>2, <3>3
  <2> QED
    BY <2>2, <2>3, <2>4 DEF Covered, EntriesFit
<1>4. ASSUME DirsAgree, NEW e \in (dirs \cap Wanted) \ (blind \cup torn)
      PROVE  /\ Pending("add", e) => Reached(e)'
             /\ e # Root /\ Pending("scan", Front(e)) => Reached(e)'
  <2>1. Pending("scan", Front(e)) => Pending("scan", Front(e))'
    BY <1>1, <1>2 DEF Pending
  <2>2. CASE e = d
    <3>1. marks'[e] = e \/ (e # Root /\ (marks'[Front(e)] = None \/ \E n \in Nat : MadeAt(n, e)'))
      BY <1>2, <1>3, <1>4, <2>2 DEF MadeAt
    <3> QED
      BY <3>1 DEF Reached
  <2>3. CASE e # d
    <3>1. Pending("add", e) => Pending("add", e)'
      BY <1>1, <1>2, <2>3 DEF Pending
    <3> QED
      BY <2>1, <3>1 DEF Reached
  <2> QED
    BY <2>2, <2>3
<1> QED
  BY <1>2, <1>4, WorkCovered

(* Adding a watch leaves the subdirectories to the scan.                   *)
LEMMA AddCovered ==
  ASSUME IInv, Frame, Covered, AddWatch
  PROVE  Covered'
<1>1. PICK d \in Paths, i \in WatchIds :
        d = Head(todo).path /\ i = Head(todo).wc /\ Head(todo).op = "add"
  BY WorkType DEF AddWatch, IInv
<1>2. /\ Left(todo) = {Head(todo)} \cup Rest
      /\ Left(todo') = {Do("scan", d, i)} \cup Rest
      /\ UNCHANGED <<dirs, queue>> /\ config[d] = 0
      /\ marks' = [marks EXCEPT ![d] = d] /\ config' = [config EXCEPT ![d] = i]
      /\ blind' = blind \ {d} /\ torn' = torn \ {d}
  BY <1>1, WorkLeft DEF AddWatch, Working, Skip, tree
<1>3. /\ marks'[d] = d
      /\ \A e \in Paths : e # d => marks'[e] = marks[e] /\ config'[e] = config[e]
  BY <1>2 DEF IInv, TypeOK
<1>4. \A n \in Nat, e \in Paths : (SelfAt(n, e)' <=> SelfAt(n, e)) /\ (MadeAt(n, e)' <=> MadeAt(n, e))
  BY <1>2 DEF SelfAt, MadeAt
<1>5. \A n \in Nat : ~SelfAt(n, d)
  BY <1>2 DEF SelfAt, IInv, SelfIsLast
<1>6. EntriesFit'
  BY <1>3, <1>4 DEF Covered, EntriesFit
<1>7. RemovalsFit'
  <2> SUFFICES ASSUME NEW n \in Nat, NEW e \in Paths \ torn', SelfAt(n, e)
               PROVE  \/ e \notin dirs /\ marks'[Front(e)] = Front(e)
                      \/ \E m \in Nat : m > n /\ (MadeAt(m, e)' \/ SelfAt(m, Front(e))')
    BY <1>2, <1>4 DEF RemovalsFit
  <2>1. e # d /\ e \notin torn
    BY <1>2, <1>5
  <2>2. e # Root /\ Front(e) \in Paths
    BY NameParts DEF Frame, EventsFit, SelfAt
  <2> QED
    BY <1>3, <1>4, <2>1, <2>2 DEF Covered, RemovalsFit
<1>8. DirsAreReached'
  <2> SUFFICES ASSUME DirsAgree, NEW e \in (dirs \cap Wanted) \ (blind' \cup torn')
               PROVE  Reached(e)'
    BY <1>2 DEF DirsAreReached
  <2>1. e \in Paths
    BY DEF Wanted
  <2>2. CASE e = d
    BY <1>3, <2>2 DEF Reached
  <2>3. CASE e # d
    <3>1. Reached(e)
      BY <1>2, <2>3 DEF Covered, DirsAreReached
    <3>2. Pending("add", e) => Pending("add", e)'
      BY <1>1, <1>2, <2>3 DEF Pending
    <3>3. /\ Pending("scan", Front(e)) => Pending("scan", Front(e))'
          /\ Front(e) = d => Pending("scan", Front(e))'
      <4>1. Do("scan", d, i).op = "scan" /\ Do("scan", d, i).path = d
        BY DEF Do
      <4>2. Do("scan", d, i) \in Left(todo') /\ Rest \subseteq Left(todo')
        BY <1>2
      <4>3. Pending("scan", d)'
        BY <4>1, <4>2 DEF Pending
      <4> QED
        BY <1>1, <1>2, <4>2, <4>3 DEF Pending
    <3>4. e # Root /\ Front(e) # d => marks'[Front(e)] = marks[Front(e)]
      BY <1>3, <2>1, NameParts
    <3> QED
      BY <1>3, <1>4, <2>1, <2>3, <3>1, <3>2, <3>3, <3>4 DEF Reached
  <2> QED
    BY <2>2, <2>3
<1> QED
  BY <1>6, <1>7, <1>8 DEF Covered

(* The scan of a directory finds all that are in it.                       *)
LEMMA ScanCovered ==
  ASSUME IInv, Covered, Scan
  PROVE  Covered'
<1>1. PICK d \in Paths, i \in WatchIds :
        d = Head(todo).path /\ i = Head(todo).wc /\ Head(todo).op = "scan"
  BY WorkType DEF Scan, IInv
<1>2. /\ Left(todo) = {Head(todo)} \cup Rest /\ Left(todo') = Entries(d, i) \cup Rest
      /\ UNCHANGED <<dirs, marks, queue, config, torn, blind>>
  BY <1>1, WorkLeft DEF Scan, Working, tree, kernel, history
<1>3. ASSUME NEW e \in (dirs \cap Wanted) \ (blind \cup torn)
      PROVE  /\ Pending("add", e) => Reached(e)'
             /\ e # Root /\ Pending("scan", Front(e)) => Reached(e)'
  <2>1. Pending("add", e) => Pending("add", e)'
    BY <1>1, <1>2 DEF Pending
  <2>2. CASE e # Root /\ Front(e) = d
    <3>1. e \in Children(d)
      BY <2>2 DEF Children
    <3>2. Do("add", e, i) \in Left(todo')
      BY <1>2, <3>1 DEF Entries, Subdirs
    <3>3. Do("add", e, i).op = "add" /\ Do("add", e, i).path = e
      BY DEF Do
    <3>4. Pending("add", e)'
      BY <3>2, <3>3 DEF Pending
    <3> QED
      BY <3>4 DEF Reached
  <2>3. CASE e # Root /\ Front(e) # d
    <3>1. Pending("scan", Front(e)) => Pending("scan", Front(e))'
      BY <1>1, <1>2, <2>3 DEF Pending
    <3> QED
      BY <2>1, <2>3, <3>1 DEF Reached
  <2> QED
    BY <2>1, <2>2, <2>3 DEF Reached
<1> QED
  BY <1>2, <1>3, WorkCovered

(* A directory that gets no watch is blamed for what is below it.          *)
LEMMA RefusedCovered ==
  ASSUME IInv, Covered, AddRefused, phase # "walking"
  PROVE  Covered'
<1>1. PICK d \in Paths : d = Head(todo).path /\ Head(todo).op = "add"
  BY WorkType DEF AddRefused, IInv
<1>2. /\ Left(todo) = {Head(todo)} \cup Rest /\ Left(todo') = Rest
      /\ UNCHANGED <<dirs, marks, queue, config, torn>> /\ blind' = blind \cup {d}
  BY <1>1, WorkLeft DEF AddRefused, Working, tree
<1>3. ASSUME NEW e \in (dirs \cap Wanted) \ (blind' \cup torn)
      PROVE  /\ Pending("add", e) => Reached(e)'
             /\ e # Root /\ Pending("scan", Front(e)) => Reached(e)'
  <2>1. e # d
    BY <1>2
  <2>2. Pending("add", e) => Pending("add", e)'
    BY <1>1, <1>2, <2>1 DEF Pending
  <2>3. Pending("scan", Front(e)) => Pending("scan", Front(e))'
    BY <1>1, <1>2 DEF Pending
  <2> QED
    BY <2>2, <2>3 DEF Reached
<1> QED
  BY <1>2, <1>3, WorkCovered

(* Steps that do nothing of this.                                          *)
LEMMA IdleCovered ==
  ASSUME IInv, Covered, WalkDone \/ Synthesize \/ YieldSynthetic
  PROVE  Covered'
<1>1. UNCHANGED <<dirs, marks, queue, config, torn, blind>>
  BY DEF WalkDone, Synthesize, YieldSynthetic, tree, kernel, reader, history
<1>2. \A w \in Left(todo) : w.op = "file" \/ w \in Left(todo')
  <2>1. CASE WalkDone \/ YieldSynthetic
    BY <2>1 DEF WalkDone, YieldSynthetic, reader
  <2>2. CASE Synthesize
    <3>1. Left(todo) = {Head(todo)} \cup Rest /\ Left(todo') = Rest /\ Head(todo).op = "file"
      BY <2>2, WorkLeft DEF Synthesize, Working
    <3> QED
      BY <3>1
  <2> QED
    BY <2>1, <2>2
<1>3. \A op \in {"add", "scan"} : \A e : Pending(op, e) => Pending(op, e)'
  BY <1>2 DEF Pending
<1>4. ASSUME NEW e \in (dirs \cap Wanted) \ (blind \cup torn)
      PROVE  /\ Pending("add", e) => Reached(e)'
             /\ e # Root /\ Pending("scan", Front(e)) => Reached(e)'
  BY <1>3 DEF Reached
<1> QED
  BY <1>1, <1>4, WorkCovered

(* When the watcher is opened there is nothing but the roots to add.       *)
LEMMA OpenCovered ==
  ASSUME IInv, Frame, Open, phase' = "walking"
  PROVE  Covered'
<1>1. /\ marks = [d \in Paths |-> None] /\ queue = << >> /\ config = [d \in Paths |-> 0]
      /\ UNCHANGED <<dirs, marks, queue, config, torn, blind>>
      /\ todo' = [i \in WatchIds |-> Do("add", Watches[i].path, i)]
  BY DEF Open, Frame, NothingHeld, tree, kernel, history
<1>2. EntriesFit' /\ RemovalsFit'
  BY <1>1 DEF EntriesFit, RemovalsFit, SelfAt
<1>3. PICK t : t = [i \in WatchIds |-> Do("add", Watches[i].path, i)]
  OBVIOUS
<1>4. Pending("add", Root)'
  <2>1. PICK i \in WatchIds : Watches[i].path = Root
    BY WatcherAssumption
  <2>2. Len(t) = Len(Watches) /\ i \in 1..Len(t) /\ t[i] = Do("add", Root, i)
    BY <1>3, <2>1, WatchFacts
  <2>3. t[i].op = "add" /\ t[i].path = Root
    BY <2>2 DEF Do
  <2>4. t[i] \in Left(todo')
    BY <1>1, <1>3, <2>2 DEF Left
  <2> QED
    BY <2>3, <2>4 DEF Pending
<1>5. DirsAreReached'
  <2> SUFFICES ASSUME DirsAgree, NEW e \in (dirs' \cap Wanted) \ (blind' \cup torn')
               PROVE  Reached(e)'
    BY DEF DirsAreReached
  <2>1. CASE e = Root
    BY <1>4, <2>1 DEF Reached
  <2>2. CASE e # Root
    <3>1. Front(e) \in Paths
      BY <2>2, NameParts DEF Wanted
    <3> QED
      BY <1>1, <2>2, <3>1 DEF Reached
  <2> QED
    BY <2>1, <2>2
<1> QED
  BY <1>2, <1>5 DEF Covered

(* An event that is read: that of a new directory adds it, under the watch *)
(* of its parent, if that one still has its own.                           *)
LEMMA ReadCovered ==
  ASSUME IInv, Frame, Covered, ReadSelf \/ ReadMkdir \/ ReadFile \/ ReadOverflow
  PROVE  Covered'
<1>1. PICK kinds : Get(kinds)
  BY DEF ReadSelf, ReadMkdir, ReadFile, ReadOverflow
<1>2. /\ TypeOK /\ todo = << >> /\ UNCHANGED <<dirs, marks, torn>> /\ blind \subseteq blind'
      /\ Head(queue) = queue[1] /\ Left(todo) = {}
  BY <1>1, GetKeeps, OneLeft
     DEF ReadSelf, ReadMkdir, ReadFile, ReadOverflow, Get, Reading, tree, history, IInv
<1>3. \A d \in Paths : config'[d] # 0 => config[d] # 0 /\ ~SelfAt(1, d)
  <2>1. CASE ReadSelf
    <3>1. config' = [config EXCEPT ![Head(queue).watch] = 0]
      BY <2>1 DEF ReadSelf
    <3>2. \A d \in Paths : config'[d] # 0 => config[d] # 0 /\ Head(queue).watch # d
      BY <1>2, <3>1 DEF TypeOK
    <3> QED
      BY <1>2, <3>2 DEF SelfAt
  <2>2. CASE ReadMkdir \/ ReadFile \/ ReadOverflow
    <3>1. config' = config /\ Head(queue).kind # "self"
      BY <2>2 DEF ReadMkdir, ReadFile, ReadOverflow, Get, reader, FileMasks, LiveMasks, GoneMasks
    <3> QED
      BY <1>2, <3>1 DEF SelfAt
  <2> QED
    BY <2>1, <2>2
<1>4. EntriesFit'
  <2> SUFFICES ASSUME NEW d \in Paths, config'[d] # 0, marks[d] # d
               PROVE  \E n \in Nat : SelfAt(n, d)'
    BY <1>2 DEF EntriesFit
  <2>1. PICK n \in Nat : SelfAt(n, d) /\ n # 1
    BY <1>3 DEF Covered, EntriesFit
  <2>2. SelfAt(n - 1, d)' /\ n - 1 \in Nat
    <3>1. n - 1 \in Nat
      BY <2>1 DEF SelfAt
    <3>2. \A m \in Nat, e \in Paths : SelfAt(m, e) => m = 1 \/ SelfAt(m - 1, e)'
      BY <1>1, <1>2, GetKeeps
    <3> QED
      BY <2>1, <3>1, <3>2
  <2> QED
    BY <2>2
<1>5. RemovalsFit'
  <2> SUFFICES ASSUME NEW n \in Nat, NEW d \in Paths \ torn, SelfAt(n, d)'
               PROVE  \/ d \notin dirs /\ marks[Front(d)] = Front(d)
                      \/ \E m \in Nat : m > n /\ (MadeAt(m, d)' \/ SelfAt(m, Front(d))')
    BY <1>2 DEF RemovalsFit
  <2>1. SelfAt(n + 1, d)
    BY <1>1, <1>2, GetKeeps
  <2>2. d # Root /\ Front(d) \in Paths
    BY <2>1, NameParts DEF Frame, EventsFit, SelfAt
  <2>3. ASSUME NEW m \in Nat, m > n + 1, MadeAt(m, d) \/ SelfAt(m, Front(d))
        PROVE  m - 1 \in Nat /\ m - 1 > n /\ (MadeAt(m - 1, d)' \/ SelfAt(m - 1, Front(d))')
    <3>1. m # 1 /\ m - 1 \in Nat /\ m - 1 > n
      BY <2>3
    <3>2. /\ MadeAt(m, d) => MadeAt(m - 1, d)'
          /\ SelfAt(m, Front(d)) => SelfAt(m - 1, Front(d))'
      BY <1>1, <1>2, <2>2, <3>1, GetKeeps
    <3> QED
      BY <2>3, <3>1, <3>2
  <2>4. n + 1 \in Nat
    OBVIOUS
  <2> QED
    BY <2>1, <2>3, <2>4 DEF Covered, RemovalsFit
<1>6. ASSUME NEW d \in (dirs \cap Wanted) \ (blind \cup torn), d # Root, MadeAt(1, d),
             marks[Front(d)] # None
      PROVE  Pending("add", d)'
  <2>1. queue[1].kind = "mkdir" /\ queue[1].path = d /\ queue[1].watch = Front(d)
    BY <1>6 DEF MadeAt, Frame, EventsFit
  <2>2. config[Front(d)] # 0
    <3>1. Front(d) \in Paths
      BY <1>6, NameParts DEF Wanted
    <3> QED
      BY <1>6, <3>1 DEF IInv, Tracked
  <2>3. ReadMkdir
    BY <1>2, <2>1 DEF ReadSelf, ReadFile, ReadOverflow, Get, FileMasks, LiveMasks, GoneMasks
  <2>4. PICK i : i = config[Front(d)]
    OBVIOUS
  <2>5. todo' = <<Do("add", d, i)>>
    BY <1>2, <2>1, <2>2, <2>3, <2>4 DEF ReadMkdir
  <2>6. Do("add", d, i).op = "add" /\ Do("add", d, i).path = d
    BY DEF Do
  <2> QED
    BY <2>5, <2>6, OneLeft DEF Pending
<1>7. DirsAreReached'
  <2> SUFFICES ASSUME DirsAgree, NEW d \in (dirs \cap Wanted) \ (blind \cup torn)
               PROVE  Reached(d)'
    BY <1>2 DEF DirsAreReached
  <2>1. Reached(d) /\ ~Pending("add", d) /\ ~Pending("scan", Front(d)) /\ d \in Paths
    BY <1>2 DEF Covered, DirsAreReached, Pending, Wanted
  <2>2. CASE marks[d] = d \/ (d # Root /\ marks[Front(d)] = None)
    BY <1>2, <2>2 DEF Reached
  <2>3. ASSUME NEW n \in Nat, MadeAt(n, d), d # Root, marks[Front(d)] # None PROVE Reached(d)'
    <3>1. CASE n = 1
      BY <1>6, <2>3, <3>1 DEF Reached
    <3>2. CASE n # 1
      <4>1. MadeAt(n - 1, d)' /\ n - 1 \in Nat
        BY <1>1, <1>2, <2>1, <2>3, <3>2, GetKeeps DEF MadeAt
      <4> QED
        BY <2>3, <4>1 DEF Reached
    <3> QED
      BY <3>1, <3>2
  <2> QED
    BY <2>1, <2>2, <2>3 DEF Reached
<1> QED
  BY <1>4, <1>5, <1>7 DEF Covered

(* All of it stays.                                                        *)
LEMMA CoverStep ==
  ASSUME IInv, CoverInv, [Next]_vars
  PROVE  CoverInv'
<1>1. Frame
  BY DEF CoverInv, Frame
<1>2. CASE UNCHANGED vars
  BY <1>2 DEF vars, CoverInv, NothingHeld, TreeIsClosed, EventsFit, WorkFits, Sound, Live, Lost, Drops,
              EntriesFit, RemovalsFit, DirsAreReached, Reached, Pending, Left, SelfAt, MadeAt
<1>3. CASE Next
  <2>1. Frame'
    BY <1>1, <1>3, ChangeFrame, WatcherFrame DEF Next
  <2>2. ASSUME Sound' PROVE Covered'
    <3>1. Sound \/ Open
      BY <1>1, <1>3, <2>2, SoundBefore
    <3>2. CASE Open
      <4>1. phase' = "walking"
        BY <2>2, <3>2 DEF Open, Sound, Live
      <4> QED
        BY <1>1, <3>2, <4>1, OpenCovered
    <3>3. CASE Sound
      <4>1. Covered /\ Live /\ ~Drops(queue')
        BY <2>2, <3>3 DEF CoverInv, Covered, Sound, Lost
      <4>2. ~Close /\ (AddRefused => phase # "walking")
        BY <2>2 DEF Close, AddRefused, Sound, Live
      <4> QED
        BY <1>1, <1>3, <3>2, <4>1, <4>2, ChangeCovered, SkipCovered, AddCovered, ScanCovered,
           RefusedCovered, IdleCovered, ReadCovered DEF Next, WatcherStep
    <3> QED
      BY <3>1, <3>2, <3>3
  <2> QED
    BY <2>1, <2>2 DEF CoverInv, Frame, Covered
<1> QED
  BY <1>2, <1>3

(* It holds at first.                                                      *)
LEMMA CoverInit == Init => CoverInv
<1> SUFFICES ASSUME Init PROVE CoverInv
  OBVIOUS
<1>1. Left(todo) = {}
  BY OneLeft DEF Init
<1> QED
  BY <1>1 DEF Init, CoverInv, NothingHeld, TreeIsClosed, EventsFit, WorkFits, Sound, Live

(* A directory without its watch, and the topmost of these: its parent has *)
(* one, so something is still to be read or done.                          *)
LEMMA QuietCovered ==
  ASSUME DirsAgree, IInv, CoverInv, Quiet
  PROVE  \A d \in dirs \cap Wanted : ClearOf(blind \cup torn, d) => marks[d] = d
<1>1. phase = "running" /\ todo = << >> /\ queue = << >> /\ Left(todo) = {} /\ Len(queue) = 0
  BY OneLeft DEF Quiet, Reading
<1>2. CASE Root \in blind
  BY <1>2, Above DEF ClearOf, Wanted
<1>3. CASE Root \notin blind
  <2>1. Sound /\ TreeIsClosed
    BY <1>1, <1>3 DEF Sound, Live, Lost, Drops, CoverInv
  <2>2. DirsAreReached
    BY <2>1 DEF CoverInv
  <2> DEFINE Bad == {d \in dirs \cap Wanted : ClearOf(blind \cup torn, d) /\ marks[d] # d}
             T == {Len(d) : d \in Bad}
  <2>3. ASSUME Bad # {} PROVE FALSE
    <3>1. T \in SUBSET Nat /\ T # {}
      <4>1. \A d \in Bad : Len(d) \in Nat
        <5> SUFFICES ASSUME NEW d \in Bad PROVE Len(d) \in Nat
          OBVIOUS
        <5>1. d \in Seq(Names)
          BY PathFacts DEF Wanted
        <5> QED
          BY <5>1
      <4> HIDE DEF Bad
      <4> QED
        BY <2>3, <4>1
    <3>2. PICK d \in Bad : \A e \in Bad : Len(d) <= Len(e)
      <4> HIDE DEF Bad
      <4>1. PICK n \in T : \A m \in T : n <= m
        <5> HIDE DEF T
        <5> QED
          BY <3>1, Smallest
      <4> QED
        BY <4>1
    <3>3. d \in Paths /\ d \in dirs /\ d \in Wanted /\ ClearOf(blind \cup torn, d) /\ marks[d] # d
      BY <3>2 DEF Wanted
    <3>4. d \notin blind /\ d \notin torn
      BY <3>3, Above DEF ClearOf
    <3>5. d # Root /\ marks[Front(d)] = None
      BY <1>1, <2>2, <3>3, <3>4 DEF DirsAreReached, Reached, Pending, MadeAt
    <3>6. Front(d) \in Paths /\ Len(Front(d)) < Len(d) /\ Front(d) \in dirs /\ Front(d) \in Wanted
      <4>1. Len(d) \in Nat
        BY <3>3, PathFacts
      <4> QED
        BY <2>1, <3>3, <3>5, <4>1, Above DEF TreeIsClosed, DirsAgree
    <3>7. ClearOf(blind \cup torn, Front(d))
      BY <3>3, <3>5, Above DEF ClearOf, IInv, TypeOK
    <3>8. Front(d) \in Bad
      BY <3>5, <3>6, <3>7, PathFacts
    <3>9. Len(d) \in Nat /\ Len(Front(d)) \in Nat
      BY <3>3, <3>6, PathFacts
    <3>10. Len(d) <= Len(Front(d))
      <4> HIDE DEF Bad
      <4> QED
        BY <3>2, <3>8
    <3> QED
      BY <3>6, <3>9, <3>10
  <2> QED
    BY <2>3
<1> QED
  BY <1>2, <1>3

(* All that the proof needs, in every state.                               *)
LEMMA CoverInvariance == Spec => []CoverInv
<1>1. Init => CoverInv
  BY CoverInit
<1>2. IInv /\ CoverInv /\ [Next]_vars => CoverInv'
  BY CoverStep
<1> QED
  BY <1>1, <1>2, WatcherInvariance, PTL DEF Spec

(* An idle watcher that has not read of dropped events has an entry for    *)
(* exactly the directories the kernel watches, in every configuration.     *)
THEOREM WatcherBookkeeping == Spec => []BookkeepingIsExact
<1>1. IInv /\ CoverInv => BookkeepingIsExact
  <2> SUFFICES ASSUME IInv, CoverInv, Quiet, Root \notin blind, NEW d \in Paths
               PROVE  config[d] # 0 <=> marks[d] = d
    BY DEF BookkeepingIsExact
  <2>1. Len(queue) = 0 /\ phase = "running"
    BY DEF Quiet, Reading
  <2>2. EntriesFit
    BY <2>1 DEF CoverInv, Sound, Live, Lost, Drops
  <2>3. config[d] # 0 => marks[d] = d
    BY <2>1, <2>2 DEF EntriesFit, SelfAt
  <2>4. marks[d] = d => config[d] # 0
    BY PathFacts DEF IInv, Tracked
  <2> QED
    BY <2>3, <2>4
<1> QED
  BY <1>1, WatcherInvariance, CoverInvariance, PTL

(* An idle watcher has a watch on every directory it is to have one on,    *)
(* whatever the mkdir, rmdir, add_watch, scandir and reads were            *)
(* interleaved like, but for those below a directory the kernel refused to *)
(* watch or one whose watch went with it while its parent had none; of a   *)
(* watcher that read that events were dropped nothing is said.             *)
THEOREM WatcherCoversDirs ==
  ASSUME DirsAgree
  PROVE  Spec => []EveryDirIsWatched
<1>1. IInv /\ CoverInv => EveryDirIsWatched
  BY QuietCovered DEF EveryDirIsWatched
<1> QED
  BY <1>1, WatcherInvariance, CoverInvariance, PTL

(* So it has, whatever it is to ignore, if the configuration has one watch *)
(* alone: what the walk leaves out is then what is not to be watched.      *)
THEOREM WatcherCoversOneTree ==
  ASSUME Len(Watches) = 1
  PROVE  Spec => []EveryDirIsWatched
BY OneWatchAgrees, WatcherCoversDirs

-----------------------------------------------------------------------------
(* Files *)

(* The events of a change of a file, none of which is dropped.             *)
LEMMA FileNews ==
  ASSUME IInv, NEW d \in Paths, ~Drops(queue')
  PROVE  /\ Write(d) /\ marks[d] # None => \E n \in Nat : FileAt(n, LiveMasks, d)'
         /\ Unlink(d) /\ marks[d] # None => \E n \in Nat : FileAt(n, GoneMasks, d)'
         /\ \A e \in Paths : Rename(d, e) =>
              /\ marks[d] # None => \E n \in Nat : FileAt(n, GoneMasks, d)'
              /\ marks[e] # None => \E n \in Nat : FileAt(n, LiveMasks, e)'
<1>1. ASSUME NEW e \in Paths, NEW kind, NEW masks, kind \in masks,
             NEW n \in 1..Len(queue'), n > Len(queue), queue'[n] = Ev(kind, e, None)
      PROVE  \E m \in Nat : FileAt(m, masks, e)'
  <2>1. queue'[n].kind = kind /\ queue'[n].path = e
    BY <1>1 DEF Ev
  <2>2. FileAt(n, masks, e)' /\ n \in Nat
    BY <1>1, <2>1 DEF FileAt
  <2> QED
    BY <2>2
<1>2. /\ "IN_MOVED_TO" \in LiveMasks /\ "IN_CLOSE_WRITE" \in LiveMasks
      /\ "IN_DELETE" \in GoneMasks /\ "IN_MOVED_FROM" \in GoneMasks
  BY DEF LiveMasks, GoneMasks
<1>3. Write(d) /\ marks[d] # None => \E n \in Nat : FileAt(n, LiveMasks, d)'
  BY <1>1, <1>2, ChangeNews
<1>4. Unlink(d) /\ marks[d] # None => \E n \in Nat : FileAt(n, GoneMasks, d)'
  BY <1>1, <1>2, ChangeNews
<1>5. ASSUME NEW e \in Paths, Rename(d, e)
      PROVE  /\ marks[d] # None => \E n \in Nat : FileAt(n, GoneMasks, d)'
             /\ marks[e] # None => \E n \in Nat : FileAt(n, LiveMasks, e)'
  BY <1>1, <1>2, <1>5, RenameNews
<1> QED
  BY <1>3, <1>4, <1>5

(* The parts of the invariant about files that do not depend on what the   *)
(* watcher has lost.                                                       *)
Accounted ==
  /\ phase # "running" => dirty \cup gone \subseteq excused
  /\ dirty \subseteq DueLive /\ gone \subseteq DueGone

(* Every step keeps them.                                                  *)
LEMMA AccountedStep ==
  ASSUME IInv, Accounted, Next
  PROVE  Accounted'
<1>1. ASSUME NEW d \in Paths, Mkdir(d) \/ Rmdir(d) PROVE Accounted'
  BY <1>1 DEF Mkdir, Rmdir, Change, Accounted
<1>2. ASSUME NEW d \in Paths, Write(d) \/ Unlink(d) PROVE Accounted'
  BY <1>2 DEF Write, Unlink, Change, Excuse, Heard, Accounted
<1>3. ASSUME NEW d \in Paths, NEW e \in Paths, Rename(d, e) PROVE Accounted'
  BY <1>3 DEF Rename, Change, Excuse, Heard, Accounted
<1>4. CASE Close
  BY <1>4 DEF Close, Accounted, IInv, TypeOK
<1>5. CASE Open \/ WalkDone \/ AddSkip \/ Scan \/ Synthesize \/ ReadSelf \/ ReadMkdir
  <2>1. UNCHANGED <<dirty, gone, excused>> /\ (phase' # "running" => phase # "running")
    BY <1>5 DEF Open, WalkDone, AddSkip, Scan, Synthesize, ReadSelf, ReadMkdir, history
  <2> QED
    BY <2>1 DEF Accounted
<1>6. CASE AddRefused \/ AddWatch
  <2>1. UNCHANGED <<dirty, gone, excused>> /\ (phase' # "running" => phase # "running")
    BY <1>6 DEF AddRefused, AddWatch
  <2> QED
    BY <2>1 DEF Accounted
<1>7. CASE ReadOverflow \/ ReadFile \/ YieldSynthetic
  <2>1. dirty' \subseteq dirty /\ gone' \subseteq gone /\ phase = "running" /\ phase' = phase
    BY <1>7 DEF ReadOverflow, ReadFile, YieldSynthetic, Yield, Get, Reading
  <2> QED
    BY <2>1 DEF Accounted
<1> QED
  BY <1>1, <1>2, <1>3, <1>4, <1>5, <1>6, <1>7 DEF Next, WatcherStep

Announced == WritesAreHeard /\ RemovalsAreHeard

(* A change of the tree at run time: the kernel tells of it wherever the   *)
(* directory is watched.                                                   *)
LEMMA ChangeAnnounced ==
  ASSUME IInv, Frame, Announced, phase = "running", NEW d \in Paths, ~Drops(queue'),
         Mkdir(d) \/ Rmdir(d) \/ Write(d) \/ Unlink(d) \/ \E e \in Paths : Rename(d, e)
  PROVE  Announced'
<1>1. /\ UNCHANGED <<config, todo, synthetic, phase>>
      /\ \A e \in Paths : marks[e] \in {e, None} /\ e # None
      /\ dirty \subseteq files /\ gone \subseteq Paths \ files /\ files \subseteq Paths
  BY PathFacts DEF Mkdir, Rmdir, Write, Unlink, Rename, Change, reader, IInv, TypeOK, MarksAreNames
<1>2. PICK S : Grown(queue, queue', S)
  BY ChangeNews, RenameNews
<1>3. \A e \in Paths : marks'[e] = marks[e] \/ (Rmdir(d) /\ e = d /\ marks'[e] = None)
  BY DEF Mkdir, Rmdir, Write, Unlink, Rename, IInv, TypeOK
<1>4. ASSUME NEW e \in dirty' \ excused', e \notin dirty \ excused
      PROVE  marks[e] = None \/ \E n \in Nat : FileAt(n, LiveMasks, e)'
  <2>1. CASE Mkdir(d) \/ Rmdir(d)
    BY <1>4, <2>1 DEF Mkdir, Rmdir
  <2>2. CASE Write(d)
    <3>1. e = d
      BY <1>4, <2>2 DEF Write, Excuse
    <3> QED
      BY <2>2, <3>1, FileNews
  <2>3. CASE Unlink(d)
    BY <1>4, <2>3 DEF Unlink, Excuse
  <2>4. ASSUME NEW f \in Paths, Rename(d, f)
        PROVE  marks[e] = None \/ \E n \in Nat : FileAt(n, LiveMasks, e)'
    <3>1. e = f
      BY <1>4, <2>4 DEF Rename, Excuse
    <3> QED
      BY <2>4, <3>1, FileNews
  <2> QED
    BY <2>1, <2>2, <2>3, <2>4
<1>5. ASSUME NEW e \in gone' \ excused', e \notin gone \ excused
      PROVE  marks'[e] = e /\ \E n \in Nat : FileAt(n, GoneMasks, e)'
  <2>1. CASE Mkdir(d) \/ Rmdir(d)
    BY <1>5, <2>1 DEF Mkdir, Rmdir
  <2>2. CASE Write(d)
    BY <1>5, <2>2 DEF Write, Excuse
  <2>3. CASE Unlink(d)
    <3>1. e = d /\ marks[d] # None /\ marks' = marks
      BY <1>1, <1>5, <2>3 DEF Unlink, Excuse, Heard
    <3> QED
      BY <1>1, <2>3, <3>1, FileNews
  <2>4. ASSUME NEW f \in Paths, Rename(d, f)
        PROVE  marks'[e] = e /\ \E n \in Nat : FileAt(n, GoneMasks, e)'
    <3>1. e = d /\ marks[d] # None /\ marks' = marks
      BY <1>1, <1>5, <2>4 DEF Rename, Excuse, Heard
    <3> QED
      BY <1>1, <2>4, <3>1, FileNews
  <2> QED
    BY <2>1, <2>2, <2>3, <2>4
<1>6. WritesAreHeard'
  <2> SUFFICES ASSUME NEW e \in dirty' \ excused'
               PROVE  \/ marks'[e] = None
                      \/ Pending("scan", e)' \/ Pending("file", e)'
                      \/ \E k \in 1..Len(synthetic') : synthetic'[k] = e
                      \/ \E n \in Nat : FileAt(n, LiveMasks, e)'
    BY DEF WritesAreHeard
  <2>1. e \in Paths
    BY <1>1 DEF Mkdir, Rmdir, Write, Unlink, Rename
  <2>2. marks[e] = None => marks'[e] = None
    BY <1>3, <2>1
  <2>3. CASE e \in dirty \ excused
    <3>1. \/ marks[e] = None
          \/ Pending("scan", e) \/ Pending("file", e)
          \/ \E k \in 1..Len(synthetic) : synthetic[k] = e
          \/ \E n \in Nat : FileAt(n, LiveMasks, e)
      BY <2>3 DEF Announced, WritesAreHeard
    <3>2. \A n \in Nat : FileAt(n, LiveMasks, e) => FileAt(n, LiveMasks, e)'
      BY <1>2, GrownKeeps
    <3>3. Pending("scan", e) \/ Pending("file", e) => Pending("scan", e)' \/ Pending("file", e)'
      BY <1>1 DEF Pending
    <3> QED
      BY <1>1, <2>2, <3>1, <3>2, <3>3
  <2> QED
    BY <1>4, <2>2, <2>3
<1>7. RemovalsAreHeard'
  <2> SUFFICES ASSUME NEW e \in gone' \ excused'
               PROVE  \E n \in Nat : /\ FileAt(n, GoneMasks, e)'
                                     /\ marks'[e] = e \/ \E m \in Nat : m > n /\ SelfAt(m, e)'
    BY DEF RemovalsAreHeard
  <2>1. CASE e \in gone \ excused
    <3>1. e \in Paths
      BY <1>1, <2>1
    <3>2. PICK n \in Nat : /\ FileAt(n, GoneMasks, e)
                           /\ marks[e] = e \/ \E m \in Nat : m > n /\ SelfAt(m, e)
      BY <2>1 DEF Announced, RemovalsAreHeard
    <3>3. FileAt(n, GoneMasks, e)' /\ n <= Len(queue) /\ Len(queue) \in Nat
      BY <1>2, <3>2, GrownKeeps
    <3>4. ASSUME NEW m \in Nat, SelfAt(m, e) PROVE SelfAt(m, e)'
      BY <1>2, <3>1, <3>4, GrownKeeps
    <3>5. CASE marks[e] = e /\ marks'[e] # e
      <4>1. Rmdir(d) /\ e = d /\ marks[d] # None
        BY <1>1, <1>3, <3>1, <3>5
      <4>2. PICK m \in Nat : m > Len(queue) /\ SelfAt(m, d)'
        BY <4>1, SoundNews
      <4>3. m > n
        BY <3>3, <4>2
      <4> QED
        BY <3>3, <4>1, <4>2, <4>3
    <3> QED
      BY <3>2, <3>3, <3>4, <3>5
  <2> QED
    BY <1>5, <2>1
<1> QED
  BY <1>6, <1>7 DEF Announced

(* A directory's file is still to be found, or found and not yet told.     *)
Sought(d) ==
  \/ marks[d] = None
  \/ Pending("scan", d) \/ Pending("file", d)
  \/ \E k \in 1..Len(synthetic) : synthetic[k] = d

(* Work on a directory that loses none of what is sought.                  *)
LEMMA WorkAnnounced ==
  ASSUME Announced, UNCHANGED <<queue, dirty, gone, excused>>,
         \A d \in gone : marks[d] = d => marks'[d] = d,
         \A d \in dirty \ excused : Sought(d) => Sought(d)'
  PROVE  Announced'
<1>1. WritesAreHeard'
  BY DEF Announced, WritesAreHeard, Sought, FileAt
<1>2. RemovalsAreHeard'
  BY DEF Announced, RemovalsAreHeard, FileAt, SelfAt
<1> QED
  BY <1>1, <1>2 DEF Announced

(* Adding a directory leaves its file to the scan.                         *)
LEMMA AddAnnounced ==
  ASSUME IInv, Announced, phase = "running", AddSkip \/ AddRefused \/ AddWatch
  PROVE  Announced'
<1>1. PICK d \in Paths, i \in WatchIds :
        d = Head(todo).path /\ i = Head(todo).wc /\ Head(todo).op = "add"
  BY WorkType DEF AddSkip, AddRefused, AddWatch, IInv
<1>2. /\ Left(todo) = {Head(todo)} \cup Rest /\ Rest \subseteq Left(todo')
      /\ UNCHANGED <<queue, synthetic, dirty, gone, excused>>
  BY WorkLeft DEF AddSkip, AddRefused, AddWatch, Working, kernel, history
<1>3. \A op \in {"scan", "file"} : \A e : Pending(op, e) => Pending(op, e)'
  BY <1>1, <1>2 DEF Pending
<1>4. dirty \subseteq Paths /\ gone \subseteq Paths /\ marks \in [Paths -> Paths \cup {None}]
  BY DEF IInv, TypeOK
<1>5. CASE AddSkip \/ AddRefused
  <2>1. marks' = marks
    BY <1>5 DEF AddSkip, AddRefused, kernel
  <2>2. \A e \in dirty : Sought(e) => Sought(e)'
    BY <1>2, <1>3, <2>1 DEF Sought
  <2> QED
    BY <1>2, <2>1, <2>2, WorkAnnounced
<1>6. CASE AddWatch
  <2>1. marks' = [marks EXCEPT ![d] = d] /\ Do("scan", d, i) \in Left(todo')
    BY <1>1, <1>6, WorkLeft DEF AddWatch
  <2>2. Pending("scan", d)'
    BY <2>1 DEF Pending, Do
  <2>3. \A e \in Paths : e # d => marks'[e] = marks[e]
    BY <1>4, <2>1
  <2>4. \A e \in dirty : Sought(e) => Sought(e)'
    BY <1>2, <1>3, <1>4, <2>2, <2>3 DEF Sought
  <2>5. \A e \in gone : marks[e] = e => marks'[e] = e
    BY <1>4, <2>1
  <2> QED
    BY <1>2, <2>4, <2>5, WorkAnnounced
<1> QED
  BY <1>5, <1>6

(* The scan finds the file, which no watch that may scan it ignores, and   *)
(* what is found becomes a synthetic event.                                *)
LEMMA FindAnnounced ==
  ASSUME FilesAgree, IInv, Frame, Accounted, Announced, phase = "running", Scan \/ Synthesize
  PROVE  Announced'
<1>1. PICK d \in Paths, i \in WatchIds :
        d = Head(todo).path /\ i = Head(todo).wc /\ Head(todo).op \in {"scan", "file"}
  BY WorkType DEF Scan, Synthesize, IInv
<1>2. /\ Left(todo) = {Head(todo)} \cup Rest /\ Rest \subseteq Left(todo')
      /\ UNCHANGED <<marks, queue, dirty, gone, excused>>
  BY WorkLeft DEF Scan, Synthesize, Working, kernel, history
<1>3. \A op : \A e : e # d /\ Pending(op, e) => Pending(op, e)'
  BY <1>1, <1>2 DEF Pending
<1>4. CASE Scan
  <2>1. Head(todo).op = "scan" /\ synthetic' = synthetic /\ Left(todo') = Entries(d, i) \cup Rest
    BY <1>1, <1>4, WorkLeft DEF Scan, Working
  <2>2. d \in dirty => Pending("file", d)'
    <3> SUFFICES ASSUME d \in dirty PROVE Pending("file", d)'
      OBVIOUS
    <3>1. i \in Holding(d)
      BY <1>1, <1>2 DEF Frame, WorkFits
    <3>2. d \in files /\ d \notin IgnoredFiles[i]
      BY <3>1, AgreedFiles DEF Accounted, IInv, TypeOK
    <3>3. Do("file", d, i) \in Left(todo')
      BY <2>1, <3>2 DEF Entries, NewFiles
    <3>4. Do("file", d, i).op = "file" /\ Do("file", d, i).path = d
      BY DEF Do
    <3> QED
      BY <3>3, <3>4 DEF Pending
  <2>3. \A e \in dirty : Sought(e) => Sought(e)'
    BY <1>2, <1>3, <2>1, <2>2 DEF Sought
  <2> QED
    BY <1>2, <2>3, WorkAnnounced
<1>5. CASE Synthesize
  <2>1. Head(todo).op = "file" /\ synthetic' = Append(synthetic, d) /\ synthetic \in Seq(Paths)
    BY <1>1, <1>5 DEF Synthesize, Working, IInv, TypeOK
  <2>2. /\ Len(synthetic) + 1 \in 1..Len(synthetic') /\ synthetic'[Len(synthetic) + 1] = d
        /\ \A k \in 1..Len(synthetic) : k \in 1..Len(synthetic') /\ synthetic'[k] = synthetic[k]
    BY <2>1
  <2>3. \A e \in dirty : Sought(e) => Sought(e)'
    BY <1>2, <1>3, <2>2 DEF Sought
  <2> QED
    BY <1>2, <2>3, WorkAnnounced
<1> QED
  BY <1>4, <1>5

(* A synthetic event tells of its file whatever is due for it.             *)
LEMMA SyntheticAnnounced ==
  ASSUME FilesAgree, IInv, Accounted, Announced, YieldSynthetic
  PROVE  Announced'
<1>1. /\ synthetic \in Seq(Paths) /\ synthetic # << >> /\ synthetic' = Tail(synthetic)
      /\ UNCHANGED <<marks, queue, todo, excused>> /\ Yield("IN_MOVED_TO", Head(synthetic))
  BY DEF YieldSynthetic, IInv, TypeOK, kernel
<1>2. /\ Head(synthetic) = synthetic[1] /\ Len(synthetic) \in Nat
      /\ \A k \in 1..Len(synthetic) :
           k = 1 \/ (k - 1 \in 1..Len(synthetic') /\ synthetic'[k - 1] = synthetic[k])
  <2>1. /\ Head(synthetic) = synthetic[1] /\ Len(synthetic) \in Nat \ {0}
        /\ Len(synthetic') = Len(synthetic) - 1
        /\ \A k \in 1..Len(synthetic') : synthetic'[k] = synthetic[k + 1]
    BY <1>1, TailMoves
  <2> QED
    BY <2>1
<1>3. PICK d \in Paths : d = Head(synthetic)
  BY <1>1
<1>4. gone' \subseteq gone /\ dirty' = dirty \ ({d} \cap Purged["IN_MOVED_TO"])
  BY <1>1, <1>3 DEF Yield, LiveMasks
<1>5. \A e \in dirty' : e \in dirty /\ e # d
  BY <1>4, AgreedFiles DEF Accounted, LiveMasks
<1>6. WritesAreHeard'
  <2> SUFFICES ASSUME NEW e \in dirty' \ excused'
               PROVE  \/ marks'[e] = None
                      \/ Pending("scan", e)' \/ Pending("file", e)'
                      \/ \E k \in 1..Len(synthetic') : synthetic'[k] = e
                      \/ \E n \in Nat : FileAt(n, LiveMasks, e)'
    BY DEF WritesAreHeard
  <2>1. \/ marks[e] = None
        \/ Pending("scan", e) \/ Pending("file", e)
        \/ \E k \in 1..Len(synthetic) : synthetic[k] = e
        \/ \E n \in Nat : FileAt(n, LiveMasks, e)
    BY <1>1, <1>5 DEF Announced, WritesAreHeard
  <2>2. ASSUME NEW k \in 1..Len(synthetic), synthetic[k] = e
        PROVE  \E j \in 1..Len(synthetic') : synthetic'[j] = e
    BY <1>2, <1>3, <1>5, <2>2
  <2> QED
    BY <1>1, <2>1, <2>2 DEF Pending, FileAt
<1>7. RemovalsAreHeard'
  BY <1>1, <1>4 DEF Announced, RemovalsAreHeard, FileAt, SelfAt
<1> QED
  BY <1>6, <1>7 DEF Announced

(* The event of a file is taken for all that is due, unless its directory  *)
(* is no longer known: then it has no watch, and what was removed from it  *)
(* under the watch was told of before.                                     *)
LEMMA ReadAnnounced ==
  ASSUME FilesAgree, IInv, Frame, Accounted, Announced, ReadSelf \/ ReadMkdir \/ ReadFile
  PROVE  Announced'
<1>1. PICK kinds : Get(kinds)
  BY DEF ReadSelf, ReadMkdir, ReadFile
<1>2. /\ TypeOK /\ EventsFit /\ UNCHANGED <<marks, excused>> /\ Head(queue) = queue[1]
      /\ dirty' \subseteq dirty /\ gone' \subseteq gone
      /\ synthetic = << >> /\ Left(todo) = {}
  BY <1>1, GetKeeps, OneLeft
     DEF ReadSelf, ReadMkdir, ReadFile, Yield, Get, Reading, history, IInv, Frame
<1>3. LiveMasks \subseteq FileMasks /\ GoneMasks \subseteq FileMasks
  BY DEF LiveMasks, GoneMasks, FileMasks
<1>4. ASSUME NEW e \in Paths, NEW masks \in SUBSET FileMasks, FileAt(1, masks, e), config[e] # 0
      PROVE  Yield(queue[1].kind, e) /\ queue[1].kind \in masks
  <2>1. queue[1].kind \in masks /\ queue[1].kind \in FileMasks /\ queue[1].path = e
    BY <1>4 DEF FileAt
  <2>2. queue[1].watch = e
    BY <1>2, <1>4, <2>1 DEF EventsFit, FileAt
  <2>3. ReadFile
    BY <1>2, <2>1 DEF ReadSelf, ReadMkdir, Get, FileMasks, LiveMasks, GoneMasks
  <2> QED
    BY <1>2, <1>4, <2>1, <2>2, <2>3 DEF ReadFile
<1>5. WritesAreHeard'
  <2> SUFFICES ASSUME NEW e \in dirty' \ excused', marks'[e] # None
               PROVE  \E n \in Nat : FileAt(n, LiveMasks, e)'
    BY DEF WritesAreHeard
  <2>1. e \in Paths /\ e \in DueLive /\ e \in dirty \ excused /\ marks[e] # None
    BY <1>2 DEF Accounted, TypeOK
  <2>2. PICK n \in Nat : FileAt(n, LiveMasks, e)
    BY <1>2, <2>1 DEF Announced, WritesAreHeard, Pending
  <2>3. CASE n = 1
    <3>1. config[e] # 0
      BY <2>1 DEF IInv, Tracked
    <3>2. Yield(queue[1].kind, e) /\ queue[1].kind \in LiveMasks
      BY <1>3, <1>4, <2>1, <2>2, <2>3, <3>1
    <3>3. e \in Purged[queue[1].kind]
      BY <2>1, <3>2, AgreedFiles
    <3>4. e \notin dirty'
      BY <3>2, <3>3 DEF Yield, LiveMasks
    <3> QED
      BY <3>4
  <2>4. CASE n # 1
    <3>1. FileAt(n - 1, LiveMasks, e)' /\ n - 1 \in Nat
      BY <1>1, <1>2, <2>2, <2>4, GetKeeps DEF FileAt
    <3> QED
      BY <3>1
  <2> QED
    BY <2>3, <2>4
<1>6. RemovalsAreHeard'
  <2> SUFFICES ASSUME NEW e \in gone' \ excused'
               PROVE  \E n \in Nat : /\ FileAt(n, GoneMasks, e)'
                                     /\ marks'[e] = e \/ \E m \in Nat : m > n /\ SelfAt(m, e)'
    BY DEF RemovalsAreHeard
  <2>1. e \in Paths /\ e \in DueGone /\ e \in gone \ excused /\ e # None
    BY <1>2, PathFacts DEF Accounted, TypeOK
  <2>2. PICK n \in Nat : /\ FileAt(n, GoneMasks, e)
                         /\ marks[e] = e \/ \E m \in Nat : m > n /\ SelfAt(m, e)
    BY <2>1 DEF Announced, RemovalsAreHeard
  <2>3. CASE n = 1
    <3>1. config[e] # 0
      <4>1. \A m \in Nat : SelfAt(m, e) => config[e] # 0
        BY DEF SelfAt, IInv, SelfIsLast
      <4>2. marks[e] = e => config[e] # 0
        BY <2>1 DEF IInv, Tracked
      <4> QED
        BY <2>2, <4>1, <4>2
    <3>2. Yield(queue[1].kind, e) /\ queue[1].kind \in GoneMasks
      BY <1>3, <1>4, <2>1, <2>2, <2>3, <3>1
    <3>3. e \in Purged[queue[1].kind]
      BY <2>1, <3>2, AgreedFiles
    <3>4. e \notin gone'
      BY <3>2, <3>3 DEF Yield
    <3> QED
      BY <3>4
  <2>4. CASE n # 1
    <3>1. FileAt(n - 1, GoneMasks, e)' /\ n - 1 \in Nat /\ n \in 1..Len(queue)
      BY <1>1, <1>2, <2>2, <2>4, GetKeeps DEF FileAt
    <3>2. ASSUME NEW m \in Nat, m > n, SelfAt(m, e)
          PROVE  SelfAt(m - 1, e)' /\ m - 1 \in Nat /\ m - 1 > n - 1
      <4>1. m # 1 /\ m - 1 \in Nat /\ m - 1 > n - 1
        BY <3>1, <3>2
      <4> QED
        BY <1>1, <1>2, <2>1, <3>2, <4>1, GetKeeps
    <3> QED
      BY <1>2, <2>2, <3>1, <3>2
  <2> QED
    BY <2>3, <2>4
<1> QED
  BY <1>5, <1>6 DEF Announced

(* All of it stays.                                                        *)
LEMMA FilesStep ==
  ASSUME FilesAgree, IInv, CoverInv, FilesInv, [Next]_vars
  PROVE  FilesInv'
<1>1. Frame /\ Accounted /\ (Sound /\ phase = "running" => Announced)
  BY DEF CoverInv, Frame, FilesInv, Accounted, Announced
<1>2. CASE UNCHANGED vars
  BY <1>2 DEF vars, FilesInv, WritesAreHeard, RemovalsAreHeard, Sound, Live, Lost, Drops,
              Pending, Left, SelfAt, FileAt
<1>3. CASE Next
  <2>1. Accounted'
    BY <1>1, <1>3, AccountedStep
  <2>2. ASSUME Sound', phase' = "running" PROVE Announced'
    <3>1. ~Drops(queue') /\ Root \notin blind'
      BY <2>2 DEF Sound, Lost
    <3>2. ~Open /\ ~Close /\ ~ReadOverflow
      BY <2>2, <3>1 DEF Open, Close, ReadOverflow
    <3>3. Sound
      BY <1>1, <1>3, <2>2, <3>2, SoundBefore
    <3>4. CASE WalkDone
      <4>1. dirty' \cup gone' \subseteq excused'
        BY <1>1, <3>4 DEF WalkDone, history, Accounted
      <4> QED
        BY <4>1 DEF Announced, WritesAreHeard, RemovalsAreHeard
    <3>5. CASE ~WalkDone
      <4>1. phase = "running"
        BY <1>3, <2>2, <3>2, <3>5
           DEF Next, Mkdir, Rmdir, Write, Unlink, Rename, Change, WatcherStep, AddSkip, AddRefused,
               AddWatch, Scan, Synthesize, YieldSynthetic, ReadSelf, ReadMkdir, ReadFile
      <4> QED
        BY <1>1, <1>3, <3>1, <3>2, <3>3, <3>5, <4>1, ChangeAnnounced, AddAnnounced, FindAnnounced,
           SyntheticAnnounced, ReadAnnounced DEF Next, WatcherStep
    <3> QED
      BY <3>4, <3>5
  <2> QED
    BY <2>1, <2>2 DEF FilesInv, Accounted, Announced
<1> QED
  BY <1>2, <1>3

(* Of an idle watcher nothing is left to be heard: a file that is not      *)
(* accounted for is in a directory without a watch, which it would have.   *)
LEMMA QuietAnnounced ==
  ASSUME DirsAgree, FilesAgree, IInv, CoverInv, FilesInv, Quiet
  PROVE  \A d \in (dirty \cup gone) \ excused : ~ClearOf(blind \cup torn, d)
<1>1. /\ phase = "running" /\ Left(todo) = {} /\ Len(queue) = 0 /\ Len(synthetic) = 0
      /\ dirty \subseteq files /\ files \subseteq dirs /\ dirs \subseteq Paths /\ gone \subseteq Paths
  BY OneLeft DEF Quiet, Reading, IInv, TypeOK
<1>2. CASE Root \in blind
  BY <1>1, <1>2, Above DEF ClearOf
<1>3. CASE Root \notin blind
  <2>1. WritesAreHeard /\ RemovalsAreHeard /\ dirty \subseteq DueLive
    BY <1>1, <1>3 DEF Sound, Live, Lost, Drops, FilesInv
  <2>2. gone \subseteq excused
    BY <1>1, <2>1 DEF RemovalsAreHeard, FileAt
  <2>3. ASSUME NEW d \in dirty \ excused PROVE ~ClearOf(blind \cup torn, d)
    <3>1. marks[d] = None
      BY <1>1, <2>1 DEF WritesAreHeard, Pending, FileAt
    <3>2. d \in dirs \cap Wanted /\ d # None
      BY <1>1, <2>1, PathFacts DEF FilesAgree
    <3> QED
      BY <3>1, <3>2, QuietCovered
  <2> QED
    BY <2>2, <2>3
<1> QED
  BY <1>2, <1>3

(* When an idle watcher has nothing left to read or to do, all that is due *)
(* for a file that was written or removed has been submitted, whatever the *)
(* changes, add_watch, scandir and reads were interleaved like, but for    *)
(* what is below a directory the kernel refused to watch, or one whose     *)
(* watch went with it while its parent had none, and for all after events  *)
(* were dropped.                                                           *)
THEOREM WatcherCoversTree ==
  ASSUME DirsAgree, FilesAgree
  PROVE  Spec => []TreeIsCovered
<1>1. Init => FilesInv
  BY DEF Init, FilesInv, Sound, Live
<1>2. IInv /\ CoverInv /\ FilesInv /\ [Next]_vars => FilesInv'
  BY FilesStep
<1>3. IInv /\ CoverInv /\ FilesInv => TreeIsCovered
  BY QuietAnnounced DEF TreeIsCovered
<1> QED
  BY <1>1, <1>2, <1>3, WatcherInvariance, CoverInvariance, PTL DEF Spec

(* On the patterns and paths of the tree the matcher is right, whatever    *)
(* the names, the depth and the configuration (MatcherIsRight).            *)
THEOREM WatcherMatchesGlobs == Spec => []GlobsMatch
<1>1. ASSUME NEW pp \in Patterns, NEW sp \in Parts
      PROVE  Gm(pp, sp) = Matches(pp, sp)
  <2>1. Depth \in Nat
    BY WatcherAssumption
  <2>2. pp \in Seq(Names \cup {"*", "**"})
    BY <2>1 DEF Patterns
  <2>3. sp \in Seq(Names)
    BY <2>1 DEF Parts
  <2> QED
    BY <2>2, <2>3, MatcherIsRight
<1>2. GlobsMatch
  BY <1>1 DEF GlobsMatch
<1> QED
  BY <1>2, PTL

(* Of whatever event of a file is about to be read the pipeline submits    *)
(* what is due for it, and nothing else, if no two watches share a root:   *)
(* RoutingIsRight, for the files of the tree.                              *)
THEOREM WatcherRoutesEvents ==
  ASSUME DistinctRoots
  PROVE  Spec => []EventsAreRouted
<1>1. IInv => EventsAreRouted
  <2>1. \A d \in Paths, mask \in FileMasks : RoutedAsDue(mask, File(d))
    BY FilePath, RoutingIsRight DEF FileMasks
  <2>2. queue \in Seq(Event) /\ queue # << >> => Head(queue) \in Event
    OBVIOUS
  <2>3. \A e \in Event : e.path \in Paths
    BY DEF Event
  <2> QED
    BY <2>1, <2>2, <2>3 DEF IInv, TypeOK, EventsAreRouted, Routed
<1> QED
  BY <1>1, WatcherInvariance, PTL
=============================================================================

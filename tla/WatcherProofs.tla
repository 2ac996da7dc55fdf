---------------------------- MODULE WatcherProofs ----------------------------
(***************************************************************************)
(* Type correctness of the watcher, and that what it knows of its watches  *)
(* agrees with the kernel, for every tree, every configuration, and any    *)
(* budget of watches and length of the kernel's queue.                     *)
(***************************************************************************)
EXTENDS Watcher, FiniteSetTheorems, TLAPS

(* A watch is registered under the path of its directory.                  *)
MarksAreNames == \A d \in Paths : marks[d] \in {d, None}

(* While a DELETE_SELF is unread its directory has no watch and still has  *)
(* its entry, which keeps the directory made anew from being added; it is  *)
(* the only one.                                                           *)
SelfIsLast ==
  /\ \A n \in 1..Len(queue) : queue[n].kind = "self" =>
       /\ marks[queue[n].watch] = None
       /\ config[queue[n].watch] # 0
  /\ \A m, n \in 1..Len(queue) :
       /\ queue[m].kind = "self" /\ queue[n].kind = "self"
       /\ queue[m].watch = queue[n].watch
       => m = n

(* A watch has an entry.                                                   *)
Tracked == \A d \in Paths : marks[d] # None => config[d] # 0

IInv ==
  /\ TypeOK
  /\ IsFiniteSet(dirs)
  /\ MarksAreNames
  /\ SelfIsLast
  /\ Tracked

-----------------------------------------------------------------------------
(* Paths, watches and the kernel's queue *)

(* A path is a sequence of names, None is no path, and the root is one.    *)
LEMMA PathFacts == Paths \subseteq Seq(Names) /\ None \notin Paths /\ Root \in Paths
<1>1. Paths \subseteq Seq(Names)
  BY WatcherAssumption DEF Paths
<1>2. Root \in [1..0 -> Names]
  BY DEF Root
<1>3. Root \in Paths
  BY <1>2, WatcherAssumption DEF Paths
<1> QED
  BY <1>1, <1>3, WatcherAssumption

(* A path but the root is a name below a path.                             *)
LEMMA NameParts ==
  ASSUME NEW d \in Paths, d # Root
  PROVE  /\ Front(d) \in Paths
         /\ Append(Front(d), Last(d)) = d
<1>1. PICK n \in 0..Depth : d \in [1..n -> Names]
  BY DEF Paths
<1>2. n \in Nat /\ d \in Seq(Names) /\ Len(d) = n
  BY <1>1, WatcherAssumption
<1>3. n # 0
  BY <1>1, <1>2 DEF Root
<1>4. Front(d) \in [1..n - 1 -> Names]
  <2>1. Front(d) = [k \in 1..n - 1 |-> d[k]]
    BY <1>2, <1>3 DEF Front
  <2>2. \A k \in 1..n - 1 : d[k] \in Names
    BY <1>1, <1>2, <1>3
  <2> QED
    BY <2>1, <2>2
<1>5. Append(Front(d), Last(d)) = d
  BY <1>2, <1>3 DEF Front, Last
<1> QED
  BY <1>1, <1>3, <1>4, <1>5, WatcherAssumption DEF Paths

(* Watches are numbered from one, and their roots are paths.               *)
LEMMA WatchFacts ==
  /\ WatchIds = 1..Len(Watches) /\ Len(Watches) \in Nat
  /\ \A i \in WatchIds : i # 0 /\ Watches[i].path \in Paths
BY RoutingAssumption, WatcherAssumption DEF WatchIds

(* The kernel appends the event, or says that it has dropped some, or does *)
(* neither.                                                                *)
LEMMA PostIs ==
  ASSUME NEW q \in Seq(Event), NEW kind \in Kinds, NEW w \in Paths \cup {None}, NEW name,
         w # None /\ name # None => Append(w, name) \in Paths
  PROVE  \/ Post(q, kind, w, name) = q
         \/ \E e \in Event : /\ Post(q, kind, w, name) = Append(q, e)
                             /\ e.kind = "overflow" \/ (e.kind = kind /\ e.watch = w)
<1> DEFINE e == [kind |-> kind, watch |-> w,
                 path |-> IF name = None THEN w ELSE Append(w, name)]
<1>1. w # None => e \in Event
  BY DEF Event
<1>2. Overflow \in Event /\ Overflow.kind = "overflow"
  BY PathFacts DEF Overflow, Event, Kinds
<1>3. e.kind = kind /\ e.watch = w
  OBVIOUS
<1> HIDE DEF e
<1>4. Post(q, kind, w, name) =
        IF w = None THEN q
        ELSE IF Len(q) < MaxQueue THEN Append(q, e)
        ELSE IF Contains(q, Overflow) THEN q ELSE Append(q, Overflow)
  BY DEF Post, e
<1> QED
  BY <1>1, <1>2, <1>3, <1>4

(* r is q with events after it, none of which is a DELETE_SELF.            *)
SameSelves(q, r) ==
  /\ Len(q) <= Len(r)
  /\ \A n \in 1..Len(q) : r[n] = q[n]
  /\ \A n \in 1..Len(r) : r[n].kind = "self" => n \in 1..Len(q)

(* An event of another kind adds no DELETE_SELF.                           *)
LEMMA PostKeeps ==
  ASSUME NEW q \in Seq(Event), NEW kind \in Kinds, kind # "self",
         NEW w \in Paths \cup {None}, NEW name,
         w # None /\ name # None => Append(w, name) \in Paths
  PROVE  /\ Post(q, kind, w, name) \in Seq(Event)
         /\ SameSelves(q, Post(q, kind, w, name))
<1>1. CASE Post(q, kind, w, name) = q
  BY <1>1 DEF SameSelves
<1>2. CASE \E e \in Event : /\ Post(q, kind, w, name) = Append(q, e)
                            /\ e.kind = "overflow" \/ e.kind = kind
  <2>1. PICK e \in Event : /\ Post(q, kind, w, name) = Append(q, e)
                           /\ e.kind # "self"
    BY <1>2
  <2>2. /\ Append(q, e) \in Seq(Event)
        /\ Len(Append(q, e)) = Len(q) + 1
        /\ \A n \in 1..Len(q) : Append(q, e)[n] = q[n]
        /\ Append(q, e)[Len(q) + 1] = e
    OBVIOUS
  <2> QED
    BY <2>1, <2>2 DEF SameSelves
<1>3. \/ Post(q, kind, w, name) = q
      \/ \E e \in Event : /\ Post(q, kind, w, name) = Append(q, e)
                          /\ e.kind = "overflow" \/ (e.kind = kind /\ e.watch = w)
  BY PostIs
<1> QED
  BY <1>1, <1>2, <1>3

(* Reading the next event moves the others up by one.                      *)
LEMMA TailMoves ==
  ASSUME NEW S, NEW q \in Seq(S), q # << >>
  PROVE  /\ Tail(q) \in Seq(S) /\ Head(q) \in S /\ Head(q) = q[1]
         /\ Len(q) \in Nat \ {0} /\ Len(Tail(q)) = Len(q) - 1
         /\ \A n \in 1..Len(Tail(q)) : n + 1 \in 1..Len(q) /\ Tail(q)[n] = q[n + 1]
OBVIOUS

-----------------------------------------------------------------------------
(* Type correctness *)

(* Scanning a directory gives a finite amount of work.                     *)
LEMMA EntriesFinite ==
  ASSUME TypeOK, IsFiniteSet(dirs), NEW d \in Paths, NEW i \in WatchIds
  PROVE  IsFiniteSet(Entries(d, i)) /\ Entries(d, i) \subseteq Work
<1>1. Children(d) \subseteq dirs /\ dirs \subseteq Paths
  BY DEF Children, TypeOK
<1>2. IsFiniteSet(Children(d))
  BY <1>1, FS_Subset
<1>3. IsFiniteSet(Subdirs(d, i))
  <2> DEFINE f == [e \in Children(d) |-> Do("add", e, i)]
  <2>1. f \in Surjection(Children(d), Subdirs(d, i))
    BY DEF Surjection, Subdirs
  <2> QED
    BY <2>1, <1>2, FS_Surjection
<1>4. IsFiniteSet(Entries(d, i))
  <2>1. Entries(d, i) = Subdirs(d, i) \/ Entries(d, i) = Subdirs(d, i) \cup {Do("file", d, i)}
    BY DEF Entries, NewFiles
  <2> QED
    BY <2>1, <1>3, FS_AddElement
<1>5. Entries(d, i) \subseteq Work
  BY <1>1 DEF Entries, Subdirs, NewFiles, Do, Work
<1> QED
  BY <1>4, <1>5

(* It is done in some order.                                               *)
LEMMA ScanType ==
  ASSUME TypeOK, IsFiniteSet(dirs), NEW d \in Paths, NEW i \in WatchIds,
         NEW order \in SetToSeqs(Entries(d, i))
  PROVE  order \in Seq(Work)
<1>1. Cardinality(Entries(d, i)) \in Nat
  BY EntriesFinite, FS_CardinalityType
<1>2. order \in [1..Cardinality(Entries(d, i)) -> Entries(d, i)]
  BY DEF SetToSeqs
<1>3. order \in Seq(Entries(d, i))
  BY <1>1, <1>2
<1> QED
  BY <1>3, EntriesFinite

(* Initially nothing is watched, queued or known.                          *)
LEMMA WatcherInit == Init => IInv
<1> SUFFICES ASSUME Init PROVE IInv
  OBVIOUS
<1> USE DEF Init
<1>1. TypeOK
  BY PathFacts DEF TypeOK
<1>2. IsFiniteSet(dirs)
  BY FS_Singleton
<1>3. MarksAreNames /\ SelfIsLast /\ Tracked
  BY WatcherAssumption DEF MarksAreNames, SelfIsLast, Tracked
<1> QED
  BY <1>1, <1>2, <1>3 DEF IInv

(* The kernel's queue after a change: none of the events it gets is a      *)
(* DELETE_SELF, but for that of a watched directory that is removed.       *)
LEMMA ChangeQueue ==
  ASSUME IInv, NEW d \in Paths
  PROVE  /\ Mkdir(d) => queue' \in Seq(Event) /\ SameSelves(queue, queue')
         /\ Write(d) => queue' \in Seq(Event) /\ SameSelves(queue, queue')
         /\ Unlink(d) => queue' \in Seq(Event) /\ SameSelves(queue, queue')
         /\ \A e \in Paths : Rename(d, e) => queue' \in Seq(Event) /\ SameSelves(queue, queue')
         /\ Rmdir(d) =>
              \/ queue' = queue
              \/ \E e \in Event : /\ queue' = Append(queue, e)
                                  /\ \/ e.kind = "overflow"
                                     \/ e.kind = "self" /\ e.watch = d /\ marks[d] = d
<1>1. queue \in Seq(Event) /\ dirs \subseteq Paths
      /\ \A e \in Paths : marks[e] \in Paths \cup {None} /\ marks[e] \in {e, None}
  BY DEF IInv, TypeOK, MarksAreNames
<1>2. {"mkdir", "self"} \cup FileMasks \subseteq Kinds /\ "self" \notin FileMasks
  BY DEF Kinds, FileMasks, LiveMasks, GoneMasks
<1>3. ASSUME Mkdir(d) PROVE queue' \in Seq(Event) /\ SameSelves(queue, queue')
  <2>1. d # Root /\ queue' = Post(queue, "mkdir", marks[Front(d)], Last(d))
    BY <1>3 DEF Mkdir
  <2>2. Front(d) \in Paths /\ Append(Front(d), Last(d)) = d
    BY <2>1, NameParts
  <2>3. marks[Front(d)] # None => Append(marks[Front(d)], Last(d)) \in Paths
    BY <1>1, <2>2
  <2> QED
    BY <1>1, <1>2, <2>1, <2>2, <2>3, PostKeeps
<1>4. ASSUME Write(d) PROVE queue' \in Seq(Event) /\ SameSelves(queue, queue')
  <2>1. queue' = Post(queue, "IN_CLOSE_WRITE", marks[d], None)
    BY <1>4 DEF Write
  <2> QED
    BY <1>1, <1>2, <2>1, PostKeeps DEF FileMasks, LiveMasks, GoneMasks
<1>5. ASSUME Unlink(d) PROVE queue' \in Seq(Event) /\ SameSelves(queue, queue')
  <2>1. queue' = Post(queue, "IN_DELETE", marks[d], None)
    BY <1>5 DEF Unlink
  <2> QED
    BY <1>1, <1>2, <2>1, PostKeeps DEF FileMasks, LiveMasks, GoneMasks
<1>6. ASSUME NEW e \in Paths, Rename(d, e)
      PROVE  queue' \in Seq(Event) /\ SameSelves(queue, queue')
  <2> DEFINE q == Post(queue, "IN_MOVED_FROM", marks[d], None)
  <2>1. queue' = Post(q, "IN_MOVED_TO", marks[e], None)
    BY <1>6 DEF Rename
  <2>2. q \in Seq(Event) /\ SameSelves(queue, q)
    BY <1>1, <1>2, PostKeeps DEF FileMasks, LiveMasks, GoneMasks
  <2> HIDE DEF q
  <2>3. queue' \in Seq(Event) /\ SameSelves(q, queue')
    BY <1>1, <1>2, <2>1, <2>2, PostKeeps DEF FileMasks, LiveMasks, GoneMasks
  <2> QED
    BY <1>1, <2>2, <2>3 DEF SameSelves
<1>7. ASSUME Rmdir(d)
      PROVE  \/ queue' = queue
             \/ \E e \in Event : /\ queue' = Append(queue, e)
                                 /\ \/ e.kind = "overflow"
                                    \/ e.kind = "self" /\ e.watch = d /\ marks[d] = d
  <2>1. queue' = Post(queue, "self", marks[d], None)
    BY <1>7 DEF Rmdir
  <2>2. CASE marks[d] = None
    BY <2>1, <2>2 DEF Post
  <2>3. CASE marks[d] # None
    <3>1. marks[d] = d
      BY <1>1, <2>3
    <3>2. "self" \in Kinds /\ d \in Paths \cup {None}
      BY <1>2
    <3>3. \/ Post(queue, "self", d, None) = queue
          \/ \E e \in Event : /\ Post(queue, "self", d, None) = Append(queue, e)
                              /\ e.kind = "overflow" \/ (e.kind = "self" /\ e.watch = d)
      BY <1>1, <3>2, PostIs
    <3> QED
      BY <2>1, <3>1, <3>3
  <2> QED
    BY <2>2, <2>3
<1> QED
  BY <1>3, <1>4, <1>5, <1>6, <1>7

(* A change of the tree by another process keeps the types.                *)
LEMMA ChangeType ==
  ASSUME IInv, NEW d \in Paths,
         Mkdir(d) \/ Rmdir(d) \/ Write(d) \/ Unlink(d) \/ \E e \in Paths : Rename(d, e)
  PROVE  TypeOK' /\ IsFiniteSet(dirs)'
<1>1. TypeOK /\ IsFiniteSet(dirs)
  BY DEF IInv
<1>2. queue' \in Seq(Event)
  BY ChangeQueue, <1>1, SMTT(30) DEF TypeOK
<1>3. CASE Mkdir(d)
  <2>1. IsFiniteSet(dirs')
    BY <1>1, <1>3, FS_AddElement DEF Mkdir
  <2> QED
    BY <1>1, <1>2, <1>3, <2>1 DEF Mkdir, Change, reader, TypeOK
<1>4. CASE Rmdir(d)
  <2>1. IsFiniteSet(dirs')
    BY <1>1, <1>4, FS_RemoveElement DEF Rmdir
  <2> QED
    BY <1>1, <1>2, <1>4, <2>1 DEF Rmdir, Change, reader, TypeOK
<1>5. CASE Write(d)
  BY <1>1, <1>2, <1>5 DEF Write, Change, Excuse, reader, TypeOK
<1>6. CASE Unlink(d)
  BY <1>1, <1>2, <1>6 DEF Unlink, Change, Excuse, Heard, reader, TypeOK
<1>7. ASSUME NEW e \in Paths, Rename(d, e) PROVE TypeOK' /\ IsFiniteSet(dirs)'
  BY <1>1, <1>2, <1>7 DEF Rename, Change, Excuse, Heard, reader, TypeOK
<1> QED
  BY <1>3, <1>4, <1>5, <1>6, <1>7

(* What there is to do next is well typed, and so is what is left of it.   *)
LEMMA WorkType ==
  ASSUME TypeOK, NEW op, Working(op)
  PROVE  /\ Head(todo) \in Work /\ Head(todo).path \in Paths /\ Head(todo).wc \in WatchIds
         /\ Head(todo).op = op /\ Tail(todo) \in Seq(Work)
<1>1. todo \in Seq(Work) /\ todo # << >> /\ Head(todo).op = op
  BY DEF TypeOK, Working
<1>2. Head(todo) \in Work /\ Tail(todo) \in Seq(Work)
  BY <1>1, TailMoves
<1> QED
  BY <1>1, <1>2 DEF Work

(* So are the next event and what is left of the queue.                    *)
LEMMA EventType ==
  ASSUME TypeOK, NEW kinds, Get(kinds)
  PROVE  /\ Head(queue) \in Event /\ Head(queue).watch \in Paths /\ Head(queue).path \in Paths
         /\ Head(queue).kind \in kinds /\ queue # << >>
         /\ queue' = Tail(queue) /\ queue' \in Seq(Event)
<1>1. queue \in Seq(Event) /\ queue # << >> /\ queue' = Tail(queue) /\ Head(queue).kind \in kinds
  BY DEF TypeOK, Get
<1>2. Head(queue) \in Event /\ Tail(queue) \in Seq(Event)
  BY <1>1, TailMoves
<1> QED
  BY <1>1, <1>2 DEF Event

(* A step of the watcher, or its opening or closing, keeps the types.      *)
LEMMA WatcherType ==
  ASSUME IInv, Open \/ Close \/ WatcherStep
  PROVE  TypeOK' /\ IsFiniteSet(dirs)'
<1>1. TypeOK /\ IsFiniteSet(dirs)
  BY DEF IInv
<1>2. CASE Open
  <2>1. [i \in WatchIds |-> Do("add", Watches[i].path, i)] \in Seq(Work)
    <3>1. \A i \in WatchIds : Do("add", Watches[i].path, i) \in Work
      BY WatchFacts DEF Do, Work
    <3>2. [i \in 1..Len(Watches) |-> Do("add", Watches[i].path, i)] \in [1..Len(Watches) -> Work]
      BY <3>1, WatchFacts
    <3> QED
      BY <3>2, WatchFacts
  <2> QED
    BY <1>1, <1>2, <2>1 DEF Open, TypeOK, tree, kernel, history
<1>3. CASE Close
  BY <1>1, <1>3 DEF Close, TypeOK, tree, bounds
<1>4. CASE WalkDone
  BY <1>1, <1>4 DEF WalkDone, TypeOK, tree, kernel, reader, bounds, history
<1>5. CASE AddSkip
  <2>1. Tail(todo) \in Seq(Work)
    BY <1>1, <1>5, WorkType DEF AddSkip
  <2> QED
    BY <1>1, <1>5, <2>1 DEF AddSkip, TypeOK, tree, kernel, bounds, history
<1>6. CASE AddRefused
  <2>1. Tail(todo) \in Seq(Work) /\ Head(todo).path \in Paths
    BY <1>1, <1>6, WorkType DEF AddRefused
  <2>2. CASE phase = "walking"
    BY <1>1, <1>6, <2>2 DEF AddRefused, TypeOK, tree, bounds
  <2>3. CASE phase # "walking"
    BY <1>1, <1>6, <2>1, <2>3 DEF AddRefused, TypeOK, tree, bounds
  <2> QED
    BY <2>2, <2>3
<1>7. CASE AddWatch
  <2>1. Tail(todo) \in Seq(Work) /\ Head(todo).path \in Paths /\ Head(todo).wc \in WatchIds
    BY <1>1, <1>7, WorkType DEF AddWatch
  <2>2. Do("scan", Head(todo).path, Head(todo).wc) \in Work
    BY <2>1 DEF Do, Work
  <2>3. todo' \in Seq(Work)
    BY <1>7, <2>1, <2>2 DEF AddWatch
  <2> QED
    BY <1>1, <1>7, <2>1, <2>3 DEF AddWatch, TypeOK, tree, bounds
<1>8. CASE Scan
  <2>1. Tail(todo) \in Seq(Work) /\ Head(todo).path \in Paths /\ Head(todo).wc \in WatchIds
    BY <1>1, <1>8, WorkType DEF Scan
  <2>2. PICK order \in SetToSeqs(Entries(Head(todo).path, Head(todo).wc)) : todo' = order \o Tail(todo)
    BY <1>8 DEF Scan
  <2>3. order \in Seq(Work)
    BY <1>1, <2>1, ScanType
  <2>4. todo' \in Seq(Work)
    BY <2>1, <2>2, <2>3
  <2> QED
    BY <1>1, <1>8, <2>4 DEF Scan, TypeOK, tree, kernel, bounds, history
<1>9. CASE Synthesize
  <2>1. Tail(todo) \in Seq(Work) /\ Head(todo).path \in Paths
    BY <1>1, <1>9, WorkType DEF Synthesize
  <2> QED
    BY <1>1, <1>9, <2>1 DEF Synthesize, TypeOK, tree, kernel, bounds, history
<1>10. CASE YieldSynthetic
  BY <1>1, <1>10 DEF YieldSynthetic, Yield, TypeOK, tree, kernel, bounds
<1>11. CASE ReadOverflow
  <2>1. queue' \in Seq(Event)
    BY <1>1, <1>11, EventType DEF ReadOverflow
  <2> QED
    BY <1>1, <1>11, <2>1, PathFacts DEF ReadOverflow, TypeOK, tree, reader, bounds
<1>12. CASE ReadSelf
  <2>1. queue' \in Seq(Event) /\ Head(queue).watch \in Paths
    BY <1>1, <1>12, EventType DEF ReadSelf
  <2> QED
    BY <1>1, <1>12, <2>1 DEF ReadSelf, TypeOK, tree, bounds, history
<1>13. CASE ReadMkdir
  <2>1. queue' \in Seq(Event) /\ Head(queue).watch \in Paths /\ Head(queue).path \in Paths
    BY <1>1, <1>13, EventType DEF ReadMkdir
  <2>2. \A i \in WatchIds : <<Do("add", Head(queue).path, i)>> \in Seq(Work)
    BY <2>1 DEF Do, Work
  <2>3. config[Head(queue).watch] \in WatchIds \cup {0}
    BY <1>1, <2>1 DEF TypeOK
  <2>4. todo' \in Seq(Work)
    BY <1>13, <2>2, <2>3 DEF ReadMkdir
  <2> QED
    BY <1>1, <1>13, <2>1, <2>4 DEF ReadMkdir, TypeOK, tree, bounds, history
<1>14. CASE ReadFile
  <2>1. queue' \in Seq(Event)
    BY <1>1, <1>14, EventType DEF ReadFile
  <2> QED
    BY <1>1, <1>14, <2>1 DEF ReadFile, Yield, TypeOK, tree, reader, bounds
<1> QED
  BY <1>2, <1>3, <1>4, <1>5, <1>6, <1>7, <1>8, <1>9, <1>10, <1>11, <1>12, <1>13, <1>14
  DEF WatcherStep

(* A stutter keeps the types.                                              *)
LEMMA TypeStep == IInv /\ [Next]_vars => TypeOK' /\ IsFiniteSet(dirs)'
<1> SUFFICES ASSUME IInv, [Next]_vars PROVE TypeOK' /\ IsFiniteSet(dirs)'
  OBVIOUS
<1>1. CASE UNCHANGED vars
  BY <1>1 DEF IInv, TypeOK, vars
<1> QED
  BY <1>1, ChangeType, WatcherType DEF Next

-----------------------------------------------------------------------------
(* What the watcher knows of its watches *)

(* The queue holds events, at paths.                                       *)
LEMMA QueueType ==
  ASSUME TypeOK
  PROVE  /\ queue \in Seq(Event) /\ Len(queue) \in Nat
         /\ \A n \in 1..Len(queue) : queue[n] \in Event /\ queue[n].watch \in Paths
<1>1. queue \in Seq(Event)
  BY DEF TypeOK
<1>2. Len(queue) \in Nat /\ \A n \in 1..Len(queue) : queue[n] \in Event
  BY <1>1
<1> QED
  BY <1>1, <1>2 DEF Event

(* Events of other kinds do not touch what a DELETE_SELF says.             *)
LEMMA SelvesStay ==
  ASSUME TypeOK, SelfIsLast, queue' \in Seq(Event), SameSelves(queue, queue'),
         UNCHANGED <<marks, config>>
  PROVE  SelfIsLast'
<1>1. \A n \in 1..Len(queue') : queue'[n].kind = "self" =>
         n \in 1..Len(queue) /\ queue'[n] = queue[n]
  BY DEF SameSelves
<1> QED
  BY <1>1 DEF SelfIsLast

(* Nor does reading an event.                                              *)
LEMMA SelvesLeft ==
  ASSUME TypeOK, SelfIsLast, queue # << >>, queue' = Tail(queue), UNCHANGED <<marks, config>>
  PROVE  SelfIsLast'
<1>1. /\ \A n \in 1..Len(queue') : n + 1 \in 1..Len(queue) /\ queue'[n] = queue[n + 1]
      /\ Len(queue') \in Nat
  BY TailMoves DEF TypeOK
<1> QED
  BY <1>1 DEF SelfIsLast

(* A change of the tree: a removed directory has no DELETE_SELF yet, since *)
(* it is watched.                                                          *)
LEMMA ChangeMarks ==
  ASSUME IInv, TypeOK', NEW d \in Paths,
         Mkdir(d) \/ Rmdir(d) \/ Write(d) \/ Unlink(d) \/ \E e \in Paths : Rename(d, e)
  PROVE  MarksAreNames' /\ SelfIsLast' /\ Tracked'
<1>1. TypeOK /\ MarksAreNames /\ SelfIsLast /\ Tracked
  BY DEF IInv
<1>2. CASE ~Rmdir(d)
  <2>1. UNCHANGED <<marks, config>>
    BY <1>2 DEF Mkdir, Write, Unlink, Rename, Change, reader
  <2>2. queue' \in Seq(Event) /\ SameSelves(queue, queue')
    BY <1>2, ChangeQueue
  <2> QED
    BY <1>1, <2>1, <2>2, SelvesStay DEF MarksAreNames, Tracked
<1>3. CASE Rmdir(d)
  <2>1. config' = config /\ marks' = [marks EXCEPT ![d] = None]
    BY <1>3 DEF Rmdir, Change, reader
  <2>2. marks'[d] = None /\ \A e \in Paths : marks'[e] = marks[e] \/ marks'[e] = None
    BY <1>1, <2>1 DEF TypeOK
  <2>3. MarksAreNames' /\ Tracked'
    BY <1>1, <2>1, <2>2 DEF MarksAreNames, Tracked
  <2>4. \/ queue' = queue
        \/ \E e \in Event : /\ queue' = Append(queue, e)
                            /\ \/ e.kind = "overflow"
                               \/ e.kind = "self" /\ e.watch = d /\ marks[d] = d
    BY <1>3, ChangeQueue
  <2>5. \A n \in 1..Len(queue) : queue[n] \in Event /\ queue[n].watch \in Paths
    BY <1>1, QueueType
  <2>6. ASSUME queue' = queue PROVE SelfIsLast'
    BY <1>1, <2>1, <2>2, <2>5, <2>6 DEF SelfIsLast
  <2>7. ASSUME NEW e \in Event, queue' = Append(queue, e),
               \/ e.kind = "overflow"
               \/ e.kind = "self" /\ e.watch = d /\ marks[d] = d
        PROVE  SelfIsLast'
    <3>1. /\ Len(queue') = Len(queue) + 1 /\ queue'[Len(queue) + 1] = e /\ Len(queue) \in Nat
          /\ \A n \in 1..Len(queue) : queue'[n] = queue[n]
      BY <1>1, <2>7 DEF TypeOK
    <3>2. e.kind = "self" => /\ e.watch = d /\ marks'[d] = None /\ config'[d] # 0
                             /\ \A n \in 1..Len(queue) :
                                  queue[n].kind = "self" => queue[n].watch # d
      BY <1>1, <2>1, <2>2, <2>7, PathFacts DEF Tracked, SelfIsLast
    <3>3. \A n \in 1..Len(queue') : n \in 1..Len(queue) \/ n = Len(queue) + 1
      BY <3>1
    <3>4. \A n \in 1..Len(queue') : queue'[n].kind = "self" =>
             marks'[queue'[n].watch] = None /\ config'[queue'[n].watch] # 0
      BY <1>1, <2>1, <2>2, <2>5, <3>1, <3>2, <3>3 DEF SelfIsLast
    <3>5. \A m, n \in 1..Len(queue') :
             queue'[m].kind = "self" /\ queue'[n].kind = "self"
             /\ queue'[m].watch = queue'[n].watch => m = n
      BY <1>1, <3>1, <3>2, <3>3 DEF SelfIsLast
    <3> QED
      BY <3>4, <3>5 DEF SelfIsLast
  <2> QED
    BY <2>3, <2>4, <2>6, <2>7
<1> QED
  BY <1>2, <1>3

(* A step of the watcher: a directory it adds has no entry, so no          *)
(* DELETE_SELF of it is unread; reading one removes the last.              *)
LEMMA WatcherMarks ==
  ASSUME IInv, TypeOK', Open \/ Close \/ WatcherStep
  PROVE  MarksAreNames' /\ SelfIsLast' /\ Tracked'
<1>1. TypeOK /\ MarksAreNames /\ SelfIsLast /\ Tracked
  BY DEF IInv
<1>2. ASSUME UNCHANGED <<marks, queue, config>> PROVE MarksAreNames' /\ SelfIsLast' /\ Tracked'
  BY <1>1, <1>2 DEF MarksAreNames, SelfIsLast, Tracked
<1>3. CASE Open \/ WalkDone \/ AddSkip \/ Scan \/ Synthesize \/ YieldSynthetic
  BY <1>2, <1>3 DEF Open, WalkDone, AddSkip, Scan, Synthesize, YieldSynthetic, kernel, reader
<1>4. ASSUME marks' = [d \in Paths |-> None], queue' = << >>
      PROVE  MarksAreNames' /\ SelfIsLast' /\ Tracked'
  BY <1>4 DEF MarksAreNames, SelfIsLast, Tracked
<1>5. CASE Close
  BY <1>4, <1>5 DEF Close
<1>6. CASE AddRefused
  BY <1>2, <1>4, <1>6 DEF AddRefused
<1>7. CASE AddWatch
  <2> DEFINE d == Head(todo).path
             i == Head(todo).wc
  <2>1. d \in Paths /\ i \in WatchIds /\ i # 0
    BY <1>1, <1>7, WorkType, WatchFacts DEF AddWatch
  <2>2. /\ marks' = [marks EXCEPT ![d] = d] /\ config' = [config EXCEPT ![d] = i]
        /\ queue' = queue /\ config[d] = 0
    BY <1>7 DEF AddWatch, Skip
  <2> HIDE DEF d, i
  <2>3. \A e \in Paths : e # d => marks'[e] = marks[e] /\ config'[e] = config[e]
    BY <1>1, <2>2 DEF TypeOK
  <2>4. marks'[d] = d /\ config'[d] = i
    BY <1>1, <2>1, <2>2 DEF TypeOK
  <2>5. MarksAreNames' /\ Tracked'
    BY <1>1, <2>1, <2>3, <2>4 DEF MarksAreNames, Tracked
  <2>6. \A n \in 1..Len(queue) : queue[n].kind = "self" => queue[n].watch # d
    BY <1>1, <2>2 DEF SelfIsLast
  <2>7. \A n \in 1..Len(queue) : queue[n].watch \in Paths
    BY <1>1, QueueType
  <2>8. SelfIsLast'
    BY <1>1, <2>2, <2>3, <2>6, <2>7 DEF SelfIsLast
  <2> QED
    BY <2>5, <2>8
<1>8. ASSUME NEW kinds, Get(kinds), UNCHANGED <<marks, config>>
      PROVE  MarksAreNames' /\ SelfIsLast' /\ Tracked'
  <2>1. queue # << >> /\ queue' = Tail(queue)
    BY <1>8 DEF Get
  <2> QED
    BY <1>1, <1>8, <2>1, SelvesLeft DEF MarksAreNames, Tracked
<1>9. CASE ReadOverflow \/ ReadMkdir \/ ReadFile
  BY <1>8, <1>9 DEF ReadOverflow, ReadMkdir, ReadFile, reader
<1>10. CASE ReadSelf
  <2> DEFINE d == Head(queue).watch
  <2>1. /\ d \in Paths /\ Head(queue).kind = "self" /\ queue # << >> /\ queue' = Tail(queue)
        /\ config' = [config EXCEPT ![d] = 0] /\ marks' = marks
    BY <1>1, <1>10, EventType DEF ReadSelf
  <2>2. /\ Head(queue) = queue[1] /\ 1 \in 1..Len(queue) /\ Len(queue') \in Nat
        /\ \A n \in 1..Len(queue') : n + 1 \in 1..Len(queue) /\ queue'[n] = queue[n + 1]
    BY <1>1, <2>1, QueueType, TailMoves
  <2>3. marks[d] = None
    BY <1>1, <2>1, <2>2 DEF SelfIsLast
  <2>4. \A n \in 1..Len(queue') : queue'[n].kind = "self" => queue'[n].watch # d
    BY <1>1, <2>1, <2>2 DEF SelfIsLast
  <2> HIDE DEF d
  <2>5. \A e \in Paths : e # d => config'[e] = config[e]
    BY <1>1, <2>1 DEF TypeOK
  <2>6. MarksAreNames' /\ Tracked'
    BY <1>1, <2>1, <2>3, <2>5 DEF MarksAreNames, Tracked
  <2>7. \A n \in 1..Len(queue') : queue'[n].watch \in Paths
    BY <1>1, <2>2, QueueType
  <2>8. \A n \in 1..Len(queue') : queue'[n].kind = "self" =>
           marks'[queue'[n].watch] = None /\ config'[queue'[n].watch] # 0
    BY <1>1, <2>1, <2>2, <2>4, <2>5, <2>7 DEF SelfIsLast
  <2>9. \A m, n \in 1..Len(queue') :
           queue'[m].kind = "self" /\ queue'[n].kind = "self"
           /\ queue'[m].watch = queue'[n].watch => m = n
    BY <1>1, <2>2 DEF SelfIsLast
  <2> QED
    BY <2>6, <2>8, <2>9 DEF SelfIsLast
<1> QED
  BY <1>3, <1>5, <1>6, <1>7, <1>9, <1>10 DEF WatcherStep

(* Every step keeps the invariant.                                         *)
LEMMA MarksStep == IInv /\ [Next]_vars => IInv'
<1> SUFFICES ASSUME IInv, [Next]_vars PROVE IInv'
  OBVIOUS
<1>1. TypeOK' /\ IsFiniteSet(dirs)'
  BY TypeStep
<1>2. CASE UNCHANGED vars
  BY <1>2 DEF IInv, TypeOK, MarksAreNames, SelfIsLast, Tracked, vars
<1> QED
  BY <1>1, <1>2, ChangeMarks, WatcherMarks DEF Next, IInv

-----------------------------------------------------------------------------
(* The theorems *)

(* The invariant holds in every reachable state.                           *)
LEMMA WatcherInvariance == Spec => []IInv
<1>1. Init => IInv
  BY WatcherInit
<1> QED
  BY <1>1, MarksStep, PTL DEF Spec

(* The tree, the kernel's queue and the watcher's maps and work are what   *)
(* the code takes them for, in every tree and configuration.               *)
THEOREM WatcherTypeCorrect == Spec => []TypeOK
<1>1. IInv => TypeOK
  BY DEF IInv
<1> QED
  BY <1>1, WatcherInvariance, PTL

(* No event of a watched directory is discarded for want of an entry, even *)
(* while the kernel drops events and refuses watches: a DELETE_SELF of a   *)
(* directory that is gone never removes the entry of one made anew.        *)
THEOREM WatcherTracksItsWatches == Spec => []WatchedIsTracked
<1>1. IInv => WatchedIsTracked
  BY PathFacts DEF IInv, TypeOK, Tracked, WatchedIsTracked
<1> QED
  BY <1>1, WatcherInvariance, PTL
==============================================================================

------------------------------- MODULE Watcher -------------------------------
(***************************************************************************)
(* The recursive inotify watcher (watcher.py) beside the processes that    *)
(* change the tree it watches.                                             *)
(*                                                                         *)
(* The watcher's own code never suspends between two reads of the inotify  *)
(* fd, but other processes run between any two of its system calls: adding *)
(* a watch, listing a directory and reading an event are steps of their    *)
(* own.  A directory is named by its path below the outermost watch root;  *)
(* each directory has room for one file, named by the path of its          *)
(* directory, since files of a directory do not interact.  What comes of   *)
(* an event is Routing's: the targets the pipeline submits.  The kernel's  *)
(* watch belongs to the directory itself and reports the path it was       *)
(* registered under.  Events the watcher's code drops by their type alone  *)
(* (the creation or opening of a file, the removal or renaming of a        *)
(* subdirectory as its parent sees it) are left out of the kernel queue,   *)
(* and DELETE_SELF stands for the IGNORED that follows it at once.         *)
(*                                                                         *)
(* Names in _Mutant are faulty variants, as in JobQueue.                   *)
(***************************************************************************)
EXTENDS Routing

CONSTANTS
  Names,       \* of subdirectories
  None,        \* no path
  Depth,       \* bound: depth of the tree
  MaxWatches,  \* fs.inotify.max_user_watches
  MaxQueue,    \* fs.inotify.max_queued_events
  MaxChanges,  \* bound: changes of the tree
  MaxRuns      \* bound: times the watcher is opened

Root  == << >>
Paths == UNION {[1..n -> Names] : n \in 0..Depth}

ASSUME WatcherAssumption ==
  /\ None \notin Names /\ None \notin Seq(Names)
  /\ \A i \in WatchIds : Watches[i].path \in Paths
  /\ \E i \in WatchIds : Watches[i].path = Root  \* the rest hangs below it
  /\ "f" \notin Names
  /\ Depth \in Nat /\ MaxWatches \in Nat /\ MaxQueue \in Nat
  /\ MaxChanges \in Nat /\ MaxRuns \in Nat

VARIABLES
  dirs,      \* directories that exist
  files,     \* directories whose file exists
  marks,     \* kernel: path under which the watch on a directory was added
  queue,     \* kernel: events not read yet
  config,    \* _dir_to_root and _dir_to_config: the watch, 0 for no entry
  todo,      \* what is left of _add_recursive or _add_dir_and_scan
  synthetic, \* _synthetic
  phase,     \* of the watcher
  changes,   \* number of changes so far
  runs,      \* number of times it was opened
  dirty,     \* history: files written, not all that is due submitted since
  gone,      \* history: files removed under a watch, likewise
  excused,   \* history: files whose last change the watcher may have missed
  blind,     \* history: directories refused a watch; the root, after an overflow
  torn,      \* history: directories removed when watched and their parent was not
  born       \* history: directories made while the root was watched

tree    == <<dirs, files>>
kernel  == <<marks, queue>>
reader  == <<config, todo, synthetic>>
bounds  == <<changes, runs>>
history == <<dirty, gone, excused, blind, torn, born>>
vars    == <<dirs, files, marks, queue, config, todo, synthetic, phase,
             changes, runs, dirty, gone, excused, blind, torn, born>>

FileMasks == LiveMasks \cup GoneMasks
Kinds == FileMasks \cup {"mkdir", "self", "overflow"}
Event == [kind : Kinds, watch : Paths, path : Paths]
Work  == [op : {"add", "scan", "file"}, path : Paths, wc : WatchIds]

Do(op, d, i) == [op |-> op, path |-> d, wc |-> i]

(* The file of a directory. *)
File(d) == Append(d, "f")

(* _is_ignored, for each watch *)
IgnoredDirs  == [i \in WatchIds |-> {d \in Paths : MatchesAnyGlob(d, i)}]
IgnoredFiles == [i \in WatchIds |-> {d \in Paths : MatchesAnyGlob(File(d), i)}]
Children(d) == {e \in dirs : e # Root /\ Front(e) = d}
Watched == {d \in Paths : marks[d] # None}

Init ==
  /\ dirs = {Root}
  /\ files = {}
  /\ marks = [d \in Paths |-> None]
  /\ queue = << >>
  /\ config = [d \in Paths |-> 0]
  /\ todo = << >>
  /\ synthetic = << >>
  /\ phase = "closed"
  /\ changes = 0
  /\ runs = 0
  /\ dirty = {} /\ gone = {} /\ excused = {} /\ blind = {} /\ torn = {} /\ born = {}

-----------------------------------------------------------------------------
(* The kernel and the processes that change the tree *)

(* An event at the directory whose watch is w; the kernel drops what does  *)
(* not fit and says so once.                                               *)
Overflow == [kind |-> "overflow", watch |-> Root, path |-> Root]
Post(q, kind, w, path) ==
  IF w = None THEN q
  ELSE IF Len(q) < MaxQueue
       THEN Append(q, [kind |-> kind, watch |-> w,
                       path |-> IF path = None THEN w ELSE Append(w, path)])
  ELSE IF Contains(q, Overflow) THEN q ELSE Append(q, Overflow)

Change == /\ phase # "refused"
          /\ changes < MaxChanges
          /\ changes' = changes + 1
          /\ UNCHANGED <<runs, phase, reader>>

(* Files of whose changes, or removals, some CDN should hear. *)
DueLive == {d \in Paths : Due(FALSE, File(d)) # {}}
DueGone == {d \in Paths : Due(TRUE, File(d)) # {}}

(* A removal is heard of only where there is a watch. *)
Heard(d) == IF marks[d] = None THEN {} ELSE {d} \cap DueGone

(* A change of the files S nobody watches for is not the watcher's. *)
Excuse(S) == excused' = IF phase = "running" THEN excused \ S ELSE excused \cup S

Mkdir(d) ==
  /\ Change
  /\ d \notin dirs /\ d # Root /\ Front(d) \in dirs
  /\ dirs' = dirs \cup {d}
  /\ queue' = Post(queue, "mkdir", marks[Front(d)], Last(d))
  /\ born' = IF marks[Root] = None THEN born ELSE born \cup {d}
  /\ UNCHANGED <<files, marks, dirty, gone, excused, blind, torn>>

Rmdir(d) ==
  /\ Change
  /\ d \in dirs /\ d # Root /\ d \notin files /\ Children(d) = {}
  /\ dirs' = dirs \ {d}
  /\ queue' = Post(queue, "self", marks[d], None)
  /\ marks' = [marks EXCEPT ![d] = None]
  /\ blind' = blind \ {d}
  /\ torn' = IF marks[d] # None /\ marks[Front(d)] = None THEN torn \cup {d} ELSE torn
  /\ born' = born \ {d}
  /\ UNCHANGED <<files, dirty, gone, excused>>

(* A file is written in place and closed. *)
Write(d) ==
  /\ Change
  /\ d \in dirs
  /\ files' = files \cup {d}
  /\ dirty' = dirty \cup ({d} \cap DueLive)
  /\ gone' = gone \ {d}
  /\ Excuse({d})
  /\ queue' = Post(queue, "IN_CLOSE_WRITE", marks[d], None)
  /\ UNCHANGED <<dirs, marks, blind, torn, born>>

Unlink(d) ==
  /\ Change
  /\ d \in files
  /\ files' = files \ {d}
  /\ dirty' = dirty \ {d}
  /\ gone' = gone \cup Heard(d)
  /\ Excuse({d})
  /\ queue' = Post(queue, "IN_DELETE", marks[d], None)
  /\ UNCHANGED <<dirs, marks, blind, torn, born>>

(* A file is renamed into another directory, over the one there if any. *)
Rename(d, e) ==
  /\ Change
  /\ d \in files /\ e \in dirs /\ d # e
  /\ files' = (files \ {d}) \cup {e}
  /\ dirty' = (dirty \ {d}) \cup ({e} \cap DueLive)
  /\ gone' = (gone \ {e}) \cup Heard(d)
  /\ Excuse({d, e})
  /\ queue' = Post(Post(queue, "IN_MOVED_FROM", marks[d], None),
                   "IN_MOVED_TO", marks[e], None)
  /\ UNCHANGED <<dirs, marks, blind, torn, born>>

-----------------------------------------------------------------------------
(* Opening the watcher *)

(* _count_watchable_dirs: the walk does not enter what the watch ignores.  *)
Kept == [i \in WatchIds |->
  {d \in Paths : /\ IsPrefix(Watches[i].path, d)
                 /\ \A n \in Len(Watches[i].path) + 1..Len(d) :
                      SubSeq(d, 1, n) \notin IgnoredDirs[i]}]
Needed(i) == Cardinality(Kept[i] \cap dirs)

(* __aenter__: the pre-flight, then the walk of every root in turn. *)
Open ==
  /\ phase = "closed"
  /\ runs < MaxRuns
  /\ runs' = runs + 1
  /\ IF MapThenSumSet(Needed, WatchIds) > MaxWatches
     THEN phase' = "refused" /\ UNCHANGED todo
     ELSE phase' = "walking" /\ todo' = [i \in WatchIds |-> Do("add", Watches[i].path, i)]
  /\ UNCHANGED <<tree, kernel, config, synthetic, changes, history>>

WalkDone ==
  /\ phase = "walking"
  /\ todo = << >>
  /\ phase' = "running"
  /\ UNCHANGED <<tree, kernel, reader, bounds, history>>

(* __aexit__: closing the fd removes the watches and the events. *)
Close ==
  /\ phase \in {"walking", "running"}
  /\ phase' = "closed"
  /\ marks' = [d \in Paths |-> None]
  /\ queue' = << >>
  /\ config' = [d \in Paths |-> 0] /\ todo' = << >> /\ synthetic' = << >>
  /\ excused' = Paths /\ blind' = {} /\ torn' = {} /\ born' = {}
  /\ UNCHANGED <<tree, bounds, dirty, gone>>

-----------------------------------------------------------------------------
(* _add_recursive (while walking) and _add_dir_and_scan (while running) *)

Working(op) == todo # << >> /\ Head(todo).op = op

(* No check for a directory that is watched already. *)
Skip_Mutant(d, i) == d \notin dirs \/ d \in IgnoredDirs[i]
(* not path.is_dir(), ignored (a root is not, at startup), or watched *)
Skip(d, i) ==
  \/ d \notin dirs
  \/ d \in IgnoredDirs[i] /\ ~(phase = "walking" /\ d = Watches[i].path)
  \/ config[d] # 0
Room(d) == marks[d] # None \/ Cardinality(Watched) < MaxWatches

(* Nothing to add, or add_watch fails because the directory has gone. *)
AddSkip ==
  /\ Working("add")
  /\ Skip(Head(todo).path, Head(todo).wc)
  /\ todo' = Tail(todo)
  /\ UNCHANGED <<tree, kernel, config, synthetic, phase, bounds, history>>

(* ENOSPC: startup ends, a running watcher logs it and goes on. *)
AddRefused ==
  LET d == Head(todo).path
  IN  /\ Working("add")
      /\ ~Skip(d, Head(todo).wc) /\ ~Room(d)
      /\ IF phase = "walking"
         THEN /\ phase' = "refused"
              /\ todo' = << >>
              /\ marks' = [e \in Paths |-> None]
              /\ queue' = << >>
              /\ UNCHANGED blind
         ELSE /\ todo' = Tail(todo)
              /\ blind' = blind \cup {d}
              /\ UNCHANGED <<phase, marks, queue>>
      /\ UNCHANGED <<tree, config, synthetic, bounds, dirty, gone, excused, torn, born>>

AddWatch ==
  LET d == Head(todo).path
  IN  /\ Working("add")
      /\ ~Skip(d, Head(todo).wc) /\ Room(d)
      /\ marks' = [marks EXCEPT ![d] = d]
      /\ config' = [config EXCEPT ![d] = Head(todo).wc]
      /\ blind' = blind \ {d}
      /\ torn' = torn \ {d}
      /\ todo' = <<Do("scan", d, Head(todo).wc)>> \o Tail(todo)
      /\ UNCHANGED <<tree, queue, synthetic, phase, bounds, dirty, gone, excused, born>>

(* What the walk through the entries of directory d has to do: a walk at   *)
(* run time also takes the file, unless the watch ignores it.              *)
Subdirs(d, i) == {Do("add", e, i) : e \in Children(d)}
NewFiles(d, i) == IF phase = "running" /\ d \in files \ IgnoredFiles[i]
                  THEN {Do("file", d, i)} ELSE {}
(* Files a new directory already has are left out. *)
Entries_Dirs_Mutant(d, i) == Subdirs(d, i)
(* Subdirectories of a new directory are not looked into. *)
Entries_Files_Mutant(d, i) == NewFiles(d, i)
Entries(d, i) == Subdirs(d, i) \cup NewFiles(d, i)

(* os.scandir, in any order; a directory that has gone lists nothing. *)
Scan ==
  /\ Working("scan")
  /\ \E order \in SetToSeqs(Entries(Head(todo).path, Head(todo).wc)) : todo' = order \o Tail(todo)
  /\ UNCHANGED <<tree, kernel, config, synthetic, phase, bounds, history>>

(* The name of the event ends up in the path. *)
Synthesize_Mutant ==
  /\ Working("file")
  /\ synthetic' = Append(synthetic, Append(Head(todo).path, "IN_MOVED_TO"))
  /\ todo' = Tail(todo)
  /\ UNCHANGED <<tree, kernel, config, phase, bounds, history>>
(* A file the scan found becomes a synthetic IN_MOVED_TO. *)
Synthesize ==
  /\ Working("file")
  /\ synthetic' = Append(synthetic, Head(todo).path)
  /\ todo' = Tail(todo)
  /\ UNCHANGED <<tree, kernel, config, phase, bounds, history>>

-----------------------------------------------------------------------------
(* _iter *)

Reading == phase = "running" /\ todo = << >>

(* The files for which the pipeline submits all that is due. *)
Purged == [mask \in FileMasks |->
  {d \in Paths : Due(FALSE, File(d)) \subseteq Targets(mask, File(d))}]

(* The pipeline takes the event; only a live one says that there is a file.*)
Yield(mask, d) ==
  /\ gone' = gone \ ({d} \cap Purged[mask])
  /\ dirty' = IF mask \in LiveMasks
              THEN dirty \ ({d} \cap Purged[mask]) ELSE dirty

YieldSynthetic ==
  /\ Reading
  /\ synthetic # << >>
  /\ synthetic' = Tail(synthetic)
  /\ Yield("IN_MOVED_TO", Head(synthetic))
  /\ UNCHANGED <<tree, kernel, config, todo, phase, bounds, excused, blind, torn, born>>

Get(kinds) == /\ Reading
              /\ synthetic = << >>
              /\ queue # << >>
              /\ Head(queue).kind \in kinds
              /\ queue' = Tail(queue)

(* Only logged: whatever the kernel dropped is lost for this run.          *)
ReadOverflow ==
  /\ Get({"overflow"})
  /\ blind' = blind \cup {Root}
  /\ excused' = Paths
  /\ UNCHANGED <<tree, marks, reader, phase, bounds, dirty, gone, torn, born>>

(* The removal of a watched directory is not taken note of. *)
ReadSelf_Mutant ==
  /\ Get({"self"})
  /\ UNCHANGED <<tree, marks, config, todo, synthetic, phase, bounds, history>>
ReadSelf ==
  /\ Get({"self"})
  /\ config' = [config EXCEPT ![Head(queue).watch] = 0]
  /\ UNCHANGED <<tree, marks, todo, synthetic, phase, bounds, history>>

ReadMkdir ==
  /\ Get({"mkdir"})
  /\ LET i == config[Head(queue).watch]
     IN  todo' = IF i # 0 THEN <<Do("add", Head(queue).path, i)>> ELSE << >>
  /\ UNCHANGED <<tree, marks, config, synthetic, phase, bounds, history>>

(* A mask without MOVED_TO. *)
ReadFile_Mutant ==
  /\ Get(FileMasks)
  /\ IF config[Head(queue).watch] = 0 \/ Head(queue).kind = "IN_MOVED_TO"
     THEN UNCHANGED <<dirty, gone>>
     ELSE Yield(Head(queue).kind, Head(queue).path)
  /\ UNCHANGED <<tree, marks, reader, phase, bounds, excused, blind, torn, born>>
ReadFile ==
  /\ Get(FileMasks)
  /\ IF config[Head(queue).watch] = 0 THEN UNCHANGED <<dirty, gone>>
     ELSE Yield(Head(queue).kind, Head(queue).path)
  /\ UNCHANGED <<tree, marks, reader, phase, bounds, excused, blind, torn, born>>

WatcherStep ==
  \/ AddSkip \/ AddRefused \/ AddWatch \/ Scan \/ Synthesize \/ WalkDone
  \/ YieldSynthetic \/ ReadOverflow \/ ReadSelf \/ ReadMkdir \/ ReadFile

Next ==
  \/ \E d \in Paths : Mkdir(d) \/ Rmdir(d) \/ Write(d) \/ Unlink(d)
  \/ \E d, e \in Paths : Rename(d, e)
  \/ Open \/ Close
  \/ WatcherStep

Spec == Init /\ [][Next]_vars

-----------------------------------------------------------------------------
(* A directory is renamed with everything below it: its parents' events    *)
(* (IN_MOVED_FROM, IN_MOVED_TO with ISDIR) are dropped by the code, its    *)
(* own MOVE_SELF is not, and the watches below keep their old paths.       *)
Moved(d, e, S) == {f \in S : ~IsPrefix(d, f)} \cup
                  {e \o SubSeq(f, Len(d) + 1, Len(f)) : f \in {g \in S : IsPrefix(d, g)}}

MoveDir(d, e) ==
  /\ Change
  /\ d \in dirs /\ d # Root
  /\ e \notin dirs /\ e # Root /\ Front(e) \in dirs /\ ~IsPrefix(d, e)
  /\ Moved(d, e, dirs) \subseteq Paths
  /\ dirs' = Moved(d, e, dirs)
  /\ files' = Moved(d, e, files)
  /\ dirty' = (dirty \cap files') \cup ((files' \ files) \cap DueLive)
  /\ gone' = gone \cup ((files \ files') \cap DueGone)
  /\ Excuse((files \ files') \cup (files' \ files))
  /\ marks' = [f \in Paths |->
       IF IsPrefix(e, f)
       THEN LET g == d \o SubSeq(f, Len(e) + 1, Len(f))
            IN  IF g \in Paths THEN marks[g] ELSE None
       ELSE IF IsPrefix(d, f) THEN None ELSE marks[f]]
  /\ queue' = Post(queue, "self", marks[d], None)
  /\ blind' = Moved(d, e, blind)
  /\ torn' = Moved(d, e, torn)
  /\ born' = Moved(d, e, born)

MovesSpec == Init /\ [][Next \/ \E d, e \in Paths : MoveDir(d, e)]_vars

-----------------------------------------------------------------------------
(* Properties *)

TypeOK ==
  /\ dirs \in SUBSET Paths /\ files \in SUBSET dirs
  /\ marks \in [Paths -> Paths \cup {None}]
  /\ queue \in Seq(Event)
  /\ config \in [Paths -> WatchIds \cup {0}]
  /\ todo \in Seq(Work)
  /\ synthetic \in Seq(Paths)
  /\ phase \in {"closed", "walking", "running", "refused"}
  /\ changes \in Nat /\ runs \in Nat
  /\ dirty \in SUBSET files /\ gone \in SUBSET (Paths \ files) /\ excused \in SUBSET Paths
  /\ blind \in SUBSET Paths /\ torn \in SUBSET Paths /\ born \in SUBSET Paths

Quiet == Reading /\ synthetic = << >> /\ queue = << >>

(* Events of which all that is due, and no more, is submitted. *)
Routed == {e \in Event : e.kind \in FileMasks => RoutedAsDue(e.kind, File(e.path))}

(* Below no directory of S. *)
ClearOf(S, d) == \A e \in S : ~IsPrefix(e, d)

(* Directories the watch of the deepest root covers.                       *)
Wanted == {d \in Paths : \E i \in Deepest(d) :
             \A n \in Len(Watches[i].path) + 1..Len(d) : ~IgnoredBy(SubSeq(d, 1, n), i)}

(* When the watcher has nothing left to read or to do, every target due    *)
(* for a file that was written has been submitted after its last write,    *)
(* and every one due for a file that was removed under a watch after its   *)
(* removal: the race between mkdir, add_watch and scandir loses nothing,   *)
(* and the walk, the filter and the mapper agree on whose file it is.      *)
(* Nothing is said of what is below a directory the kernel refused to      *)
(* watch, or one removed while nobody watched its parent and not added     *)
(* since (torn), or of what comes after the kernel has dropped events.     *)
TreeIsCovered ==
  Quiet => \A d \in (dirty \cup gone) \ excused : ~ClearOf(blind \cup torn, d)

(* watcher.py: after an overflow coverage is inconsistent "until the next  *)
(* change touches each affected file", which is to be reported again.      *)
CoverageReturns ==
  Quiet => \A d \in (dirty \cup gone) \ excused : ~ClearOf((blind \ {Root}) \cup torn, d)

(* When the watcher is idle, and has not read of an overflow, its          *)
(* bookkeeping agrees with the kernel: a directory is tracked iff the      *)
(* kernel watches it under that very path.                                 *)
BookkeepingIsExact ==
  Quiet /\ Root \notin blind => \A d \in Paths : config[d] # 0 <=> marks[d] = d

(* Every existing directory has a watch, once startup has succeeded and    *)
(* the watcher is idle, but for those below one the kernel refused to      *)
(* watch, or one whose watch went with it while its parent had none: its   *)
(* entry is stale, and no event tells of the directory that replaces it.   *)
EveryDirIsWatched ==
  Quiet => \A d \in dirs \cap Wanted : ClearOf(blind \cup torn, d) => marks[d] = d

(* The event of a file that is about to be read has every CDN bound to the *)
(* watch of the deepest root told, and no other, under the URLs of that    *)
(* watch, if that watch does not ignore the file, and asks for removals if *)
(* it is one: the filter's order of search, its matcher and the mapper's   *)
(* search by root come to what the documentation says of nested roots.     *)
EventsAreRouted ==
  Reading /\ queue # << >> => Head(queue) \in Routed

(* Patterns and paths a little longer than the tree is deep. *)
Patterns == UNION {[1..n -> Names \cup {"*", "**"}] : n \in 1..Depth + 3}
Parts    == UNION {[1..n -> Names] : n \in 0..Depth + 2}

(* The recursive matcher finds a match iff there is a way to cut the path, *)
(* whatever runs of ** the pattern has and wherever they stand (filter.py, *)
(* matches_any_glob: ** matches any number of components, zero included).  *)
(* It says nothing of the state, so the initial one is enough.             *)
GlobsMatch == changes = 0 /\ runs = 0 =>
  \A pp \in Patterns, sp \in Parts : Gm(pp, sp) = Matches(pp, sp)

(* Where watches hold a directory that is to be watched they agree on it:  *)
(* none ignores it, and the watch of a root below another is not cut off   *)
(* by what the other ignores.  The walk of any of them may come first, and *)
(* marks what it adds as its own.                                          *)
DirsAgree ==
  \A d \in Wanted :
    /\ d # Root => Front(d) \in Wanted
    /\ \A i \in Holding(d) : Watches[i].path = d \/ ~IgnoredBy(d, i)

(* So they do on the files something is due for, no file of an ignored     *)
(* directory is one, and no two watches share a root.                      *)
FilesAgree ==
  /\ DistinctRoots
  /\ \A d \in DueLive : d \in Wanted /\ \A i \in Holding(d) : ~IgnoredBy(File(d), i)

(* The converse half alone, which holds even while the kernel drops events *)
(* and refuses watches: no event of a watched directory is discarded for   *)
(* want of an entry in _dir_to_root, where a stale DELETE_SELF might have  *)
(* removed the entry of the directory made anew.                           *)
WatchedIsTracked == \A d \in dirs : marks[d] = d => config[d] # 0

(* docs/architecture.md: "New subdirectories created inside a watch root   *)
(* start being watched automatically - without losing files created during *)
(* the gap between mkdir and watch registration": the first half.          *)
NewDirIsWatched ==
  Quiet => \A d \in born \cap dirs \cap Wanted : ClearOf(blind, d) => marks[d] = d

(* The second half. *)
NoFileOfNewDirIsLost ==
  Quiet => \A d \in born \cap dirty : ~ClearOf(blind, d)
=============================================================================

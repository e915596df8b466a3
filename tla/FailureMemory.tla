----------------------------- MODULE FailureMemory -----------------------------
(***************************************************************************)
(* Failure fingerprints (aicoach-core/src/failure_memory.rs): what followed *)
(* a failed command when it was last solved.  The daemon links a failure   *)
(* to the next command of its session that succeeds, keeps a bounded list  *)
(* of such links in memory and in one file, and the CLI clears both while  *)
(* daemons stop and start.                                                 *)
(*                                                                         *)
(* Commands are abstract: two commands are alike when they have the same   *)
(* shape, and a failure's fingerprint is its shape with that of its output *)
(* (one output per shape here).  The wall clock may be set back.           *)
(***************************************************************************)
EXTENDS Integers, FiniteSets, Sequences

CONSTANTS Observed,       \* sessions whose commands are observed
          CommandLines,
          Shape,          \* command_shape, and with it fingerprint_for
          Observational,  \* commands that only look (is_observational)
          Secret,         \* commands the forced redactor changes
          Blank,          \* commands of which nothing is left to keep
          Window,         \* options.resolution_window
          Retention,      \* options.retention
          MaxEntries,     \* options.max_entries
          MaxTime,        \* bound: the clock
          MaxFinished,    \* bound: commands ever finished
          MaxForgets,     \* bound: clears asked for
          NoMemory,       \* there is no file
          Unreadable      \* there is one that cannot be read

VARIABLES up,         \* the daemon runs
          loaded,     \* its memory could be read; without, the daemon learns nothing
          entries,    \* the snapshot in memory, newest first
          pending,    \* one unresolved failure per session at most
          file,       \* NoMemory, Unreadable or the entries on disk
          clock,
          forgetting, \* the clear command under way
          forgets,    \* clears asked for
          done,       \* ghost: every finished command, in the order observed
          since,      \* ghost: since[s], the commands of s a clear covers
          crossed     \* ghost: a daemon read the file while a clear was deleting it

snapshot == <<loaded, entries, pending>>
memoryGhosts == <<done, since, crossed>>
memoryVars == <<up, snapshot, file, clock, forgetting, forgets, memoryGhosts>>

\* A command has a shape, which is not that of no command.
ASSUME MemoryAssumption ==
  /\ \A c \in CommandLines : Shape[c] # "none"
  /\ Window \in Nat /\ Retention \in Nat /\ MaxEntries \in Nat /\ MaxTime \in Nat

OnDisk == IF file = NoMemory \/ file = Unreadable THEN <<>> ELSE file

NoFailure == [shape |-> "none", at |-> 0]
Pending(s) == pending[s] # NoFailure

MemoryInit ==
  /\ up = FALSE /\ loaded = FALSE /\ entries = <<>>
  /\ pending = [s \in Observed |-> NoFailure]
  /\ file \in {NoMemory, Unreadable} /\ clock = 0
  /\ forgetting = "none" /\ forgets = 0
  /\ done = <<>> /\ since = [s \in Observed |-> 0] /\ crossed = FALSE

-----------------------------------------------------------------------------
(* The snapshot.                                                             *)

\* sort_by_key(Reverse(last_seen)), which is stable ...
Ahead(list, i, j) ==
  list[i].seen > list[j].seen \/ (list[i].seen = list[j].seen /\ i < j)

Place(list, places, j) == Cardinality({i \in places : Ahead(list, i, j)}) + 1

\* ... and truncate, of the entries at some places of a list.
Best(list, places) ==
  LET all == Cardinality(places)
  IN  [k \in 1..(IF all > MaxEntries THEN MaxEntries ELSE all) |->
         list[CHOOSE j \in places : Place(list, places, j) = k]]

SortedAndBounded(list) == Best(list, DOMAIN list)

\* prune: retain what was seen late enough, and bound it.
Pruned(list, now) == Best(list, {i \in DOMAIN list : list[i].seen + Retention >= now})

\* It reports a change by the number of entries.
Shrinks(list, kept) == Len(kept) # Len(list)

\* persist: a new file renamed into place, or nothing.
Persist(list) == file' = list
PersistFails == UNCHANGED file

\* Mutant: a link never grows too old.
FreshForever(link) == link # NoFailure

\* observe: links older than the resolution window are dropped in every session.
Fresh(link) == link # NoFailure /\ clock <= link.at + Window

\* observe_failure: an entry that is known is seen again, and the failure is the
\* session's unresolved one, whatever was there before.
Seen(list, shape) ==
  [i \in DOMAIN list |->
     IF list[i].shape = shape
     THEN [list[i] EXCEPT !.times = @ + 1, !.seen = clock]
     ELSE list[i]]

\* observe_success: does a success settle the session's unresolved failure?
Resolves(link, c) == Fresh(link) /\ c \notin Observational

\* ... and is it worth remembering?  A retry of the same shape is not, nor a
\* command of which redaction and trimming leave nothing.
Learns(link, c) == Resolves(link, c) /\ Shape[c] # link.shape /\ c \notin Blank

\* The entry of a shape after a success: updated in place, or a new last one.
Learnt(list, shape, c) ==
  LET news == [shape |-> shape, times |-> 1, seen |-> clock, follow |-> c,
               reusable |-> c \notin Secret]
      known == {i \in DOMAIN list : list[i].shape = shape}
  IN  IF known = {} THEN Append(list, news)
      ELSE LET i == CHOOSE k \in known : \A m \in known : k <= m
           IN  [list EXCEPT ![i] = [news EXCEPT !.times = list[i].times]]

ObserveFailure(s, c, kept) ==
  /\ entries' = Seen(kept, Shape[c])
  /\ pending' = [t \in Observed |->
                  IF t = s THEN [shape |-> Shape[c], at |-> clock]
                  ELSE IF Fresh(pending[t]) THEN pending[t] ELSE NoFailure]
  /\ IF Shrinks(entries, kept) \/ \E i \in DOMAIN kept : kept[i].shape = Shape[c]
     THEN Persist(entries') \/ PersistFails
     ELSE UNCHANGED file

ObserveSuccess(s, c, kept) ==
  LET link == pending[s]
      learns == Learns(link, c)
  IN  /\ entries' = IF learns THEN SortedAndBounded(Learnt(kept, link.shape, c)) ELSE kept
      /\ pending' = [t \in Observed |->
                      IF (t = s /\ Resolves(link, c)) \/ ~Fresh(pending[t]) THEN NoFailure
                      ELSE pending[t]]
      /\ IF learns \/ Shrinks(entries, kept) THEN Persist(entries') \/ PersistFails
         ELSE UNCHANGED file

\* dispatch CommandFinished: the memory observes the command under its lock; a
\* snapshot that changed is persisted, and a failure to do so is only logged.
ObserveFinished(s, c, ok) ==
  /\ up /\ Len(done) < MaxFinished
  /\ done' = Append(done, [s |-> s, c |-> c, ok |-> ok, at |-> clock])
  /\ IF loaded
     THEN LET kept == Pruned(entries, clock)
          IN  IF ok THEN ObserveSuccess(s, c, kept) ELSE ObserveFailure(s, c, kept)
     ELSE UNCHANGED <<entries, pending, file>>
  /\ UNCHANGED <<up, loaded, clock, forgetting, forgets, since, crossed>>

-----------------------------------------------------------------------------
(* The daemon's life.                                                        *)

\* initialize_failure_memory: a file that cannot be read stays, and the daemon
\* runs without a memory; so it does when the pruned entries cannot be saved.
Start ==
  /\ ~up /\ up' = TRUE
  /\ LET kept == Pruned(OnDisk, clock)
     IN  \/ /\ file # Unreadable
            /\ loaded' = TRUE /\ entries' = kept
            /\ IF Shrinks(OnDisk, kept) THEN Persist(kept) ELSE UNCHANGED file
         \/ /\ file = Unreadable \/ Shrinks(OnDisk, kept)
            /\ loaded' = FALSE /\ entries' = <<>>
            /\ UNCHANGED file
  /\ pending' = [s \in Observed |-> NoFailure]
  /\ crossed' = (crossed \/ forgetting # "none")
  /\ UNCHANGED <<clock, forgetting, forgets, done, since>>

Stop ==
  /\ up /\ up' = FALSE
  /\ loaded' = FALSE /\ entries' = <<>>
  /\ pending' = [s \in Observed |-> NoFailure]
  /\ UNCHANGED <<file, clock, forgetting, forgets, memoryGhosts>>

SetClock(t) ==
  /\ t # clock /\ clock' = t
  /\ UNCHANGED <<up, snapshot, file, forgetting, forgets, memoryGhosts>>

-----------------------------------------------------------------------------
(* Clearing.                                                                 *)

\* Mutant: the links to the next success survive the clear.
EmptiedOfEntries == entries' = <<>> /\ Persist(<<>>) /\ UNCHANGED pending

\* FailureMemory::clear: the emptied snapshot is persisted; when that fails
\* memory is put back as it was and the clear is refused.
Emptied ==
  /\ entries' = <<>>
  /\ pending' = [s \in Observed |-> NoFailure]
  /\ Persist(<<>>)

\* clear_fingerprints and clear_all, first the daemon when one runs ...
AskDaemon ==
  /\ forgetting = "none" /\ forgets < MaxForgets
  /\ forgets' = forgets + 1
  /\ \/ /\ up /\ loaded /\ Emptied
        /\ forgetting' = "delete"
        /\ since' = [s \in Observed |-> Len(done)]
     \/ /\ up /\ loaded            \* the persist failed: the CLI reports it
        /\ UNCHANGED <<entries, pending, file, forgetting, since>>
     \/ /\ ~(up /\ loaded)
        /\ forgetting' = "delete"
        /\ since' = [s \in Observed |-> Len(done)]
        /\ UNCHANGED <<entries, pending, file>>
  /\ UNCHANGED <<up, loaded, clock, done, crossed>>

\* ... then the file, malformed or not.
DeleteFile ==
  /\ forgetting = "delete"
  /\ forgetting' = "none"
  /\ file' = NoMemory
  /\ UNCHANGED <<up, snapshot, clock, forgets, memoryGhosts>>

\* memory clear stops the daemon, deletes the file and starts a new one.
StopAndDelete ==
  /\ forgetting = "none" /\ forgets < MaxForgets
  /\ forgets' = forgets + 1
  /\ forgetting' = "delete"
  /\ up' = FALSE /\ loaded' = FALSE /\ entries' = <<>>
  /\ pending' = [s \in Observed |-> NoFailure]
  /\ since' = [s \in Observed |-> Len(done)]
  /\ UNCHANGED <<file, clock, done, crossed>>

\* DataOperation::ClearSession drops the session's link and no fingerprint.
ClearSession(s) ==
  /\ up /\ loaded /\ Pending(s)
  /\ pending' = [pending EXCEPT ![s] = NoFailure]
  /\ UNCHANGED <<up, loaded, entries, file, clock, forgetting, forgets, memoryGhosts>>

MemoryNext ==
  \/ \E s \in Observed, c \in CommandLines, ok \in BOOLEAN : ObserveFinished(s, c, ok)
  \/ \E s \in Observed : ClearSession(s)
  \/ \E t \in 0..MaxTime : SetClock(t)
  \/ Start \/ Stop \/ AskDaemon \/ DeleteFile \/ StopAndDelete

MemorySpec == MemoryInit /\ [][MemoryNext]_memoryVars

-----------------------------------------------------------------------------
MemoryTypeOK ==
  /\ up \in BOOLEAN /\ loaded \in BOOLEAN
  /\ forgetting \in {"none", "delete"}
  /\ \A list \in {entries, OnDisk} :
       /\ Len(list) <= MaxEntries
       /\ \A i, j \in DOMAIN list :
            i < j => list[i].shape # list[j].shape

\* CommandLines i and j of a session, with nothing between them that settles i.
Follows(i, j) ==
  /\ i < j /\ done[i].s = done[j].s /\ ~done[i].ok /\ done[j].ok
  /\ done[j].at <= done[i].at + Window
  /\ \A k \in (i + 1)..(j - 1) :
       done[k].s = done[i].s => done[k].ok /\ done[k].c \in Observational

\* Whatever was lost, cleared, pruned or reloaded in between, an entry in memory
\* or on disk tells the truth: its follow-up is what a session ran, as the first
\* command that did more than look, within the window after that failure; a
\* command the redactor changed is never offered for reuse.
EntriesTellWhatFollowed ==
  \A list \in {entries, OnDisk} : \A n \in DOMAIN list :
    /\ \E i, j \in DOMAIN done :
         /\ Follows(i, j)
         /\ Shape[done[i].c] = list[n].shape /\ done[j].c = list[n].follow
         /\ Shape[done[j].c] # list[n].shape
         /\ done[j].c \notin Blank \cup Observational
    /\ list[n].reusable => list[n].follow \notin Secret

\* After a clear, memory and file hold only what was learnt from failures that
\* came later, restarts included, unless a daemon was starting while the file
\* was being deleted.
ClearedIsForgotten ==
  (forgetting = "none" /\ ~crossed) =>
    \A list \in {entries, OnDisk} : \A n \in DOMAIN list :
      \E i \in DOMAIN done :
        ~done[i].ok /\ Shape[done[i].c] = list[n].shape /\ i > since[done[i].s]

\* What is remembered of a failure is what followed it, and nothing of it survives a
\* clear, whatever daemon runs, stops or starts meanwhile.
MemoryTellsTheTruth == MemoryTypeOK /\ EntriesTellWhatFollowed /\ ClearedIsForgotten
=============================================================================

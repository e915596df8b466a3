--------------------------- MODULE RuntimeFiles ---------------------------
(***************************************************************************)
(* How daemon processes agree, through two files, on which of them serves: *)
(* every prompt of every shell may run `aicoach start` while no socket is  *)
(* there, so several daemons may be starting, stopping or crashing at the  *)
(* same time, next to an `aicoach stop`.  Each system call is one action.  *)
(*                                                                         *)
(* A path holds the file of one process or none.  A process writes its     *)
(* number through the handle it opened, so it fills its own PID file even  *)
(* when the path has been taken over.  A process never runs twice; what    *)
(* survives a crash is the files.  The kernel does not reuse the number of *)
(* a dead daemon for a live one here.                                      *)
(***************************************************************************)
EXTENDS FiniteSets

CONSTANTS
  Procs,      \* daemon processes, each started once
  Stoppers,   \* runs of `aicoach stop`
  NoProc

ASSUME NoProcIsNone == NoProc \notin Procs

VARIABLES
  pidFile,    \* the process that created the file at the PID path
  written,    \* processes that have written their number into their PID file
  sock,       \* the process whose socket is at the socket path
  pc,         \* where each process is
  seen,       \* the number it read from the PID file
  stop,       \* where each `aicoach stop` is
  late,       \* processes started while another one served undisturbed
  alone       \* processes nothing else has run beside since they started

files == <<pidFile, written, sock>>
vars  == <<files, pc, seen, stop, late, alone>>

\* From the creation of the PID file to the start of the cleanup.
Reserved == {"created", "numbered", "acquired", "bound", "serving"}

\* The cleanup runs twice: at the end of main and when RuntimeFiles is dropped.
Leaving == {"cleaning", "unsocketed", "dropping", "dropped"}

Checking == {"started", "read", "stale", "probing", "connecting", "unserved", "free"}

Phases == {"new"} \cup Checking \cup Reserved \cup Leaving \cup {"refused", "failed", "gone", "dead"}

Over == {"refused", "failed", "gone", "dead"}

TypeOK ==
  /\ pidFile \in Procs \cup {NoProc}
  /\ written \subseteq Procs
  /\ sock \in Procs \cup {NoProc}
  /\ pc \in [Procs -> Phases]
  /\ seen \in [Procs -> written \cup {NoProc}]
  /\ stop \in [Stoppers -> {"idle", "unpinged", "quiet", "unsocketed", "over"}]
  /\ late \subseteq Procs
  /\ alone \subseteq Procs

Init ==
  /\ pidFile = NoProc
  /\ written = {}
  /\ sock = NoProc
  /\ pc = [p \in Procs |-> "new"]
  /\ seen = [p \in Procs |-> NoProc]
  /\ stop = [x \in Stoppers |-> "idle"]
  /\ late = {}
  /\ alone = {}

Running(p)   == pc[p] \notin {"new"} \cup Over
Listening(p) == pc[p] = "serving"

\* No daemon has crashed or begun to leave, and no `aicoach stop` has found the way clear.
Undisturbed ==
  /\ \A p \in Procs : pc[p] \notin Leaving \cup {"gone", "dead"}
  /\ \A x \in Stoppers : stop[x] \in {"idle", "unpinged"}

Goto(p, phase) == pc' = [pc EXCEPT ![p] = phase]
Step(p, from, to) == pc[p] = from /\ Goto(p, to)

-----------------------------------------------------------------------------
(* RuntimeFiles::acquire                                                   *)

Start(p) ==
  /\ Step(p, "new", "started")
  /\ late' = IF Undisturbed /\ \E q \in Procs : Listening(q) THEN late \cup {p} ELSE late
  /\ alone' = IF \E q \in Procs : Running(q) THEN {} ELSE {p}
  /\ UNCHANGED <<files, seen, stop>>

ReadAnyPid(p) ==
  /\ seen' = [seen EXCEPT ![p] = pidFile]
  /\ Step(p, "started", IF seen'[p] = NoProc THEN "probing" ELSE "read")
  /\ UNCHANGED <<files, stop, late, alone>>

\* An empty PID file reads as no number.
ReadPid(p) ==
  /\ seen' = [seen EXCEPT ![p] = IF pidFile \in written THEN pidFile ELSE NoProc]
  /\ Step(p, "started", IF seen'[p] = NoProc THEN "probing" ELSE "read")
  /\ UNCHANGED <<files, stop, late, alone>>

TakeForStale(p) ==
  /\ Step(p, "read", "stale")
  /\ UNCHANGED <<files, seen, stop, late, alone>>

\* /bin/ps on the number that was read.
CheckAlive(p) ==
  /\ Step(p, "read", IF Running(seen[p]) THEN "refused" ELSE "stale")
  /\ UNCHANGED <<files, seen, stop, late, alone>>

KeepStalePid(p) ==
  /\ Step(p, "stale", "probing")
  /\ UNCHANGED <<files, seen, stop, late, alone>>

\* Whatever file is at the path by now is removed.
RemoveStalePid(p) ==
  /\ Step(p, "stale", "probing")
  /\ pidFile' = NoProc
  /\ UNCHANGED <<written, sock, seen, stop, late, alone>>

SocketExists(p) ==
  /\ Step(p, "probing", IF sock = NoProc THEN "free" ELSE "connecting")
  /\ UNCHANGED <<files, seen, stop, late, alone>>

\* Nobody answers at an absent or dead socket, nor at one that does not listen yet.
ProbeSocket(p) ==
  /\ Step(p, "connecting", IF sock # NoProc /\ Listening(sock) THEN "refused" ELSE "unserved")
  /\ UNCHANGED <<files, seen, stop, late, alone>>

RemoveSocket(p) ==
  /\ Step(p, "unserved", "free")
  /\ sock' = NoProc
  /\ UNCHANGED <<pidFile, written, seen, stop, late, alone>>

CreateAnyPid(p) ==
  /\ Step(p, "free", "created")
  /\ pidFile' = p
  /\ UNCHANGED <<written, sock, seen, stop, late, alone>>

\* create_new: an existing file is an error, and nothing has been acquired yet.
CreatePid(p) ==
  /\ IF pidFile = NoProc
       THEN Step(p, "free", "created") /\ pidFile' = p
       ELSE Step(p, "free", "failed") /\ UNCHANGED pidFile
  /\ UNCHANGED <<written, sock, seen, stop, late, alone>>

WritePid(p) ==
  /\ Step(p, "created", "numbered")
  /\ written' = written \cup {p}
  /\ UNCHANGED <<pidFile, sock, seen, stop, late, alone>>

\* The mode is set by path: whatever file is there now, but there must be one.
SecurePid(p) ==
  /\ Step(p, "numbered", IF pidFile = NoProc THEN "failed" ELSE "acquired")
  /\ UNCHANGED <<files, seen, stop, late, alone>>

-----------------------------------------------------------------------------
(* Serving and leaving                                                     *)

QuitMisconfigured(p) ==
  /\ Step(p, "acquired", "failed")
  /\ UNCHANGED <<files, seen, stop, late, alone>>

\* An invalid privacy pattern ends main before it serves; only the drop cleans up.
Misconfigured(p) ==
  /\ Step(p, "acquired", "dropping")
  /\ UNCHANGED <<files, seen, stop, late, alone>>

\* bind(2) fails on an existing path.
Bind(p) ==
  /\ IF sock = NoProc
       THEN Step(p, "acquired", "bound") /\ sock' = p
       ELSE Step(p, "acquired", "cleaning") /\ UNCHANGED sock
  /\ UNCHANGED <<pidFile, written, seen, stop, late, alone>>

\* listen(2), then the mode is set on whatever socket is at the path, which must exist.
Listen(p) ==
  /\ Step(p, "bound", IF sock = NoProc THEN "cleaning" ELSE "serving")
  /\ UNCHANGED <<files, seen, stop, late, alone>>

\* A signal, a Shutdown request or an error of accept.
Shutdown(p) ==
  /\ Step(p, "serving", "cleaning")
  /\ UNCHANGED <<files, seen, stop, late, alone>>

CleanSocket(p) ==
  /\ Step(p, "cleaning", "unsocketed") \/ Step(p, "dropping", "dropped")
  /\ sock' = NoProc
  /\ UNCHANGED <<pidFile, written, seen, stop, late, alone>>

CleanPid(p) ==
  /\ Step(p, "unsocketed", "dropping") \/ Step(p, "dropped", "gone")
  /\ pidFile' = NoProc
  /\ UNCHANGED <<written, sock, seen, stop, late, alone>>

\* The process is killed: its files stay behind.
Crash(p) ==
  /\ Running(p)
  /\ Goto(p, "dead")
  /\ UNCHANGED <<files, seen, stop, late, alone>>

-----------------------------------------------------------------------------
(* `aicoach stop`, after it has asked the daemon to leave                  *)

StepStop(x, from, to) == stop[x] = from /\ stop' = [stop EXCEPT ![x] = to]

\* is_daemon_running looks at the PID file, then pings the socket; up to twenty times.
StopChecksPid(x) ==
  /\ StepStop(x, "idle", IF pidFile \in written /\ Running(pidFile) THEN "idle" ELSE "unpinged")
  /\ UNCHANGED <<files, pc, seen, late, alone>>

StopPings(x) ==
  /\ StepStop(x, "unpinged", IF sock # NoProc /\ Listening(sock) THEN "idle" ELSE "quiet")
  /\ alone' = IF stop'[x] = "quiet" THEN {} ELSE alone
  /\ UNCHANGED <<files, pc, seen, late>>

StopRemovesSocket(x) ==
  /\ StepStop(x, "quiet", "unsocketed")
  /\ sock' = NoProc
  /\ alone' = {}
  /\ UNCHANGED <<pidFile, written, pc, seen, late>>

StopRemovesPid(x) ==
  /\ StepStop(x, "unsocketed", "over")
  /\ pidFile' = NoProc
  /\ alone' = {}
  /\ UNCHANGED <<written, sock, pc, seen, late>>

-----------------------------------------------------------------------------

Acquire(p) ==
  \/ Start(p) \/ ReadPid(p) \/ CheckAlive(p) \/ RemoveStalePid(p)
  \/ SocketExists(p) \/ ProbeSocket(p) \/ RemoveSocket(p)
  \/ CreatePid(p) \/ WritePid(p) \/ SecurePid(p)

Serve(p) ==
  \/ Misconfigured(p) \/ Bind(p) \/ Listen(p) \/ Shutdown(p)
  \/ CleanSocket(p) \/ CleanPid(p)

Next ==
  \/ \E p \in Procs : Acquire(p) \/ Serve(p) \/ Crash(p)
  \/ \E x \in Stoppers :
       StopChecksPid(x) \/ StopPings(x) \/ StopRemovesSocket(x) \/ StopRemovesPid(x)

Spec == Init /\ [][Next]_vars

-----------------------------------------------------------------------------
(* Properties                                                              *)

\* As long as no daemon has left or crashed, the PID file belongs to the one process that
\* reserved it, so at most one of any number of daemons starting together serves.
ReservationIsExclusive ==
  Undisturbed => \A p \in Procs : pc[p] \in Reserved => pidFile = p

\* A daemon started while another serves gives way before it touches a file, even if a
\* third one is half-way through its own start.
LateStartIsHarmless ==
  Undisturbed => \A p \in late : pc[p] \in {"started", "read", "refused"}

\* Once nothing runs and nothing has crashed, no file is left, whoever failed to bind,
\* lost its files to another or was stopped.
NothingIsLeftBehind ==
  (\A p \in Procs : pc[p] \in {"new", "refused", "failed", "gone"}) =>
    pidFile = NoProc /\ sock = NoProc

\* A PID file whose process was killed between CreatePid and WritePid: acquire reads no
\* number from it, so never removes it, and create_new fails on it.
DeadAndEmpty(q) == q # NoProc /\ pc[q] = "dead" /\ q \notin written

\* Of all that daemons killed anywhere leave behind, one thing alone keeps a daemon that
\* starts with nothing else running from serving: an empty PID file of one killed before
\* it wrote its number.  Every other remainder is told from a live daemon and removed.
OnlyEmptyPidFileBlocks ==
  \A p \in alone : pc[p] \in {"refused", "failed"} => DeadAndEmpty(pidFile)

\* Whoever fails, leaves, is stopped or killed, wherever it stands: once nothing runs and
\* nothing has crashed no file is left, and of all that the killed leave behind nothing
\* keeps a lone start from serving but the empty PID file of one killed before it wrote its
\* number.
RemaindersAreRemoved == NothingIsLeftBehind /\ OnlyEmptyPidFileBlocks

\* (Not so: no crash keeps a later daemon from starting.)
LoneStartsSucceed == \A p \in alone : pc[p] \notin {"refused", "failed"}

\* Two daemons never serve at the same time ("Returns AlreadyRunning for a live daemon").
OneDaemonServes ==
  \A p, q \in Procs : Listening(p) /\ Listening(q) => p = q
=============================================================================

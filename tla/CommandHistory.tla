--------------------------- MODULE CommandHistory ---------------------------
(* What the daemon retains of one terminal session: the commands in flight, *)
(* the bounded context, the baseline of the latest success, the checkpoint  *)
(* and the markers of erased commands (crates/aicoach-daemon/src/state.rs), *)
(* fed by the frames of the shell plug-in and read by the CLI's capsule.    *)
(*                                                                          *)
(* The shell runs one command at a time.  Its frames wait in the socket     *)
(* until its connection's task takes them, a frame may be lost with the     *)
(* connection, and the CLI's requests come over connections of their own.   *)
(* A text is its length; a command's identifier stands for its line.        *)
EXTENDS Naturals, FiniteSets, SequencesExt

CONSTANTS Commands,        \* identifiers the plug-in draws, one per command
          Controls,        \* those of commands that run the CLI on this session
          MaxRequests,     \* bound: requests of the CLI in a behaviour
          MaxWaiting,      \* bound: frames waiting in the socket
          MaxCommands,     \* SessionLimits.max_commands
          MaxOutput,       \* SessionLimits.max_output_per_command
          MaxChars,        \* SessionLimits.max_total_chars
          CommandChars, CwdChars,   \* length of a command line, of a directory
          Finishes,        \* finish frames: [line, out, err], whether the command
                           \* line is repeated and what output there is
          Tails,           \* lengths of a screen tail, None when capture fails
          None             \* no value (Option::None)

Identifier == Commands \cup {None}
Checkpoint == [start : Identifier, after : Identifier, resolved : BOOLEAN,
               resolution : Identifier, before : Identifier]

ASSUME HistoryAssumption ==
  /\ MaxRequests \in Nat /\ MaxWaiting \in Nat
  /\ MaxCommands \in Nat \ {0} /\ MaxOutput \in Nat /\ MaxChars \in Nat
  /\ CommandChars \in Nat /\ CwdChars \in 0..MaxChars
  /\ Finishes \subseteq [line : BOOLEAN, out : Nat \cup {None}, err : Nat \cup {None}]
  /\ Tails \subseteq Nat \cup {None}
  /\ Controls \subseteq Commands
  /\ None \notin Commands \cup Nat \cup Checkpoint

VARIABLES
  running,     \* the command at the prompt, or None
  asked,       \* has the CLI it runs sent its request?
  requests,    \* how many requests the CLI has sent
  drawn,       \* the identifiers used so far; none is drawn twice
  inbox,       \* frames of the shell not yet taken by its connection's task
  started,     \* Session::started
  discarded,   \* Session::discarded_commands
  records,     \* Session::commands
  success,     \* Session::last_success: None or [id, git]
  checkpoint,  \* Session::checkpoint: None or a record
  probes,      \* Git probes of successful commands under way
  jobs,        \* analyses of failed commands: [id, stage, stale], stale once
               \* an erasure removed the records its context is a copy of
  since,       \* the commands recorded since the checkpoint was started
  until,       \* how many of them when it was last resolved, or None
  apart,       \* did the daemon see the checkpoint's request out of order?
  dropped,     \* commands an erasure found in flight and marked
  leaked       \* has a provider request been begun with erased context?
prompt  == <<running, asked, requests, drawn>>
history == <<started, discarded, records, success, checkpoint>>
marks   == <<since, until, apart>>
ghosts  == <<since, until, apart, dropped, leaked>>
vars == <<running, asked, requests, drawn, inbox, started, discarded, records, success,
          checkpoint, probes, jobs, since, until, apart, dropped, leaked>>

Lesser(a, b)  == IF a <= b THEN a ELSE b
Minus(a, b)   == IF a > b THEN a - b ELSE 0
LengthOf(t)   == IF t = None THEN 0 ELSE t
Ids(seq)      == {seq[i].id : i \in DOMAIN seq}

TruncateTail(t, limit) == IF t = None THEN None ELSE Lesser(t, limit)

\* The command's line first, then stderr, then stdout share what cwd leaves.
BoundRecord(r) ==
  LET cmd == Lesser(r.cmd, Minus(MaxChars, CwdChars))
      rest == Minus(MaxChars, CwdChars + cmd)
      err == TruncateTail(r.err, rest)
  IN [r EXCEPT !.cmd = cmd, !.err = err,
               !.out = TruncateTail(@, Minus(rest, LengthOf(err)))]

RecordChars(r) == r.cmd + CwdChars + LengthOf(r.out) + LengthOf(r.err)
TotalChars(seq) == FoldSeq(LAMBDA r, n : RecordChars(r) + n, 0, seq)

\* The longest suffix within both limits: the oldest records go first.
TrimContext(seq) ==
  LET Fits(n) == /\ Len(seq) - n <= MaxCommands
                 /\ TotalChars(SubSeq(seq, n + 1, Len(seq))) <= MaxChars
  IN SubSeq(seq, (CHOOSE n \in 0..Len(seq) :
                    Fits(n) /\ \A m \in 0..n - 1 : ~Fits(m)) + 1, Len(seq))

LastId(seq) == IF seq = <<>> THEN None ELSE Last(seq).id
SoleStarted == IF Cardinality(started) = 1 THEN CHOOSE c \in started : TRUE
                                           ELSE None

Init ==
  /\ running = None /\ asked = FALSE /\ requests = 0 /\ drawn = {} /\ inbox = <<>>
  /\ started = {} /\ discarded = {} /\ records = <<>>
  /\ success = None /\ checkpoint = None /\ probes = {} /\ jobs = {}
  /\ since = <<>> /\ until = None /\ apart = FALSE
  /\ dropped = {} /\ leaked = FALSE

---------------------------------------------------------------------------
(* The shell plug-in and its connection *)

\* preexec and precmd write a frame each; a write or the connection may fail.
Deliver(frame) ==
  \/ Len(inbox) < MaxWaiting /\ inbox' = Append(inbox, frame)
  \/ UNCHANGED inbox

Preexec ==
  /\ running = None
  /\ \E c \in Commands \ drawn :
       /\ running' = c /\ drawn' = drawn \cup {c}
       /\ Deliver([kind |-> "started", id |-> c])
  /\ asked' = FALSE
  /\ UNCHANGED <<requests, history, probes, jobs, ghosts>>

\* A control command has its answer (or gave up) before it exits.
Precmd ==
  /\ running # None /\ (running \in Controls => asked)
  /\ \E code \in {0, 1}, f \in Finishes :
       Deliver([kind |-> "finished", id |-> running, code |-> code, frame |-> f])
  /\ running' = None /\ asked' = FALSE
  /\ UNCHANGED <<requests, drawn, history, probes, jobs, ghosts>>

---------------------------------------------------------------------------
(* The daemon takes the shell's frames in their order *)

StartCommand ==
  /\ inbox # <<>> /\ Head(inbox).kind = "started"
  /\ started' = started \cup {Head(inbox).id}
  /\ inbox' = Tail(inbox)
  /\ UNCHANGED <<prompt, discarded, records, success, checkpoint, probes, jobs, ghosts>>

\* A finish of an erased command only removes its marker.
FinishDiscarded ==
  /\ inbox # <<>> /\ Head(inbox).kind = "finished"
  /\ Head(inbox).id \in discarded
  /\ discarded' = discarded \ {Head(inbox).id}
  /\ inbox' = Tail(inbox)
  /\ UNCHANGED <<prompt, started, records, success, checkpoint, probes, jobs, ghosts>>

\* The plug-in's finish frame has no command line (a JSON shell's may): without
\* its start frame there is nothing to record (command_not_found).
FinishUnknown ==
  /\ inbox # <<>> /\ Head(inbox).kind = "finished" /\ ~Head(inbox).frame.line
  /\ Head(inbox).id \notin discarded \cup started
  /\ inbox' = Tail(inbox)
  /\ UNCHANGED <<prompt, history, probes, jobs, ghosts>>

\* stderr is cut first, stdout to what stderr leaves.
StdoutBudget(err) == Minus(MaxOutput, LengthOf(err))

FinishCommand ==
  LET c == Head(inbox).id
      frame == Head(inbox).frame
      boundErr == TruncateTail(frame.err, MaxOutput)
      boundOut == TruncateTail(frame.out, StdoutBudget(boundErr))
      record == [id |-> c, cmd |-> Lesser(CommandChars, MaxOutput),
                 out |-> boundOut, err |-> boundErr, tail |-> None]
  IN /\ inbox # <<>> /\ Head(inbox).kind = "finished"
     /\ c \notin discarded /\ (c \in started \/ frame.line)
     /\ started' = started \ {c} /\ inbox' = Tail(inbox)
     /\ records' = TrimContext(Append(records, BoundRecord(record)))
     /\ since' = IF checkpoint = None THEN since ELSE Append(since, c)
     /\ IF Head(inbox).code = 0
        THEN /\ success' = [id |-> c, git |-> None]
             /\ probes' = probes \cup {c} /\ UNCHANGED jobs
        ELSE /\ jobs' = jobs \cup
                  {[id |-> c, stale |-> FALSE,
                    stage |-> IF LengthOf(boundOut) + LengthOf(boundErr) = 0
                              THEN "capture" ELSE "probe"]}
             /\ UNCHANGED <<success, probes>>
     /\ UNCHANGED <<prompt, discarded, checkpoint, until, apart, dropped, leaked>>

---------------------------------------------------------------------------
(* Tasks the finish of a command leaves behind *)

\* A stale probe never describes a newer success.
\* Mutant: whichever success is the latest.
DescribesLatest(c) == success # None
Describes(c) == success # None /\ success.id = c
RecordSuccessGit(c) ==
  /\ c \in probes /\ probes' = probes \ {c}
  /\ success' = IF Describes(c) THEN [success EXCEPT !.git = c] ELSE success
  /\ UNCHANGED <<prompt, inbox, started, discarded, records, checkpoint, jobs, ghosts>>

\* The tail of the screen becomes the stderr of a record without output.
WithTail(r, owner, tail) ==
  BoundRecord([r EXCEPT !.err = TruncateTail(tail, MaxOutput), !.tail = owner])
\* Mutant: the context is not trimmed again.
AttachUntrimmed(i, owner, tail) ==
  [records EXCEPT ![i] = WithTail(@, owner, tail)]
Attach(i, owner, tail) ==
  TrimContext([records EXCEPT ![i] = WithTail(@, owner, tail)])
RecordScreenTail(j, tail) ==
  LET at == {i \in DOMAIN records : records[i].id = j.id} IN
  /\ j \in jobs /\ j.stage = "capture"
  /\ jobs' = (jobs \ {j}) \cup {[j EXCEPT !.stage = "probe"]}
  /\ records' = IF tail = None \/ at = {} THEN records
                ELSE LET i == CHOOSE k \in at : \A n \in at : n <= k IN
                     IF LengthOf(records[i].out) + LengthOf(records[i].err) > 0
                     THEN records
                     ELSE Attach(i, j.id, tail)
  /\ UNCHANGED <<prompt, inbox, started, discarded, success, checkpoint, probes, ghosts>>

\* After its Git probe the job asks the provider (or finds it need not), with
\* the context it copied when the command finished.
Analyze(j) ==
  /\ j \in jobs /\ j.stage = "probe" /\ jobs' = jobs \ {j}
  /\ leaked' \in {leaked, leaked \/ j.stale}
  /\ UNCHANGED <<prompt, inbox, history, probes, marks, dropped>>

---------------------------------------------------------------------------
(* Requests of the CLI, from the command at the prompt or another terminal *)

Asks ==
  /\ requests < MaxRequests /\ requests' = requests + 1
  /\ \/ running \in Controls /\ ~asked /\ asked' = TRUE
     \/ UNCHANGED asked

\* The request was answered before frames the shell had already written, or
\* came from another terminal: the command in flight is not the one asking.
OutOfOrder == inbox # <<>> \/ asked' = asked

StartCheckpoint ==
  /\ Asks
  /\ checkpoint' = [start |-> SoleStarted, after |-> LastId(records),
                    resolved |-> FALSE, resolution |-> None, before |-> None]
  /\ since' = <<>> /\ until' = None /\ apart' = OutOfOrder
  /\ UNCHANGED <<running, drawn, inbox, started, discarded, records, success, probes, jobs,
                 dropped, leaked>>

\* A checkpoint may be resolved again: the latest resolution counts.
ResolveCheckpoint ==
  /\ Asks /\ checkpoint # None
  /\ checkpoint' = [checkpoint EXCEPT !.resolved = TRUE,
                      !.resolution = SoleStarted, !.before = LastId(records)]
  /\ until' = Len(since) /\ apart' = (apart \/ OutOfOrder)
  /\ UNCHANGED <<running, drawn, inbox, started, discarded, records, success, probes, jobs,
                 since, dropped, leaked>>

ClearCheckpoint ==
  /\ Asks /\ checkpoint # None /\ checkpoint' = None
  /\ since' = <<>> /\ until' = None /\ apart' = FALSE
  /\ UNCHANGED <<running, drawn, inbox, started, discarded, records, success, probes, jobs,
                 dropped, leaked>>

\* clear_transient_session_data; `discardInFlight` is the request's
\* exclude_active_command.
\* Mutant: the commands in flight leave no marker.
MarkersForgotten(discardInFlight) == discarded
Markers(discardInFlight) ==
  IF discardInFlight THEN discarded \cup started ELSE discarded
ClearSessionData(discardInFlight) ==
  /\ Asks
  /\ discarded' = Markers(discardInFlight)
  /\ started' = {} /\ records' = <<>> /\ checkpoint' = None /\ success' = None
  /\ since' = <<>> /\ until' = None /\ apart' = FALSE
  /\ jobs' = {[j EXCEPT !.stale = TRUE] : j \in jobs}
  /\ dropped' = IF discardInFlight THEN dropped \cup started ELSE dropped
  /\ UNCHANGED <<running, drawn, inbox, probes, leaked>>

CheckpointRequest == StartCheckpoint \/ ResolveCheckpoint \/ ClearCheckpoint
DataRequest == \E discardInFlight \in BOOLEAN : ClearSessionData(discardInFlight)

\* Commands the plug-in reports and the frames it writes for them.
ShellSteps == Preexec \/ Precmd
FrameSteps == StartCommand \/ FinishDiscarded \/ FinishUnknown \/ FinishCommand

Next ==
  \/ ShellSteps \/ FrameSteps
  \/ \E c \in Commands : RecordSuccessGit(c)
  \/ \E j \in jobs, tail \in Tails : RecordScreenTail(j, tail)
  \/ \E j \in jobs : Analyze(j)
  \/ CheckpointRequest \/ DataRequest

Spec == Init /\ [][Next]_vars

---------------------------------------------------------------------------
(* The capsule the CLI exports of the last n commands *)

\* The place of a boundary in the exported commands, 0 when it is not there.
PlaceOf(c, seq) == IF c \in Ids(seq) THEN CHOOSE i \in DOMAIN seq : seq[i].id = c
                                     ELSE 0
Context(n) == SubSeq(records, Minus(Len(records), n) + 1, Len(records))
SpanStart(seq) ==
  IF checkpoint = None THEN 0
  ELSE IF PlaceOf(checkpoint.start, seq) > 0 THEN PlaceOf(checkpoint.start, seq)
  ELSE PlaceOf(checkpoint.after, seq)
\* Mutant: a boundary that is not exported ends nothing.
SpanEndOrAll(seq) ==
  IF checkpoint = None \/ ~checkpoint.resolved \/ PlaceOf(checkpoint.before, seq) = 0
  THEN Len(seq) ELSE PlaceOf(checkpoint.before, seq)
SpanEnd(seq) ==
  IF checkpoint = None \/ ~checkpoint.resolved THEN Len(seq)
  ELSE IF PlaceOf(checkpoint.resolution, seq) > 0
       THEN PlaceOf(checkpoint.resolution, seq) - 1
       ELSE PlaceOf(checkpoint.before, seq)
Capsule(n) == SubSeq(Context(n), SpanStart(Context(n)) + 1, SpanEnd(Context(n)))

---------------------------------------------------------------------------
(* Properties *)

\* Identifiers, flags and lengths are what the daemon's types say; outputs
\* never exceed the limit of one command.
TypeOK ==
  /\ running \in Commands \cup {None} /\ asked \in BOOLEAN
  /\ started \subseteq Commands /\ discarded \subseteq Commands
  /\ \A i \in DOMAIN records :
       /\ records[i].id \in Commands /\ records[i].tail \in Commands \cup {None}
       /\ LengthOf(records[i].out) + LengthOf(records[i].err) \in 0..MaxOutput
  /\ success # None => success.id \in Commands
  /\ probes \subseteq Commands /\ \A j \in jobs : j.stage \in {"capture", "probe"}

\* However outputs, screen tails and finishes interleave, the context never
\* outgrows its two limits, and the command recorded last is always in it.
ContextIsBounded ==
  /\ Len(records) <= MaxCommands /\ TotalChars(records) <= MaxChars
  /\ since # <<>> => LastId(records) = Last(since)

\* A command that was in flight when its session's data was erased is never
\* recorded by a finish frame that arrives late.
ErasedStaysErased == dropped \cap Ids(records) = {}

\* Of a session no more is retained than its limits allow, and nothing that was in flight
\* when its data was erased.
OnlyWhatMayBeIsRetained == TypeOK /\ ContextIsBounded /\ ErasedStaysErased

\* A Git probe and a screen tail describe the command they were taken for,
\* whatever finished or was erased while they ran.
ProbesDescribeTheirCommand ==
  /\ success # None => success.git \in {None, success.id}
  /\ \A i \in DOMAIN records : records[i].tail \in {None, records[i].id}

\* The capsule of a checkpoint shows exactly the retained commands that were
\* recorded between its start and its last resolution, each once, however much
\* of them was trimmed and however few are exported; the commands that ran the
\* CLI are set aside.  It is asked from the session's own prompt, with its frames
\* taken in order.
CapsuleIsTheSpan ==
  checkpoint # None /\ ~apart =>
    LET inSpan == {since[i] : i \in 1..(IF until = None THEN Len(since) ELSE until)}
    IN \A n \in 1..MaxCommands :
         /\ Ids(Capsule(n)) \ Controls = (Ids(Context(n)) \cap inSpan) \ Controls
         /\ \A i, j \in DOMAIN Capsule(n) : Capsule(n)[i].id = Capsule(n)[j].id => i = j

\* Data erased from a session leaves with no provider request begun later.
\* An analysis that waits for a screen capture or a Git probe has no entry
\* among the active requests, and the context it copied survives the erasure.
ErasedIsNotAnalyzed == ~leaked
=============================================================================

------------------------------- MODULE IpcClient -------------------------------
(***************************************************************************)
(* The Rust client of the daemon's socket (crates/aicoach-ipc client.rs,   *)
(* transport.rs), as the command line and the Coach window use it: calls   *)
(* enter a table of pending answers, write one frame at a time under a     *)
(* lock, and wait; one reader task hands each response to the call of its  *)
(* id.  Frames come in pieces.  A call may give up waiting, the daemon may *)
(* answer late or never, send what the client does not understand, stop    *)
(* reading, or go away at any step.  Events are left to CoachWindow.       *)
(***************************************************************************)
EXTENDS Naturals, FiniteSets, SequencesExt

CONSTANTS Calls,     \* calls made
          Patient,   \* those of them made without a time limit (send)
          MaxFrame,  \* units of a frame the reader accepts (4 MiB in the code)
          Room,      \* bound: frames the socket holds for the daemon
          MaxNoise   \* bound: frames of the daemon that are no response

ASSUME IpcClientAssumption ==
  /\ Patient \subseteq Calls
  /\ MaxFrame \in Nat \ {0} /\ Room \in Nat \ {0} /\ MaxNoise \in Nat

VARIABLES call,    \* per call: where it is and what its channel holds
          pending, \* the table of calls awaiting a response
          writer,  \* the call that holds the writer
          client,  \* closed flag, reader task, handles and the end of the socket
          part,    \* units of the first frame in `inbox` read so far
          inbox,   \* frames on their way to the client
          outbox   \* requests on their way to the daemon

vars == <<call, pending, writer, client, part, inbox, outbox>>

Nobody == "nobody"
Sizes == {1, MaxFrame, MaxFrame + 1}

Phases == {"unmade", "checked", "inserted", "writing", "waiting", "failed", "late", "over"}
FrameKinds == {"response", "event", "empty", "request", "garbage"}

FrameType == [kind : FrameKinds, of : Calls \cup {Nobody}, size : Nat]

CallType(c) ==
  [at : Phases, got : {"none", "dropped", c},
   result : {"none", "closed", "error", "timeout", c}]

TypeOK ==
  /\ DOMAIN call = Calls /\ \A c \in Calls : call[c] \in CallType(c)
  /\ pending \subseteq Calls /\ writer \in Calls \cup {Nobody}
  /\ part \in Nat
  /\ inbox \in Seq(FrameType)
  /\ outbox \in Seq(Calls)

Init ==
  /\ call = [c \in Calls |-> [at |-> "unmade", got |-> "none", result |-> "none"]]
  /\ pending = {} /\ writer = Nobody /\ part = 0 /\ inbox = <<>> /\ outbox = <<>>
  /\ client = [closed |-> FALSE, reader |-> "reading", handle |-> "open", up |-> TRUE,
               noise |-> 0]

At(c, phase) == call[c].at = phase
Goes(c, phase) == call' = [call EXCEPT ![c].at = phase]
Ends(c, result) == call' = [call EXCEPT ![c].at = "over", ![c].result = result]

\* Whoever waits at a channel whose sender is gone learns it.
Dropped(calls, cs) ==
  [c \in Calls |-> IF c \in cs /\ calls[c].got = "none" THEN [calls[c] EXCEPT !.got = "dropped"]
                   ELSE calls[c]]

-----------------------------------------------------------------------------
(* A call: dispatch, send and send_timeout.                                  *)

Begin(c) ==
  /\ At(c, "unmade") /\ client.handle = "open"
  /\ IF client.closed THEN Ends(c, "closed") ELSE Goes(c, "checked")
  /\ UNCHANGED <<pending, writer, client, part, inbox, outbox>>

\* The flag may have changed, and the table been cleared, since it was looked at.
Insert(c) ==
  /\ At(c, "checked") /\ Goes(c, "inserted") /\ pending' = pending \cup {c}
  /\ UNCHANGED <<writer, client, part, inbox, outbox>>

LockWriter(c) ==
  /\ At(c, "inserted") /\ writer = Nobody
  /\ writer' = c /\ Goes(c, "writing")
  /\ UNCHANGED <<pending, client, part, inbox, outbox>>

\* Waits for room in the socket; a socket whose other end is gone is an error (a
\* request is never too long).
Write(c) ==
  /\ At(c, "writing") /\ writer' = Nobody
  /\ IF client.up
     THEN Len(outbox) < Room /\ outbox' = Append(outbox, c) /\ Goes(c, "waiting")
     ELSE Goes(c, "failed") /\ UNCHANGED outbox
  /\ UNCHANGED <<pending, client, part, inbox>>

Fail(c) ==
  /\ At(c, "failed") /\ Ends(c, "error") /\ pending' = pending \ {c}
  /\ UNCHANGED <<writer, client, part, inbox, outbox>>

Answered(c) ==
  /\ At(c, "waiting") /\ call[c].got # "none"
  /\ Ends(c, IF call[c].got = "dropped" THEN "closed" ELSE call[c].got)
  /\ UNCHANGED <<pending, writer, client, part, inbox, outbox>>

\* Elapsed: the receiver is gone, the entry still there.
TimeOut(c) ==
  /\ At(c, "waiting") /\ c \notin Patient /\ call[c].got = "none" /\ Goes(c, "late")
  /\ UNCHANGED <<pending, writer, client, part, inbox, outbox>>

Withdraw(c) ==
  /\ At(c, "late") /\ Ends(c, "timeout") /\ pending' = pending \ {c}
  /\ UNCHANGED <<writer, client, part, inbox, outbox>>

-----------------------------------------------------------------------------
(* The reader task: NdjsonReader::recv and read_loop.                        *)

\* What recv would hold of a frame after this piece.
TooLong(size, read, ends) == (IF ends THEN size ELSE read) > MaxFrame

\* Mutant: responses answer the calls as they wait.
HandleInTurn(frame) ==
  IF frame.kind = "response" /\ pending # {}
  THEN \E c \in pending :
         /\ pending' = pending \ {c}
         /\ call' = [call EXCEPT ![c].got = frame.of]
         /\ UNCHANGED client
  ELSE UNCHANGED <<pending, call, client>>

\* A response goes to the call of its id, if that is still pending; an event goes
\* to the subscribers; an empty line is skipped; anything else ends the loop.
Handle(frame) ==
  CASE frame.kind = "response" /\ frame.of \in pending ->
         /\ pending' = pending \ {frame.of}
         /\ call' = [call EXCEPT ![frame.of].got = IF At(frame.of, "late") THEN @ ELSE frame.of]
         /\ UNCHANGED client
    [] frame.kind \in {"response", "event", "empty"} /\ frame.of \notin pending ->
         UNCHANGED <<pending, call, client>>
    [] OTHER -> client' = [client EXCEPT !.reader = "ended"] /\ UNCHANGED <<pending, call>>

\* A piece of a frame, up to the newline or not.
Read ==
  /\ client.reader = "reading" /\ inbox # <<>>
  /\ \E n \in part + 1..Head(inbox).size + 1 :
       LET ends == n = Head(inbox).size + 1
       IN  /\ n \in {part + 1, MaxFrame, Head(inbox).size, Head(inbox).size + 1}
           /\ IF TooLong(Head(inbox).size, n, ends)
              THEN /\ client' = [client EXCEPT !.reader = "ended"]
                   /\ UNCHANGED <<call, pending, part, inbox>>
              ELSE IF ends THEN Handle(Head(inbox)) /\ part' = 0 /\ inbox' = Tail(inbox)
              ELSE part' = n /\ UNCHANGED <<call, pending, client, inbox>>
  /\ UNCHANGED <<writer, outbox>>

\* End of file, also in a frame: what is left of it does not decode.
ReadEnd ==
  /\ client.reader = "reading" /\ ~client.up /\ inbox = <<>>
  /\ client' = [client EXCEPT !.reader = "ended"]
  /\ UNCHANGED <<call, pending, writer, part, inbox, outbox>>

SetClosed ==
  /\ client.reader = "ended"
  /\ client' = [client EXCEPT !.closed = TRUE, !.reader = "clearing"]
  /\ UNCHANGED <<call, pending, writer, part, inbox, outbox>>

\* Mutant: the reader leaves its pending calls where they are.
LeavePending ==
  /\ client.reader = "clearing"
  /\ client' = [client EXCEPT !.reader = "gone"]
  /\ UNCHANGED <<call, pending, writer, part, inbox, outbox>>

ClearPending ==
  /\ client.reader = "clearing"
  /\ call' = Dropped(call, pending) /\ pending' = {}
  /\ client' = [client EXCEPT !.reader = "gone"]
  /\ UNCHANGED <<writer, part, inbox, outbox>>

-----------------------------------------------------------------------------
(* The end of the client.                                                    *)

Idle == \A c \in Calls : call[c].at \in {"unmade", "over"}

\* close, by the handle's owner between calls: the flag is set by whoever is first.
BeginClose ==
  /\ client.handle = "open" /\ Idle
  /\ client' = [client EXCEPT !.closed = TRUE,
                              !.handle = IF client.closed THEN "aborting" ELSE "shutting"]
  /\ UNCHANGED <<call, pending, writer, part, inbox, outbox>>

ShutWriter ==
  /\ client.handle = "shutting" /\ writer = Nobody
  /\ client' = [client EXCEPT !.handle = "aborting"]
  /\ call' = Dropped(call, pending) /\ pending' = {}
  /\ UNCHANGED <<writer, part, inbox, outbox>>

\* Drop of the last handle: only the reader task holds the client beside it.
DropHandle ==
  /\ client.handle = "open" /\ Idle
  /\ client' = [client EXCEPT !.handle = "shut", !.reader = "gone"]
  /\ UNCHANGED <<call, pending, writer, part, inbox, outbox>>

AbortReader ==
  /\ client.handle = "aborting"
  /\ client' = [client EXCEPT !.handle = "shut", !.reader = "gone"]
  /\ UNCHANGED <<call, pending, writer, part, inbox, outbox>>

-----------------------------------------------------------------------------
(* The daemon's side of the socket.                                          *)

Frame(kind, c, size) == [kind |-> kind, of |-> c, size |-> size]

\* An answer to any request it has read, whenever it likes; responses are short.
Serve(i) ==
  /\ client.up /\ i \in DOMAIN outbox
  /\ outbox' = RemoveAt(outbox, i)
  /\ \E size \in {1, MaxFrame} : inbox' = Append(inbox, Frame("response", outbox[i], size))
  /\ UNCHANGED <<call, pending, writer, client, part>>

Noise ==
  /\ client.up /\ client.noise < MaxNoise
  /\ client' = [client EXCEPT !.noise = @ + 1]
  /\ \E kind \in {"event", "empty", "request", "garbage"}, size \in Sizes :
       inbox' = Append(inbox, Frame(kind, Nobody, size))
  /\ UNCHANGED <<call, pending, writer, part, outbox>>

HangUp ==
  /\ client.up
  /\ client' = [client EXCEPT !.up = FALSE] /\ outbox' = <<>>
  /\ UNCHANGED <<call, pending, writer, part, inbox>>

Next ==
  \/ \E c \in Calls :
       Begin(c) \/ Insert(c) \/ LockWriter(c) \/ Write(c) \/ Fail(c) \/ Answered(c)
         \/ TimeOut(c) \/ Withdraw(c)
  \/ Read \/ ReadEnd \/ SetClosed \/ ClearPending
  \/ BeginClose \/ ShutWriter \/ DropHandle \/ AbortReader
  \/ \E i \in DOMAIN outbox : Serve(i)
  \/ Noise \/ HangUp

Spec == Init /\ [][Next]_vars

\* Tasks run; a time limit passes; a write ends once there is room or the socket
\* is broken.  Nothing is assumed of the daemon.
Fairness ==
  /\ \A c \in Calls :
       /\ WF_vars(Insert(c)) /\ SF_vars(LockWriter(c)) /\ SF_vars(Write(c)) /\ WF_vars(Fail(c))
       /\ WF_vars(Answered(c)) /\ WF_vars(TimeOut(c)) /\ WF_vars(Withdraw(c))
  /\ WF_vars(Read) /\ WF_vars(ReadEnd) /\ WF_vars(SetClosed) /\ WF_vars(ClearPending)
  /\ WF_vars(ShutWriter) /\ WF_vars(AbortReader)

FairSpec == Spec /\ Fairness

-----------------------------------------------------------------------------
\* A call that is over is answered with its own response or not at all, however
\* late, early or out of turn the responses come, and has no entry that a later
\* response could find.  What is read of a frame never exceeds the limit.
CallsAreKeptApart ==
  /\ \A c \in Calls :
       /\ At(c, "over") => c \notin pending
       /\ call[c].result \in {"none", "closed", "error", "timeout", c}
  /\ part <= MaxFrame

\* As long as the daemon keeps making room for what is written, every call with a
\* time limit returns, whatever else the daemon does, and one without returns once
\* the connection is lost, unless it entered the table after that was cleared.
CallsReturn ==
  []<>(~client.up \/ Len(outbox) < Room) =>
    /\ \A c \in Calls \ Patient : At(c, "checked") ~> At(c, "over")
    /\ \A c \in Patient : (At(c, "waiting") /\ ~client.up /\ client.reader = "reading")
                            ~> At(c, "over")
=============================================================================

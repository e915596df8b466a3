--------------------------- MODULE EventDelivery ---------------------------
(***************************************************************************)
(* How answers and session events reach the clients of one session, and    *)
(* how the daemon stops.  Every connection has a task that dispatches its   *)
(* frames one after the other, a bounded queue of outgoing messages and a   *)
(* task that writes them to the socket.  Dispatching a frame awaits room in *)
(* the queue of every client it tells: its own, the owning shell's and      *)
(* those of the windows that observe the session.                           *)
(*                                                                         *)
(* Messages are not told apart, a queue is its length.  What a client does  *)
(* with its socket is external: it reads, it stops reading, it goes away.   *)
(***************************************************************************)
EXTENDS Sequences, SequencesExt, FiniteSets, Naturals

CONSTANTS
  Shell,       \* the connection of the shell that owns the session
  Windows,     \* connections subscribed to the session
  Capacity,    \* OUTBOUND_QUEUE_CAPACITY
  Prompt,      \* clients that keep reading their sockets
  Leavers      \* clients that go away sooner or later

Conns == {Shell} \cup Windows

VARIABLES
  client,     \* "open", or "gone" once its end of the socket is closed
  task,       \* "serving", "closing" (cleaned up, waits for its writer), "over"
  plan,       \* what is left to do of the frame a connection's task dispatches
  todo,       \* the clients the current event is still to be queued for, in order
  queue,      \* messages waiting for the writer
  writer,     \* "receiving", "writing" or "ended"
  daemon      \* "serving", "draining" its connections, "stopped"

vars == <<client, task, plan, todo, queue, writer, daemon>>

\* A CommandFinished frame is accepted and then announced, an erasure is announced and
\* then answered.
Plans == {<<"reply", "announce">>, <<"announce", "reply">>, <<"reply">>}

TypeOK ==
  /\ client \in [Conns -> {"open", "gone"}]
  /\ task \in [Conns -> {"serving", "closing", "over"}]
  /\ plan \in [Conns -> Plans \cup {<<"announce">>, <<>>}]
  /\ todo \in [Conns -> UNION {SetToSeqs(S) : S \in SUBSET Conns}]
  /\ queue \in [Conns -> 0..Capacity]
  /\ writer \in [Conns -> {"receiving", "writing", "ended"}]
  /\ daemon \in {"serving", "draining", "stopped"}

Init ==
  /\ client = [c \in Conns |-> "open"]
  /\ task = [c \in Conns |-> "serving"]
  /\ plan = [c \in Conns |-> <<>>]
  /\ todo = [c \in Conns |-> <<>>]
  /\ queue = [c \in Conns |-> 0]
  /\ writer = [c \in Conns |-> "receiving"]
  /\ daemon = "serving"

Up == daemon # "stopped"

Dispatching(c) == task[c] = "serving" /\ (plan[c] # <<>> \/ todo[c] # <<>>)

-----------------------------------------------------------------------------
(* Dispatching a frame                                                     *)

Receive(c) ==
  /\ Up
  /\ task[c] = "serving"
  /\ ~ Dispatching(c)
  /\ client[c] = "open"
  /\ \E steps \in Plans : plan' = [plan EXCEPT ![c] = steps]
  /\ UNCHANGED <<client, task, todo, queue, writer, daemon>>

SendForever(d) ==
  /\ queue[d] < Capacity
  /\ queue' = [queue EXCEPT ![d] = @ + 1]

\* mpsc::Sender::send: it waits for room, and fails at once when the writer has ended.
SendTo(d) ==
  \/ writer[d] # "ended" /\ queue[d] < Capacity /\ queue' = [queue EXCEPT ![d] = @ + 1]
  \/ writer[d] = "ended" /\ UNCHANGED queue

Reply(c) ==
  /\ Up
  /\ Dispatching(c)
  /\ todo[c] = <<>>
  /\ Head(plan[c]) = "reply"
  /\ SendTo(c)
  /\ plan' = [plan EXCEPT ![c] = Tail(@)]
  /\ UNCHANGED <<client, task, todo, writer, daemon>>

\* send_session_event picks the clients that are still connected; a receipt or an airlock
\* change is not for the shell.
Announce(c) ==
  /\ Up
  /\ Dispatching(c)
  /\ todo[c] = <<>>
  /\ Head(plan[c]) = "announce"
  /\ \E audience \in {Conns, Windows} :
       \E order \in SetToSeqs({d \in audience : task[d] = "serving"}) :
         todo' = [todo EXCEPT ![c] = order]
  /\ plan' = [plan EXCEPT ![c] = Tail(@)]
  /\ UNCHANGED <<client, task, queue, writer, daemon>>

\* One client after the other.
SendNext(c) ==
  /\ Up
  /\ Dispatching(c)
  /\ todo[c] # <<>>
  /\ SendTo(Head(todo[c]))
  /\ todo' = [todo EXCEPT ![c] = Tail(@)]
  /\ UNCHANGED <<client, task, plan, writer, daemon>>

-----------------------------------------------------------------------------
(* The writer of a connection                                              *)

Take(c) ==
  /\ Up
  /\ writer[c] = "receiving"
  /\ queue[c] > 0
  /\ queue' = [queue EXCEPT ![c] = @ - 1]
  /\ writer' = [writer EXCEPT ![c] = "writing"]
  /\ UNCHANGED <<client, task, plan, todo, daemon>>

\* The client reads; until then the write waits.
Written(c) ==
  /\ Up
  /\ writer[c] = "writing"
  /\ client[c] = "open"
  /\ writer' = [writer EXCEPT ![c] = "receiving"]
  /\ UNCHANGED <<client, task, plan, todo, queue, daemon>>

WriteFailsSilently(c) ==
  /\ Up
  /\ writer[c] = "writing"
  /\ client[c] = "gone"
  /\ UNCHANGED vars

\* The receiver is dropped with what it held.
WriteFails(c) ==
  /\ Up
  /\ writer[c] = "writing"
  /\ client[c] = "gone"
  /\ writer' = [writer EXCEPT ![c] = "ended"]
  /\ queue' = [queue EXCEPT ![c] = 0]
  /\ UNCHANGED <<client, task, plan, todo, daemon>>

\* Messages come first, then the stop token of the connection or of the daemon.
WriterStops(c) ==
  /\ Up
  /\ writer[c] = "receiving"
  /\ queue[c] = 0
  /\ task[c] = "closing" \/ daemon = "draining"
  /\ writer' = [writer EXCEPT ![c] = "ended"]
  /\ UNCHANGED <<client, task, plan, todo, queue, daemon>>

-----------------------------------------------------------------------------
(* The end of a connection and of the daemon                               *)

\* End of file, or the stop token, is noticed between two frames.
Leave(c) ==
  /\ Up
  /\ task[c] = "serving"
  /\ ~ Dispatching(c)
  /\ client[c] = "gone" \/ daemon = "draining"
  /\ task' = [task EXCEPT ![c] = "closing"]
  /\ UNCHANGED <<client, plan, todo, queue, writer, daemon>>

JoinWriter(c) ==
  /\ Up
  /\ task[c] = "closing"
  /\ writer[c] = "ended"
  /\ task' = [task EXCEPT ![c] = "over"]
  /\ UNCHANGED <<client, plan, todo, queue, writer, daemon>>

Shutdown ==
  /\ daemon = "serving"
  /\ daemon' = "draining"
  /\ UNCHANGED <<client, task, plan, todo, queue, writer>>

DrainPatiently ==
  /\ daemon = "draining"
  /\ \A c \in Conns : task[c] = "over"
  /\ daemon' = "stopped"
  /\ UNCHANGED <<client, task, plan, todo, queue, writer>>

\* All connections are over, or CONNECTION_SHUTDOWN_GRACE has passed.
Drain ==
  /\ daemon = "draining"
  /\ daemon' = "stopped"
  /\ task' = [c \in Conns |-> "over"]
  /\ UNCHANGED <<client, plan, todo, queue, writer>>

\* External: the client closes its end.
GoAway(c) ==
  /\ client[c] = "open"
  /\ client' = [client EXCEPT ![c] = "gone"]
  /\ UNCHANGED <<task, plan, todo, queue, writer, daemon>>

-----------------------------------------------------------------------------

Dispatch(c) == Reply(c) \/ Announce(c) \/ SendNext(c)
Write(c)    == Take(c) \/ WriteFails(c) \/ WriterStops(c)
End(c)      == Leave(c) \/ JoinWriter(c)

Next ==
  \/ \E c \in Conns : Receive(c) \/ Dispatch(c) \/ Write(c) \/ Written(c) \/ End(c) \/ GoAway(c)
  \/ Shutdown \/ Drain

Spec == Init /\ [][Next]_vars

\* The runtime polls every task that can go on, and a queue hands out its room in the order
\* of the senders' arrival, so nobody is passed over for good.  Only prompt clients read,
\* and only leavers go away, for sure.
Fairness ==
  /\ \A c \in Conns : SF_vars(Dispatch(c)) /\ WF_vars(Write(c)) /\ WF_vars(End(c))
  /\ \A c \in Prompt : WF_vars(Written(c))
  /\ \A c \in Leavers : WF_vars(GoAway(c))
  /\ WF_vars(Drain)

FairSpec == Spec /\ Fairness

-----------------------------------------------------------------------------
(* Properties                                                              *)

\* Every frame is dispatched to its end, however the connections tell each other events at
\* the same time with their queues full, if each client keeps reading or goes away: no
\* two of them wait for each other, and one that is gone holds nobody up.
FramesAreFinished ==
  \A c \in Conns : Dispatching(c) ~> ~ Dispatching(c)

\* The daemon stops within its grace period even if a client never reads again.
ShutdownCompletes == daemon = "draining" ~> daemon = "stopped"

\* A client that is gone is forgotten: its connection comes to its end, and no message is
\* left waiting for it.
GoneIsForgotten ==
  \A c \in Conns : client[c] = "gone" ~> task[c] = "over"

\* Delivery comes to its end in each of the three ways, with bounded queues.
DeliveryCompletes == []TypeOK /\ FramesAreFinished /\ ShutdownCompletes /\ GoneIsForgotten

\* The shell's frames are dispatched to their end as long as the shell reads, whatever the
\* windows do ("a disconnected or slow observer must not block the shell hook").
ShellIsNotBlocked == Dispatching(Shell) ~> ~ Dispatching(Shell)
=============================================================================

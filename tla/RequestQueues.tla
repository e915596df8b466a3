---------------------------- MODULE RequestQueues ----------------------------
(***************************************************************************)
(* ProviderRequests with the queues of its clients.  The daemon writes to a *)
(* client through a bounded channel and awaits room in it, on the task that *)
(* has something to say: a dispatch or a provider task stands still while  *)
(* one client it writes to does not read.  Every step is a step of         *)
(* ProviderRequests, taken by a task whose last messages have been queued, *)
(* or changes only the queues.                                             *)
(*                                                                         *)
(* A session's hints go to its shell and to the windows subscribed to it,  *)
(* its receipts to the windows alone, the rest to the client that asked.   *)
(* The windows are taken to be subscribed from the start.  What a queue    *)
(* holds is EventDelivery's matter: here a client reads, so that there is  *)
(* room in the end, or reads no more.                                      *)
(***************************************************************************)
EXTENDS ProviderRequests

CONSTANTS
  OwnerOf,     \* the shell's connection of each session
  WindowsOn,   \* the other connections subscribed to it
  MayStall     \* bound: clients that may read no more

ASSUME ClientsAreConnections ==
  /\ OwnerOf \in [Sessions -> Conns]
  /\ WindowsOn \in [Sessions -> SUBSET Conns]
  /\ MayStall \subseteq Conns

VARIABLES
  stalled,     \* clients that read no more and whose queue is full
  queueing,    \* clients the last messages of a request's task have yet to be queued for
  telling,     \* cancelled requests whose RequestCancelled has yet to be queued
  replaced     \* the completion a new one has superseded

queues   == <<stalled, queueing, telling, replaced>>
flowVars == <<vars, queues>>

FlowInit ==
  /\ Init
  /\ stalled = {}
  /\ queueing = [r \in Requests |-> {}]
  /\ telling = {}
  /\ replaced = [r \in Completions |-> {}]

-----------------------------------------------------------------------------
(* What a step writes, and to whom                                         *)

\* send_session_event looks the clients up before it writes to the first.
Connected(clients) == {c \in clients : conn[c] = "up"}
Observers(r) == Connected(WindowsOn[SessionOf[r]])
Hearers(r) == Connected(WindowsOn[SessionOf[r]] \cup {OwnerOf[SessionOf[r]]})

\* A channel whose connection is gone takes nothing, at once.
HasRoom(c) == c \notin stalled \/ conn[c] = "closed"

Writes(r, clients) ==
  /\ queueing' = [queueing EXCEPT ![r] = clients]
  /\ UNCHANGED <<stalled, telling, replaced>>

\* A completion announces what it has superseded once it is routed, and is handed to its
\* provider task after that.
Superseder(r) == r \in Completions /\ pc[r] = "provider"
Handing(r) == Superseder(r) /\ replaced[r] \cap (unannounced \cup announced) # {}

\* A connection's dispatch that has returned in ProviderRequests may still be writing.
StillDispatching(c) ==
  \E r \in Requests \ Analyses :
    /\ OriginOf[r] = c
    /\ \/ pc[r] \in {"rejected", "provider"} /\ queueing[r] # {}
       \/ Handing(r)

-----------------------------------------------------------------------------
(* The tasks of a request                                                  *)

Silent(r) ==
  /\ \/ r \in Completions /\ Capture(r)
     \/ FindOrigin(r) \/ Abandon(r) \/ RecordOrigin(r)
     \/ r \in Chats /\ RetainQuestion(r)
     \/ r \notin Completions /\ Settle(r)
     \/ OpenStream(r) \/ StreamRefused(r) \/ EndStream(r) \/ RetainAnswer(r) \/ DecideStream(r)
     \/ EndRequest(r) \/ Unroute(r)
  /\ UNCHANGED queues

Supersede(r) ==
  /\ Register(r)
  /\ replaced' = IF r \in Completions
                 THEN [replaced EXCEPT ![r] = unannounced' \ unannounced] ELSE replaced
  /\ UNCHANGED <<stalled, queueing, telling>>

\* The client that asked gets its answer, or a stream's first or last event.
WriteToOrigin(r) ==
  \/ /\ \/ Respond(r)
        \/ r \in Streams /\ RetainQuestion(r)
        \/ r \notin Analyses /\ Refuse(r)
     /\ Writes(r, {OriginOf[r]})
  \/ /\ ReportRefusal(r) \/ FinishStream(r)
     /\ Writes(r, IF r \in cancelled THEN {} ELSE {OriginOf[r]})

\* The risk of a proposal is a hint to all, before the answer.
SettleCompletion(r) ==
  /\ r \in Completions /\ ~ Handing(r)
  /\ Settle(r)
  /\ \E clients \in IF outcome'[r] = "succeeded" THEN {{}, Hearers(r)} ELSE {{}} : Writes(r, clients)

\* A failed command may be hinted at before its analysis begins (a remembered fix, a changed
\* environment), instead of it, and after it.
WriteToHearers(r) ==
  /\ r \in Analyses
  /\ \/ Capture(r) \/ Refuse(r)
     \/ Hint(r) /\ outcome[r] # "cancelled" /\ r \notin cancelled
  /\ \E clients \in {{}, Hearers(r)} : Writes(r, clients)

HintNothing(r) ==
  /\ outcome[r] = "cancelled" \/ r \in cancelled
  /\ Hint(r)
  /\ UNCHANGED queues

WriteToWindows(r) == PublishReceipt(r) /\ Writes(r, Observers(r))

\* A task goes on once its last messages are queued; a connection reads its next frame once
\* its dispatch has returned.
Step(r) ==
  /\ queueing[r] = {}
  /\ pc[r] = "idle" => ~ StillDispatching(OriginOf[r])
  /\ \/ Silent(r) \/ Supersede(r) \/ WriteToOrigin(r) \/ SettleCompletion(r)
     \/ WriteToHearers(r) \/ HintNothing(r) \/ WriteToWindows(r)

Forward(r) == queueing[r] = {} /\ Delta(r) /\ Writes(r, {OriginOf[r]})

\* One of the messages a task waits to queue finds room.
Queue(r) ==
  /\ \E c \in queueing[r] :
       HasRoom(c) /\ queueing' = [queueing EXCEPT ![r] = @ \ {c}]
  /\ UNCHANGED <<vars, stalled, telling, replaced>>

-----------------------------------------------------------------------------
(* Cancellations and clients                                               *)

\* The canceller's dispatch looks the origin up, and then awaits room for RequestCancelled.
BeginTelling(r) ==
  /\ \A q \in Completions : r \in replaced[q] => Superseder(q)
  /\ Announce(r)
  /\ telling' = IF r \in origins /\ conn[OriginOf[r]] = "up" THEN telling \cup {r} ELSE telling
  /\ UNCHANGED <<stalled, queueing, replaced>>

Tell(r) ==
  /\ r \in telling /\ HasRoom(OriginOf[r])
  /\ telling' = telling \ {r}
  /\ UNCHANGED <<vars, stalled, queueing, replaced>>

ForgetTold(r) == r \notin telling /\ Forget(r) /\ UNCHANGED queues

LeaveClient(c) == ~ StillDispatching(c) /\ Hangup(c) /\ UNCHANGED queues

\* The client reads no more, and what is written to it fills its queue.
Stall(c) ==
  /\ c \in MayStall \ stalled /\ conn[c] = "up"
  /\ stalled' = stalled \cup {c}
  /\ UNCHANGED <<vars, queueing, telling, replaced>>

FlowNext ==
  \/ \E r \in Requests : \/ Step(r) \/ Forward(r) \/ Queue(r)
                         \/ BeginTelling(r) \/ Tell(r) \/ ForgetTold(r)
                         \/ Cancel(r) /\ UNCHANGED queues
  \/ \E s \in Sessions : (Seal(s) \/ Open(s) \/ ClearSession(s)) /\ UNCHANGED queues
  \/ (ClearChatHistory \/ ClearAllTransient) /\ UNCHANGED queues
  \/ \E c \in Conns : \/ LeaveClient(c) \/ Stall(c)
                      \/ DropRoutes(c) /\ UNCHANGED queues

FlowSpec == FlowInit /\ [][FlowNext]_flowVars

\* The daemon's tasks run, and a task that awaits room in the queue of a client that reads
\* gets it: tokio polls what is runnable, and its channels serve their senders first come,
\* first served.  A stream, however much of it there is to forward, ends: its answer is
\* bounded and its call has a deadline.  Clients owe nothing.
Fairness ==
  /\ \A r \in Requests :
       /\ WF_flowVars(pc[r] # "idle" /\ Step(r))
       /\ WF_flowVars(Queue(r)) /\ WF_flowVars(Tell(r))
       /\ WF_flowVars(BeginTelling(r)) /\ WF_flowVars(ForgetTold(r))
  /\ \A r \in Streams : SF_flowVars(pc[r] = "streaming" /\ Step(r))
  /\ \A c \in Conns : WF_flowVars(DropRoutes(c) /\ UNCHANGED queues)

-----------------------------------------------------------------------------
(* Properties                                                              *)

\* Those a session's requests write to.
Clients(s) == {OriginOf[r] : r \in OfSession(s)} \cup WindowsOn[s] \cup {OwnerOf[s]}

\* They read, or go away in the end.  A window that does neither keeps everyone else of its
\* session waiting (EventDelivery, ShellIsNotBlocked).
AreRead(s) == []<>(\A c \in Clients(s) : HasRoom(c))

\* Every request that was received is eventually over, its last message queued, and gone from
\* table and routes, as long as the clients of its own session read; no others matter.
RequestsFinish ==
  \A r \in Requests :
    AreRead(SessionOf[r]) => (pc[r] # "idle" ~> pc[r] \in Finished /\ queueing[r] = {})

\* Likewise a completion is eventually answered, with the proposal or with an error, whoever
\* supersedes, cancels or seals it; its answer does not wait for a client of another session.
CompletionsAreAnswered ==
  \A r \in Completions :
    AreRead(SessionOf[r]) =>
      (pc[r] # "idle" ~> events[r] \cap {"answer", "error", "sealed"} # {} /\ queueing[r] = {})

\* A client whose streaming chat was accepted is eventually told that it is over: done,
\* failed, cancelled, or its data cleared; unless it went away ("streaming chat
\* deltas/done/failure and request cancellation return ... to the originating connection").
StreamEndIsTold ==
  \A r \in Streams :
    AreRead(SessionOf[r]) =>
      ("accepted" \in events[r] ~>
         \/ events[r] \cap {"done", "failed", "cancelled", "cleared"} # {}
         \/ conn[OriginOf[r]] # "up")

=============================================================================

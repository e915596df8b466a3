------------------------- MODULE ProviderRequests -------------------------
(***************************************************************************)
(* Provider-bound requests inside aicoachd.                                *)
(*                                                                         *)
(* A completion or chat request is dispatched by the task of the           *)
(* connection it arrived on; the analysis of a failed command runs in a    *)
(* task of its own from the start.  All of them register in the session's  *)
(* table of active requests (state.rs), record the connection to answer    *)
(* (server.rs), call the provider, publish a Privacy Receipt and leave.    *)
(* Meanwhile any other connection may seal or open the Session Airlock,    *)
(* cancel one request, erase data, or go away.  The runtime is             *)
(* multi-threaded and every lock is released between the steps, so each    *)
(* lock-protected region is one action here and they interleave freely.    *)
(*                                                                         *)
(* Request ids are fresh UUIDs, so each is dispatched at most once.  The   *)
(* sessions exist throughout: a session with an active request is never    *)
(* evicted (module SessionRegistry).  Requests answered by local rules     *)
(* alone never reach this boundary and are left out.  Message text is      *)
(* abstracted: a retained chat entry is the request it belongs to and who  *)
(* spoke; the length bound of the retained chat is left out.               *)
(***************************************************************************)
EXTENDS Sequences, FiniteSets

CONSTANTS
  Sessions,
  Conns,
  Completions, Analyses, Chats, Streams,   \* the request ids of each kind
  SessionOf,                               \* session a request names
  OriginOf                                 \* connection a request arrives on

Requests == Completions \cup Analyses \cup Chats \cup Streams

\* ActiveRequestKind::Chat covers plain and streaming chat alike.
ChatKind == Chats \cup Streams

ASSUME KindsAreDisjoint ==
  /\ Completions \cap Analyses = {}
  /\ (Completions \cup Analyses) \cap ChatKind = {}
  /\ Chats \cap Streams = {}

ASSUME RequestsAreAddressed ==
  /\ SessionOf \in [Requests -> Sessions]
  /\ OriginOf \in [Requests -> Conns]

VARIABLES
  \* SessionManager, one mutex
  access,      \* provider_access_enabled of each session
  active,      \* ids in each session's table of active requests
  cancelled,   \* requests whose CancellationToken is cancelled
  chat,        \* retained chat entries of each session
  \* the daemon's connection and routing maps, one RwLock each
  conn,        \* "up", "unmapped" once out of the map, "closed" once cleaned up
  origins,     \* requests with an entry in request_origins
  unannounced, \* cancelled requests whose RequestCancelled is still to be sent
  announced,   \* requests past that whose route the announcer has yet to remove
  \* per request
  pc,          \* where its dispatch or task is
  outcome,     \* AiRequestOutcome decided so far
  partial,     \* streams that have accumulated answer text
  events,      \* what clients have been sent about it
  receipts,    \* Privacy Receipts published for it
  \* history
  outdated     \* chats that began before an erasure of their session

store == <<access, active, cancelled, chat>>
wire  == <<conn, origins, unannounced, announced>>
task  == <<pc, outcome, partial, events, receipts>>
vars  == <<store, wire, task, outdated>>

Finished == {"rejected", "abandoned", "done"}

\* Phases in which the request sits in the table unless it was cancelled.
Held == {"begun", "checked", "routed", "provider", "streaming", "refused",
         "answered", "settled", "finished", "responded", "reported", "closing"}

Phases == {"idle", "captured"} \cup Held \cup {"ended"} \cup Finished

Outcomes == {"succeeded", "failed", "cancelled", "local_fallback"}

Replies == {"accepted", "delta", "done", "failed", "answer", "error", "sealed", "hint",
            "cancelled", "cleared"}

TypeOK ==
  /\ access \in [Sessions -> BOOLEAN]
  /\ active \in [Sessions -> SUBSET Requests]
  /\ cancelled \subseteq Requests
  /\ chat \in [Sessions -> SUBSET (ChatKind \X {"user", "coach"})]
  /\ conn \in [Conns -> {"up", "unmapped", "closed"}]
  /\ origins \subseteq Requests
  /\ unannounced \subseteq Requests
  /\ announced \subseteq Requests
  /\ pc \in [Requests -> Phases]
  /\ outcome \in [Requests -> Outcomes \cup {"undecided"}]
  /\ partial \subseteq Streams
  /\ events \in [Requests -> SUBSET Replies]
  /\ receipts \in [Requests -> Seq(Outcomes)]
  /\ outdated \subseteq Requests

Init ==
  /\ access = [s \in Sessions |-> TRUE]
  /\ active = [s \in Sessions |-> {}]
  /\ cancelled = {}
  /\ chat = [s \in Sessions |-> {}]
  /\ conn = [c \in Conns |-> "up"]
  /\ origins = {}
  /\ unannounced = {}
  /\ announced = {}
  /\ pc = [r \in Requests |-> "idle"]
  /\ outcome = [r \in Requests |-> "undecided"]
  /\ partial = {}
  /\ events = [r \in Requests |-> {}]
  /\ receipts = [r \in Requests |-> <<>>]
  /\ outdated = {}

-----------------------------------------------------------------------------
(* Helpers                                                                 *)

OfSession(s) == {r \in Requests : SessionOf[r] = s}
Unfinished   == {r \in Requests : pc[r] \notin Finished \cup {"idle"}}
InFlight(r)  == pc[r] \in Held

Goto(r, phase) == pc' = [pc EXCEPT ![r] = phase]
Send(r, reply) == events' = [events EXCEPT ![r] = @ \cup {reply}]

\* A connection's task reads its next frame only after dispatch has returned, and
\* dispatch of a completion or chat lasts until its provider task is spawned.
Dispatching(c) ==
  \E r \in Requests \ Analyses :
    OriginOf[r] = c /\ pc[r] \in {"captured", "begun", "checked", "routed"}

Arrives(r) ==
  /\ pc[r] = "idle"
  /\ conn[OriginOf[r]] = "up"
  /\ ~ Dispatching(OriginOf[r])

-----------------------------------------------------------------------------
(* Registration                                                            *)

\* Completion reads the session context before it registers; a failed command's job
\* carries the context finish_command recorded, and is analysed by a spawned task.
Capture(r) ==
  /\ r \in Completions \cup Analyses
  /\ Arrives(r)
  /\ Goto(r, "captured")
  /\ UNCHANGED <<store, wire, outcome, partial, events, receipts, outdated>>

MayBegin(r) ==
  IF r \in ChatKind THEN Arrives(r) ELSE pc[r] = "captured"

\* The previous completion a new one replaces: the first one the table's iteration finds.
Superseded(r) ==
  LET previous == active[SessionOf[r]] \cap Completions
  IN  IF r \in Completions /\ previous # {} THEN {{q} : q \in previous} ELSE {{}}

RegisterAlongside(r) ==
  /\ MayBegin(r)
  /\ access[SessionOf[r]]
  /\ active' = [active EXCEPT ![SessionOf[r]] = @ \cup {r}]
  /\ Goto(r, "begun")
  /\ UNCHANGED <<access, cancelled, chat, wire, outcome, partial, events, receipts, outdated>>

RegisterUnchecked(r) ==
  \E old \in Superseded(r) :
    /\ MayBegin(r)
    /\ active' = [active EXCEPT ![SessionOf[r]] = (@ \ old) \cup {r}]
    /\ cancelled' = cancelled \cup old
    /\ unannounced' = unannounced \cup old
    /\ Goto(r, "begun")
    /\ UNCHANGED <<access, chat, conn, origins, announced, outcome, partial, events, receipts, outdated>>

\* begin_provider_request: the airlock is checked and the request registered under one
\* lock; a new completion takes the place of the previous one in the same step.
Register(r) ==
  \E old \in Superseded(r) :
    /\ MayBegin(r)
    /\ access[SessionOf[r]]
    /\ active' = [active EXCEPT ![SessionOf[r]] = (@ \ old) \cup {r}]
    /\ cancelled' = cancelled \cup old
    /\ unannounced' = unannounced \cup old
    /\ Goto(r, "begun")
    /\ UNCHANGED <<access, chat, conn, origins, announced, outcome, partial, events, receipts, outdated>>

RefuseAfterChatEntry(r) ==
  /\ MayBegin(r)
  /\ ~ access[SessionOf[r]]
  /\ Send(r, IF r \in Analyses THEN "hint" ELSE "sealed")
  /\ chat' = IF r \in ChatKind
             THEN [chat EXCEPT ![SessionOf[r]] = @ \cup {<<r, "user">>}]
             ELSE chat
  /\ Goto(r, "rejected")
  /\ UNCHANGED <<access, active, cancelled, wire, outcome, partial, receipts, outdated>>

\* A sealed session turns the request away; an analysis falls back to the local result.
Refuse(r) ==
  /\ MayBegin(r)
  /\ ~ access[SessionOf[r]]
  /\ Send(r, IF r \in Analyses THEN "hint" ELSE "sealed")
  /\ Goto(r, "rejected")
  /\ UNCHANGED <<store, wire, outcome, partial, receipts, outdated>>

\* route_request looks the connection up in one lock and records the origin in another.
FindOrigin(r) ==
  /\ pc[r] = "begun"
  /\ conn[OriginOf[r]] = "up"
  /\ Goto(r, "checked")
  /\ UNCHANGED <<store, wire, outcome, partial, events, receipts, outdated>>

\* Only an analysis, which outlives the dispatch of its frame, can find its origin gone.
Abandon(r) ==
  /\ pc[r] = "begun"
  /\ conn[OriginOf[r]] # "up"
  /\ cancelled' = cancelled \cup {r}
  /\ active' = [active EXCEPT ![SessionOf[r]] = @ \ {r}]
  /\ Goto(r, "abandoned")
  /\ UNCHANGED <<access, chat, wire, outcome, partial, events, receipts, outdated>>

RecordOrigin(r) ==
  /\ pc[r] = "checked"
  /\ origins' = origins \cup {r}
  /\ Goto(r, IF r \in ChatKind THEN "routed" ELSE "provider")
  /\ UNCHANGED <<store, conn, unannounced, announced, outcome, partial, events, receipts, outdated>>

\* The prompt is taken and the question retained before the provider task is spawned.
RetainQuestion(r) ==
  /\ r \in ChatKind
  /\ pc[r] = "routed"
  /\ chat' = [chat EXCEPT ![SessionOf[r]] = @ \cup {<<r, "user">>}]
  /\ IF r \in Streams THEN Send(r, "accepted") ELSE UNCHANGED events
  /\ Goto(r, "provider")
  /\ UNCHANGED <<access, active, cancelled, wire, outcome, partial, receipts, outdated>>

-----------------------------------------------------------------------------
(* The provider attempt                                                    *)

SettleUndecided(r) ==
  /\ r \notin Streams
  /\ pc[r] = "provider"
  /\ Goto(r, "settled")
  /\ UNCHANGED <<store, wire, outcome, partial, events, receipts, outdated>>

\* The attempt ends and its outcome is decided by one look at the token: whatever the
\* provider returned, a cancelled request is reported as cancelled.
Settle(r) ==
  /\ r \notin Streams
  /\ pc[r] = "provider"
  /\ \E result \in IF r \in cancelled THEN {"cancelled"}
                    ELSE {"succeeded", IF r \in Analyses THEN "local_fallback" ELSE "failed"} :
       /\ outcome' = [outcome EXCEPT ![r] = result]
       /\ Goto(r, IF r \in Chats /\ result = "succeeded" THEN "answered" ELSE "settled")
  /\ UNCHANGED <<store, wire, partial, events, receipts, outdated>>

OpenStream(r) ==
  /\ r \in Streams
  /\ pc[r] = "provider"
  /\ Goto(r, "streaming")
  /\ UNCHANGED <<store, wire, outcome, partial, events, receipts, outdated>>

StreamRefused(r) ==
  /\ r \in Streams
  /\ pc[r] = "provider"
  /\ outcome' = [outcome EXCEPT ![r] = IF r \in cancelled THEN "cancelled" ELSE "failed"]
  /\ Goto(r, "refused")
  /\ UNCHANGED <<store, wire, partial, events, receipts, outdated>>

ReportRefusal(r) ==
  /\ pc[r] = "refused"
  /\ IF r \in cancelled THEN UNCHANGED events ELSE Send(r, "failed")
  /\ Goto(r, "responded")
  /\ UNCHANGED <<store, wire, outcome, partial, receipts, outdated>>

Delta(r) ==
  /\ r \in Streams
  /\ pc[r] = "streaming"
  /\ r \notin cancelled
  /\ partial' = partial \cup {r}
  /\ Send(r, "delta")
  /\ UNCHANGED <<store, wire, pc, outcome, receipts, outdated>>

EndStreamUnlessCancelled(r) ==
  /\ pc[r] = "streaming"
  /\ r \notin cancelled
  /\ \E result \in {"succeeded", "failed"} : outcome' = [outcome EXCEPT ![r] = result]
  /\ Goto(r, IF r \in partial THEN "answered" ELSE "settled")
  /\ UNCHANGED <<store, wire, partial, events, receipts, outdated>>

\* The stream ends, is cut at the answer limit, yields a chunk after a cancellation
\* (none of these counts as a failure), or yields an error.
EndStream(r) ==
  /\ pc[r] = "streaming"
  /\ \E result \in {"succeeded", "failed"} : outcome' = [outcome EXCEPT ![r] = result]
  /\ Goto(r, IF r \in partial THEN "answered" ELSE "settled")
  /\ UNCHANGED <<store, wire, partial, events, receipts, outdated>>

\* push_chat of the answer, which looks at no token.
RetainAnswer(r) ==
  /\ r \in ChatKind
  /\ pc[r] = "answered"
  /\ chat' = [chat EXCEPT ![SessionOf[r]] = @ \cup {<<r, "coach">>}]
  /\ Goto(r, "settled")
  /\ UNCHANGED <<access, active, cancelled, wire, outcome, partial, events, receipts, outdated>>

RespondUnlessCancelled(r) ==
  /\ r \in Completions \cup Chats
  /\ pc[r] = "settled"
  /\ IF r \in cancelled THEN UNCHANGED events
     ELSE Send(r, IF outcome[r] = "succeeded" THEN "answer" ELSE "error")
  /\ Goto(r, "responded")
  /\ UNCHANGED <<store, wire, outcome, partial, receipts, outdated>>

RespondToCancelled(r) ==
  /\ r \in Completions \cup Chats
  /\ pc[r] = "settled"
  /\ Send(r, IF outcome[r] \in {"succeeded", "cancelled"} THEN "answer" ELSE "error")
  /\ Goto(r, "responded")
  /\ UNCHANGED <<store, wire, outcome, partial, receipts, outdated>>

Respond(r) ==
  /\ r \in Completions \cup Chats
  /\ pc[r] = "settled"
  /\ Send(r, IF outcome[r] = "succeeded" THEN "answer" ELSE "error")
  /\ Goto(r, "responded")
  /\ UNCHANGED <<store, wire, outcome, partial, receipts, outdated>>

\* A stream looks at the token twice more: before its last event and before its receipt.
FinishStream(r) ==
  /\ r \in Streams
  /\ pc[r] = "settled"
  /\ IF r \in cancelled THEN UNCHANGED events
     ELSE Send(r, IF outcome[r] = "failed" THEN "failed" ELSE "done")
  /\ Goto(r, "finished")
  /\ UNCHANGED <<store, wire, outcome, partial, receipts, outdated>>

DecideStream(r) ==
  /\ pc[r] = "finished"
  /\ outcome' = IF r \in cancelled THEN [outcome EXCEPT ![r] = "cancelled"] ELSE outcome
  /\ Goto(r, "responded")
  /\ UNCHANGED <<store, wire, partial, events, receipts, outdated>>

PublishReceipt(r) ==
  /\ \/ r \in Analyses /\ pc[r] = "settled" /\ Goto(r, "reported")
     \/ pc[r] = "responded" /\ Goto(r, "closing")
  /\ receipts' = [receipts EXCEPT ![r] = Append(@, outcome[r])]
  /\ UNCHANGED <<store, wire, outcome, partial, events, outdated>>

\* An analysis delivers its hint after the receipt, if the result calls for one and the
\* request was not cancelled by then.
Hint(r) ==
  /\ pc[r] = "reported"
  /\ \/ outcome[r] # "cancelled" /\ r \notin cancelled /\ Send(r, "hint")
     \/ UNCHANGED events
  /\ Goto(r, "closing")
  /\ UNCHANGED <<store, wire, outcome, partial, receipts, outdated>>

EndRequestOnly(r) ==
  /\ pc[r] = "closing"
  /\ active' = [active EXCEPT ![SessionOf[r]] = @ \ {r}]
  /\ Goto(r, "done")
  /\ UNCHANGED <<access, cancelled, chat, wire, outcome, partial, events, receipts, outdated>>

EndRequest(r) ==
  /\ pc[r] = "closing"
  /\ active' = [active EXCEPT ![SessionOf[r]] = @ \ {r}]
  /\ Goto(r, "ended")
  /\ UNCHANGED <<access, cancelled, chat, wire, outcome, partial, events, receipts, outdated>>

Unroute(r) ==
  /\ pc[r] = "ended"
  /\ origins' = origins \ {r}
  /\ Goto(r, "done")
  /\ UNCHANGED <<store, conn, unannounced, announced, outcome, partial, events, receipts, outdated>>

-----------------------------------------------------------------------------
(* What other connections do meanwhile                                     *)

\* One request is cancelled by id; RequestCancelled is sent after the lock is released.
Cancel(r) ==
  /\ r \in active[SessionOf[r]]
  /\ active' = [active EXCEPT ![SessionOf[r]] = @ \ {r}]
  /\ cancelled' = cancelled \cup {r}
  /\ unannounced' = unannounced \cup {r}
  /\ UNCHANGED <<access, chat, conn, origins, announced, task, outdated>>

SealForNewRequestsOnly(s) ==
  /\ access' = [access EXCEPT ![s] = FALSE]
  /\ UNCHANGED <<active, cancelled, chat, wire, task, outdated>>

SealEverySession(s) ==
  /\ access' = [access EXCEPT ![s] = FALSE]
  /\ active' = [t \in Sessions |-> {}]
  /\ cancelled' = cancelled \cup UNION {active[t] : t \in Sessions}
  /\ unannounced' = unannounced \cup UNION {active[t] : t \in Sessions}
  /\ UNCHANGED <<chat, conn, origins, announced, task, outdated>>

\* Sealing cancels and removes every active request of the session under one lock.
Seal(s) ==
  /\ access' = [access EXCEPT ![s] = FALSE]
  /\ active' = [active EXCEPT ![s] = {}]
  /\ cancelled' = cancelled \cup active[s]
  /\ unannounced' = unannounced \cup active[s]
  /\ UNCHANGED <<chat, conn, origins, announced, task, outdated>>

Open(s) ==
  /\ access' = [access EXCEPT ![s] = TRUE]
  /\ UNCHANGED <<active, cancelled, chat, wire, task, outdated>>

\* An erasure cancels the matching requests and drops the retained chat under one lock,
\* then DataCleared goes to the sessions' observers (here in the same step, and recorded
\* only where a client waits for a stream to end).  It announces no cancellation.
Erase(sessions, kinds) ==
  LET gone     == {r \in kinds : SessionOf[r] \in sessions /\ r \in active[SessionOf[r]]}
      affected == {r \in Unfinished : SessionOf[r] \in sessions}
      waiting  == {r \in affected : "accepted" \in events[r]}
  IN  /\ active' = [s \in Sessions |-> active[s] \ gone]
      /\ cancelled' = cancelled \cup gone
      /\ chat' = [s \in Sessions |-> IF s \in sessions THEN {} ELSE chat[s]]
      /\ events' = [r \in Requests |->
                      IF r \in waiting THEN events[r] \cup {"cleared"} ELSE events[r]]
      /\ outdated' = outdated \cup (affected \cap ChatKind)
      /\ UNCHANGED <<access, wire, pc, outcome, partial, receipts>>

ClearSession(s)   == Erase({s}, Requests)
ClearChatHistory  == Erase(Sessions, ChatKind)
ClearAllTransient == Erase(Sessions, Requests)

\* The canceller's own dispatch announces each cancellation.  send_request_event finds no
\* one to tell when the request is not routed (yet, or any more).
Announce(r) ==
  /\ r \in unannounced
  /\ unannounced' = unannounced \ {r}
  /\ announced' = announced \cup {r}
  /\ IF r \in origins /\ conn[OriginOf[r]] = "up"
       THEN Send(r, "cancelled")
       ELSE UNCHANGED events
  /\ UNCHANGED <<store, conn, origins, pc, outcome, partial, receipts, outdated>>

\* unroute_request by the canceller.
Forget(r) ==
  /\ r \in announced
  /\ announced' = announced \ {r}
  /\ origins' = origins \ {r}
  /\ UNCHANGED <<store, conn, unannounced, task, outdated>>

\* A connection that ends leaves the map first and loses its routes in a second step.
Hangup(c) ==
  /\ conn[c] = "up"
  /\ ~ Dispatching(c)
  /\ conn' = [conn EXCEPT ![c] = "unmapped"]
  /\ UNCHANGED <<store, origins, unannounced, announced, task, outdated>>

DropRoutesOnly(c) ==
  /\ conn[c] = "unmapped"
  /\ conn' = [conn EXCEPT ![c] = "closed"]
  /\ origins' = {r \in origins : OriginOf[r] # c}
  /\ UNCHANGED <<store, unannounced, announced, task, outdated>>

\* Each request routed to the connection is then cancelled if it is still active.
DropRoutes(c) ==
  LET lost == {r \in origins : OriginOf[r] = c /\ r \in active[SessionOf[r]]}
  IN  /\ conn[c] = "unmapped"
      /\ conn' = [conn EXCEPT ![c] = "closed"]
      /\ origins' = {r \in origins : OriginOf[r] # c}
      /\ active' = [s \in Sessions |-> active[s] \ lost]
      /\ cancelled' = cancelled \cup lost
      /\ UNCHANGED <<access, chat, unannounced, announced, task, outdated>>

-----------------------------------------------------------------------------

Dispatch(r) ==
  \/ Register(r) \/ Refuse(r)
  \/ FindOrigin(r) \/ Abandon(r) \/ RecordOrigin(r) \/ RetainQuestion(r)

Attempt(r) ==
  \/ Settle(r)
  \/ OpenStream(r) \/ StreamRefused(r) \/ ReportRefusal(r) \/ Delta(r) \/ EndStream(r)
  \/ RetainAnswer(r) \/ Respond(r) \/ FinishStream(r) \/ DecideStream(r)
  \/ PublishReceipt(r) \/ Hint(r) \/ EndRequest(r) \/ Unroute(r)

Next ==
  \/ \E r \in Requests : Capture(r) \/ Dispatch(r) \/ Attempt(r) \/ Cancel(r)
                       \/ Announce(r) \/ Forget(r)
  \/ \E s \in Sessions : Seal(s) \/ Open(s) \/ ClearSession(s)
  \/ ClearChatHistory \/ ClearAllTransient
  \/ \E c \in Conns : Hangup(c) \/ DropRoutes(c)

Spec == Init /\ [][Next]_vars

-----------------------------------------------------------------------------
(* Properties                                                              *)

\* The request table and the tokens tell the same story: a session's table holds exactly
\* its requests that are under way and not cancelled.  Every operation that cancels must
\* also remove, and the other way round, or a later seal would miss a request.
TableMatchesTokens ==
  \A s \in Sessions :
    active[s] = {r \in OfSession(s) : InFlight(r) /\ r \notin cancelled}

\* A sealed session has no provider work that is not cancelled, whatever was being
\* registered, routed or answered when the seal came ("a provider request cannot race
\* through after the seal").
SealedIsQuiet ==
  \A r \in Requests : ~ access[SessionOf[r]] /\ InFlight(r) => r \in cancelled

\* A session never has two completions under way: the newer one cancels the older one.
OneLiveCompletion ==
  \A q, r \in Completions :
    /\ SessionOf[q] = SessionOf[r]
    /\ InFlight(q) /\ InFlight(r)
    /\ {q, r} \cap cancelled = {}
    => q = r

\* A request the airlock turned away leaves no trace: no chat entry, no receipt, no route
\* and no place in the table.
RefusalLeavesNoTrace ==
  \A r \in Requests : pc[r] = "rejected" =>
    /\ receipts[r] = <<>>
    /\ r \notin origins
    /\ \A s \in Sessions : r \notin active[s] /\ \A e \in chat[s] : e[1] # r

\* Every attempt that reached the provider, and no other request, has one receipt by the
\* time it is over; a receipt that says cancelled comes from a cancelled token, and the
\* client of such a completion or chat was not given an answer.
ReceiptsTellTheTruth ==
  \A r \in Requests : pc[r] \in Finished =>
    /\ Len(receipts[r]) = IF pc[r] = "done" THEN 1 ELSE 0
    /\ pc[r] = "done" /\ receipts[r][1] = "cancelled" =>
         r \in cancelled /\ "answer" \notin events[r]

\* A finished request leaves no routing entry behind, in whatever order its task, the
\* announcement of its cancellation and the loss of its connection came.
NoStaleRoute ==
  \A r \in Requests : pc[r] \in Finished => r \notin origins

\* Once a connection has been cleaned up, none of the completions and chats it started is
\* still under way with a live token.  An analysis may be: it can look its connection up
\* before the hang-up and record its route after the clean-up.
HangupStopsRequests ==
  \A r \in Completions \cup ChatKind :
    conn[OriginOf[r]] = "closed" /\ InFlight(r) => r \in cancelled

\* What is refused, over or gone leaves nothing behind.
NothingIsLeftOver == RefusalLeavesNoTrace /\ NoStaleRoute /\ HangupStopsRequests

\* What an erasure removed stays removed: no retained answer belongs to a request that was
\* already under way when its session's chat was erased ("The daemon clears and cancels
\* in-memory content first").
ErasedChatStaysErased ==
  \A s \in Sessions : \A r \in outdated : <<r, "coach">> \notin chat[s]

-----------------------------------------------------------------------------
(* Refinement: the request table and tokens implement the boundary.        *)

Over(r) == pc[r] \in {"ended", "done", "abandoned"}

Live  == {r \in Requests : InFlight(r) /\ r \notin cancelled}
Spent == {r \in Requests : Over(r) \/ (InFlight(r) /\ r \in cancelled)}

Boundary == INSTANCE AirlockBoundary WITH
  Exclusive <- Completions, open <- access, live <- Live, spent <- Spent

\* The daemon keeps the airlock's promises: what is live at the boundary is what is under
\* way with a live token.
KeepsTheBoundary == Boundary!Spec
=============================================================================

---------------------- MODULE ProviderRequestsProofs ----------------------
(***************************************************************************)
(* For every set of sessions, connections and requests: the types of       *)
(* ProviderRequests, its central safety properties, and that it implements *)
(* AirlockBoundary.                                                         *)
(*                                                                         *)
(* The properties are not inductive alone.  SealedIsQuiet speaks of tokens,*)
(* but sealing cancels what the request table holds: the step needs that   *)
(* table and tokens agree, that agreement needs that a request not yet     *)
(* registered has a live token, and "one completion" needs that the table  *)
(* holds one, so that superseding the one found supersedes all.  With the  *)
(* queues of the clients the daemon does nothing else, only later.         *)
(***************************************************************************)
EXTENDS RequestQueues, TLAPS

USE DEF Requests, ChatKind

\* The types of all variables are kept by every step.
LEMMA InitTypes == Init => TypeOK
BY RequestsAreAddressed DEF Init, TypeOK, Phases

\* What is known of the outcome: it is decided before anything is done with it.
OutcomeDecided ==
  \A r \in Requests :
    pc[r] \in {"refused", "answered", "settled", "finished", "responded", "reported"}
      => outcome[r] \in Outcomes

LEMMA SendTypes ==
  ASSUME TypeOK, NEW r \in Requests, NEW reply \in Replies,
         Send(r, reply) \/ UNCHANGED events
  PROVE  events' \in [Requests -> SUBSET Replies]
BY DEF TypeOK, Send

LEMMA DispatchTypes ==
  ASSUME TypeOK, NEW r \in Requests, Capture(r) \/ Dispatch(r)
  PROVE  TypeOK'
<1> USE RequestsAreAddressed DEF TypeOK, store, wire, task, Goto, Send
<1>1. CASE Capture(r)
  BY <1>1 DEF Capture, Phases
<1>2. CASE Register(r)
  BY <1>2 DEF Register, Superseded, Phases, Held
<1>3. CASE Refuse(r)
  BY <1>3 DEF Refuse, Phases, Finished, Replies
<1>4. CASE FindOrigin(r)
  BY <1>4 DEF FindOrigin, Phases, Held
<1>5. CASE Abandon(r)
  BY <1>5 DEF Abandon, Phases, Finished
<1>6. CASE RecordOrigin(r)
  BY <1>6 DEF RecordOrigin, Phases, Held
<1>7. CASE RetainQuestion(r)
  BY <1>7 DEF RetainQuestion, Phases, Held, Replies
<1>8. QED BY <1>1, <1>2, <1>3, <1>4, <1>5, <1>6, <1>7 DEF Dispatch

LEMMA AttemptTypes ==
  ASSUME TypeOK, OutcomeDecided, NEW r \in Requests, Attempt(r)
  PROVE  TypeOK'
<1> USE RequestsAreAddressed DEF TypeOK, store, wire, task, Goto
<1>1. CASE Settle(r)
  BY <1>1 DEF Settle, Phases, Held, Outcomes
<1>2. CASE OpenStream(r)
  BY <1>2 DEF OpenStream, Phases, Held
<1>3. CASE StreamRefused(r)
  BY <1>3 DEF StreamRefused, Phases, Held, Outcomes
<1>4. CASE ReportRefusal(r)
  <2>1. events' \in [Requests -> SUBSET Replies]
    BY <1>4, SendTypes DEF ReportRefusal, Replies
  <2>2. QED BY <1>4, <2>1 DEF ReportRefusal, Phases, Held
<1>5. CASE Delta(r)
  BY <1>5 DEF Delta, Send, Replies
<1>6. CASE EndStream(r)
  BY <1>6 DEF EndStream, Phases, Held, Outcomes
<1>7. CASE RetainAnswer(r)
  BY <1>7 DEF RetainAnswer, Phases, Held
<1>8. CASE Respond(r)
  <2>1. events' \in [Requests -> SUBSET Replies]
    BY <1>8, SendTypes DEF Respond, Replies
  <2>2. QED BY <1>8, <2>1 DEF Respond, Phases, Held
<1>9. CASE FinishStream(r)
  <2>1. events' \in [Requests -> SUBSET Replies]
    BY <1>9, SendTypes DEF FinishStream, Replies
  <2>2. QED BY <1>9, <2>1 DEF FinishStream, Phases, Held
<1>10. CASE DecideStream(r)
  BY <1>10 DEF DecideStream, Phases, Held, Outcomes
<1>11. CASE PublishReceipt(r)
  BY <1>11 DEF PublishReceipt, OutcomeDecided, Phases, Held
<1>12. CASE Hint(r)
  <2>1. events' \in [Requests -> SUBSET Replies]
    BY <1>12, SendTypes DEF Hint, Replies
  <2>2. QED BY <1>12, <2>1 DEF Hint, Phases, Held
<1>13. CASE EndRequest(r)
  BY <1>13 DEF EndRequest, Phases
<1>14. CASE Unroute(r)
  BY <1>14 DEF Unroute, Phases, Finished
<1>15. QED
  BY <1>1, <1>2, <1>3, <1>4, <1>5, <1>6, <1>7, <1>8, <1>9, <1>10, <1>11, <1>12, <1>13, <1>14
  DEF Attempt

LEMMA OthersTypes ==
  ASSUME TypeOK,
         \/ \E r \in Requests : Cancel(r) \/ Announce(r) \/ Forget(r)
         \/ \E s \in Sessions : Seal(s) \/ Open(s) \/ ClearSession(s)
         \/ ClearChatHistory \/ ClearAllTransient
         \/ \E c \in Conns : Hangup(c) \/ DropRoutes(c)
  PROVE  TypeOK'
<1> USE RequestsAreAddressed DEF TypeOK, store, wire, task
<1>1. ASSUME NEW sessions \in SUBSET Sessions, NEW kinds \in SUBSET Requests,
             Erase(sessions, kinds)
      PROVE  TypeOK'
  BY <1>1 DEF Erase, Unfinished, Replies
<1>2. ASSUME NEW r \in Requests, Cancel(r) \/ Announce(r) \/ Forget(r)
      PROVE  TypeOK'
  <2>1. CASE Cancel(r)
    BY <2>1 DEF Cancel
  <2>2. CASE Announce(r)
    <3>1. events' \in [Requests -> SUBSET Replies]
      BY <2>2, SendTypes DEF Announce, Replies
    <3>2. QED BY <2>2, <3>1 DEF Announce
  <2>3. CASE Forget(r)
    BY <2>3 DEF Forget
  <2>4. QED BY <1>2, <2>1, <2>2, <2>3
<1>3. ASSUME NEW s \in Sessions, Seal(s) \/ Open(s)
      PROVE  TypeOK'
  BY <1>3 DEF Seal, Open
<1>4. ASSUME NEW c \in Conns, Hangup(c) \/ DropRoutes(c)
      PROVE  TypeOK'
  BY <1>4 DEF Hangup, DropRoutes
<1>5. QED
  BY <1>1, <1>2, <1>3, <1>4 DEF ClearSession, ClearChatHistory, ClearAllTransient

LEMMA OutcomeStep ==
  ASSUME TypeOK, OutcomeDecided, [Next]_vars
  PROVE  OutcomeDecided'
<1> USE RequestsAreAddressed DEF TypeOK, OutcomeDecided, store, wire, task, Goto
<1>1. ASSUME NEW r \in Requests, Capture(r) \/ Dispatch(r)
      PROVE  OutcomeDecided'
  BY <1>1 DEF Dispatch, Capture, Register, Refuse, FindOrigin, Abandon, RecordOrigin,
              RetainQuestion
<1>2. ASSUME NEW r \in Requests, Attempt(r)
      PROVE  OutcomeDecided'
  <2>1. CASE Settle(r) \/ EndStream(r) \/ StreamRefused(r)
    <3>1. PICK result \in Outcomes : outcome' = [outcome EXCEPT ![r] = result]
      BY <2>1 DEF Settle, EndStream, StreamRefused, Outcomes
    <3>2. \A q \in Requests \ {r} : pc'[q] = pc[q] /\ outcome'[q] = outcome[q]
      BY <2>1, <3>1 DEF Settle, EndStream, StreamRefused
    <3>3. outcome'[r] \in Outcomes
      BY <3>1
    <3>4. QED BY <3>2, <3>3
  <2>2. CASE DecideStream(r)
    BY <2>2 DEF DecideStream, Outcomes
  <2>3. CASE OpenStream(r) \/ Delta(r) \/ EndRequest(r) \/ Unroute(r)
    BY <2>3 DEF OpenStream, Delta, EndRequest, Unroute
  <2>4. CASE ReportRefusal(r) \/ RetainAnswer(r) \/ Respond(r) \/ FinishStream(r)
    BY <2>4 DEF ReportRefusal, RetainAnswer, Respond, FinishStream
  <2>5. CASE PublishReceipt(r) \/ Hint(r)
    BY <2>5 DEF PublishReceipt, Hint
  <2>6. QED BY <1>2, <2>1, <2>2, <2>3, <2>4, <2>5 DEF Attempt
<1>3. CASE UNCHANGED <<pc, outcome>>
  BY <1>3
<1>4. ASSUME NEW r \in Requests, Cancel(r) \/ Announce(r) \/ Forget(r)
      PROVE  OutcomeDecided'
  BY <1>3, <1>4 DEF Cancel, Announce, Forget
<1>5. ASSUME NEW s \in Sessions, Seal(s) \/ Open(s)
      PROVE  OutcomeDecided'
  BY <1>3, <1>5 DEF Seal, Open
<1>6. ASSUME NEW sessions, NEW kinds, Erase(sessions, kinds)
      PROVE  OutcomeDecided'
  BY <1>3, <1>6 DEF Erase
<1>7. ASSUME NEW c \in Conns, Hangup(c) \/ DropRoutes(c)
      PROVE  OutcomeDecided'
  BY <1>3, <1>7 DEF Hangup, DropRoutes
<1>8. CASE UNCHANGED vars
  BY <1>3, <1>8 DEF vars
<1>9. QED
  BY <1>1, <1>2, <1>4, <1>5, <1>6, <1>7, <1>8
  DEF Next, ClearSession, ClearChatHistory, ClearAllTransient

\* Every reachable state is well typed, and no receipt is published before its outcome.
THEOREM TypesAreKept == Spec => [](TypeOK /\ OutcomeDecided)
<1>1. Init => OutcomeDecided
  BY DEF Init, OutcomeDecided
<1>2. TypeOK /\ OutcomeDecided /\ [Next]_vars => TypeOK'
  <2>1. CASE UNCHANGED vars
    BY <2>1 DEF vars, store, wire, task, TypeOK
  <2>2. QED BY <2>1, DispatchTypes, AttemptTypes, OthersTypes DEF Next
<1>3. QED BY <1>1, <1>2, InitTypes, OutcomeStep, PTL DEF Spec
-----------------------------------------------------------------------------
(* The request table, the tokens and the airlock                           *)

Unborn(r) == pc[r] \in {"idle", "captured"}

\* A token cannot be cancelled before the request is registered.
FreshTokens == \A r \in Requests : Unborn(r) => r \notin cancelled

SealedTableIsEmpty == \A s \in Sessions : ~ access[s] => active[s] = {}

OneCompletionListed ==
  \A s \in Sessions : \A q, r \in active[s] \cap Completions : q = r

AirlockInv ==
  /\ TableMatchesTokens
  /\ FreshTokens
  /\ SealedTableIsEmpty
  /\ OneCompletionListed

\* A step that neither admits nor releases anything.
Quiet ==
  /\ UNCHANGED <<access, active, cancelled>>
  /\ Live' = Live
  /\ Spent' = Spent
  /\ \A q \in Requests : Unborn(q)' => Unborn(q)

\* A step that only moves request r on, without crossing a boundary.
LEMMA QuietMove ==
  ASSUME TypeOK, NEW r \in Requests, NEW phase, Goto(r, phase),
         UNCHANGED <<access, active, cancelled>>,
         \/ pc[r] \in Held /\ phase \in Held
         \/ pc[r] = "idle" /\ phase = "captured"
         \/ Unborn(r) /\ phase = "rejected"
         \/ pc[r] = "ended" /\ phase = "done"
  PROVE  Quiet
<1>1. \A q \in Requests :
        (InFlight(q)' <=> InFlight(q)) /\ (Over(q)' <=> Over(q)) /\ (Unborn(q)' => Unborn(q))
  BY DEF TypeOK, Goto, InFlight, Over, Unborn, Held
<1>2. QED BY <1>1 DEF Quiet, Live, Spent

LEMMA QuietSteps ==
  ASSUME TypeOK, NEW r \in Requests,
         \/ Capture(r) \/ Refuse(r) \/ FindOrigin(r) \/ RecordOrigin(r) \/ RetainQuestion(r)
         \/ Attempt(r) /\ ~ EndRequest(r)
         \/ Announce(r) \/ Forget(r)
  PROVE  Quiet
<1> USE DEF store, wire, task
<1>1. CASE Capture(r)
  BY <1>1, QuietMove DEF Capture, Arrives
<1>2. CASE Refuse(r)
  BY <1>2, QuietMove DEF Refuse, MayBegin, Arrives, Unborn
<1>3. CASE FindOrigin(r) \/ RecordOrigin(r) \/ RetainQuestion(r)
  BY <1>3, QuietMove DEF FindOrigin, RecordOrigin, RetainQuestion, Held
<1>4. CASE Settle(r) \/ OpenStream(r) \/ StreamRefused(r)
  BY <1>4, QuietMove DEF Settle, OpenStream, StreamRefused, Held
<1>5. CASE ReportRefusal(r) \/ EndStream(r) \/ RetainAnswer(r)
  BY <1>5, QuietMove DEF ReportRefusal, EndStream, RetainAnswer, Held
<1>6. CASE Respond(r) \/ FinishStream(r) \/ DecideStream(r)
  BY <1>6, QuietMove DEF Respond, FinishStream, DecideStream, Held
<1>7. CASE PublishReceipt(r) \/ Hint(r) \/ Unroute(r)
  BY <1>7, QuietMove DEF PublishReceipt, Hint, Unroute, Held
<1>8. CASE Delta(r) \/ Announce(r) \/ Forget(r)
  BY <1>8 DEF Delta, Announce, Forget, Quiet, Live, Spent, InFlight, Over, Unborn
<1>9. QED
  BY <1>1, <1>2, <1>3, <1>4, <1>5, <1>6, <1>7, <1>8 DEF Attempt

LEMMA QuietInv ==
  ASSUME TypeOK, AirlockInv, Quiet
  PROVE  AirlockInv'
BY DEF TypeOK, AirlockInv, TableMatchesTokens, FreshTokens, SealedTableIsEmpty,
       OneCompletionListed, Quiet, Live, OfSession

\* A step that cancels or ends the requests of gone and takes them out of the table.
Releases(gone) ==
  /\ gone \subseteq Requests
  /\ active' = [s \in Sessions |-> active[s] \ gone]
  /\ Live' = Live \ gone
  /\ Spent' = Spent \cup (gone \cap Live)
  /\ FreshTokens'

LEMMA ReleaseInv ==
  ASSUME TypeOK, AirlockInv, NEW gone, Releases(gone),
         \A s \in Sessions : access'[s] = access[s] \/ access'[s] \/ active'[s] = {}
  PROVE  AirlockInv'
<1> USE DEF AirlockInv
<1>1. TableMatchesTokens'
  BY DEF TableMatchesTokens, Releases, Live, OfSession
<1>2. FreshTokens'
  BY DEF Releases
<1>3. SealedTableIsEmpty'
  BY DEF SealedTableIsEmpty, Releases
<1>4. OneCompletionListed'
  BY DEF OneCompletionListed, Releases
<1>5. QED BY <1>1, <1>2, <1>3, <1>4

\* The tables hold exactly the live requests, each in its own session's table.
LEMMA TableIsLive ==
  ASSUME TypeOK, AirlockInv, NEW r \in Requests, NEW s \in Sessions
  PROVE  r \in active[s] <=> SessionOf[r] = s /\ r \in Live
BY DEF AirlockInv, TableMatchesTokens, Live, OfSession

\* One request is cancelled, or its task leaves the boundary.
LEMMA ReleaseOne ==
  ASSUME TypeOK, AirlockInv, NEW r \in Requests,
         active' = [active EXCEPT ![SessionOf[r]] = @ \ {r}],
         \/ Abandon(r) \/ EndRequest(r) \/ Cancel(r)
  PROVE  Releases({r})
<1> USE RequestsAreAddressed, TableIsLive DEF TypeOK, task
<1>1. active' = [s \in Sessions |-> active[s] \ {r}]
  <2>1. \A s \in Sessions : s # SessionOf[r] => active[s] = active[s] \ {r}
    OBVIOUS
  <2>2. QED BY <2>1
<1>2. \A q \in Requests \ {r} : pc'[q] = pc[q] /\ (q \in cancelled' <=> q \in cancelled)
  BY DEF Abandon, EndRequest, Cancel, Goto
<1>3. InFlight(r)
  BY DEF Abandon, EndRequest, Cancel, Live, InFlight, Held
<1>4. r \notin Live' /\ r \in Spent'
  BY <1>3 DEF Abandon, EndRequest, Cancel, Goto, Live, Spent, InFlight, Over, Held
<1>5. r \in Spent \/ r \in Live
  BY <1>3 DEF Live, Spent
<1>6. \A q \in Requests \ {r} : (q \in Live' <=> q \in Live) /\ (q \in Spent' <=> q \in Spent)
  BY <1>2 DEF Live, Spent, InFlight, Over
<1>7. Live' = Live \ {r} /\ Spent' = Spent \cup ({r} \cap Live)
  BY <1>4, <1>5, <1>6 DEF Live, Spent
<1>8. FreshTokens'
  <2>1. ~ Unborn(r)'
    BY <1>3 DEF Abandon, EndRequest, Cancel, Goto, InFlight, Unborn, Held
  <2>2. QED BY <1>2, <2>1 DEF AirlockInv, FreshTokens, Unborn
<1>9. QED BY <1>1, <1>7, <1>8 DEF Releases

\* Any number of live requests are cancelled and removed at once.
LEMMA ReleaseMany ==
  ASSUME TypeOK, AirlockInv, NEW gone \in SUBSET Live,
         active' = [s \in Sessions |-> active[s] \ gone],
         cancelled' = cancelled \cup gone,
         pc' = pc
  PROVE  Releases(gone)
<1>1. \A q \in Requests : (InFlight(q)' <=> InFlight(q)) /\ (Over(q)' <=> Over(q))
  BY DEF InFlight, Over
<1>2. Live' = Live \ gone /\ Spent' = Spent \cup (gone \cap Live)
  BY <1>1 DEF Live, Spent
<1>3. FreshTokens'
  BY DEF AirlockInv, FreshTokens, Unborn, Live, InFlight, Held
<1>4. QED BY <1>2, <1>3 DEF Releases, Live

LEMMA SealReleases ==
  ASSUME TypeOK, AirlockInv, NEW s \in Sessions, Seal(s)
  PROVE  Releases(active[s]) /\ active[s] = Live \cap OfSession(s)
<1> USE TableIsLive, RequestsAreAddressed DEF TypeOK
<1>1. active[s] = Live \cap OfSession(s)
  BY DEF OfSession, Live
<1>2. active' = [t \in Sessions |-> active[t] \ active[s]]
  <2>1. \A t \in Sessions : t # s => active[t] = active[t] \ active[s]
    OBVIOUS
  <2>2. active[s] \ active[s] = {}
    OBVIOUS
  <2>3. \A t \in Sessions : active'[t] = active[t] \ active[s]
    BY <2>1, <2>2 DEF Seal
  <2>4. active' = [t \in Sessions |-> active'[t]]
    BY DEF Seal
  <2>5. QED BY <2>3, <2>4
<1>3. QED BY <1>1, <1>2, ReleaseMany DEF Seal, task

LEMMA EraseReleases ==
  ASSUME TypeOK, AirlockInv, NEW sessions \in SUBSET Sessions, NEW kinds \in SUBSET Requests,
         Erase(sessions, kinds)
  PROVE  \E gone \in SUBSET Live : Releases(gone)
<1> DEFINE gone == {r \in kinds : SessionOf[r] \in sessions /\ r \in active[SessionOf[r]]}
<1>1. gone \in SUBSET Live
  BY TableIsLive, RequestsAreAddressed
<1>2. active' = [s \in Sessions |-> active[s] \ gone] /\ cancelled' = cancelled \cup gone
      /\ pc' = pc
  BY DEF Erase
<1>3. QED BY <1>1, <1>2, ReleaseMany

LEMMA DropRoutesReleases ==
  ASSUME TypeOK, AirlockInv, NEW c \in Conns, DropRoutes(c)
  PROVE  \E gone \in SUBSET Live : Releases(gone)
<1> DEFINE lost == {r \in origins : OriginOf[r] = c /\ r \in active[SessionOf[r]]}
<1>1. lost \in SUBSET Live
  BY TableIsLive, RequestsAreAddressed DEF TypeOK
<1>2. active' = [s \in Sessions |-> active[s] \ lost] /\ cancelled' = cancelled \cup lost
      /\ pc' = pc
  BY DEF DropRoutes, task
<1>3. QED BY <1>1, <1>2, ReleaseMany

\* Registration takes the previous completion, all there is of it, out of the table.
LEMMA RegisterAdmits ==
  ASSUME TypeOK, AirlockInv, NEW r \in Requests, Register(r)
  PROVE  LET old == IF r \in Completions
                    THEN Live \cap Completions \cap OfSession(SessionOf[r]) ELSE {}
         IN  /\ r \notin Live \cup Spent
             /\ active' = [active EXCEPT ![SessionOf[r]] = (@ \ old) \cup {r}]
             /\ cancelled' = cancelled \cup old
             /\ Live' = (Live \ old) \cup {r}
             /\ Spent' = Spent \cup old
             /\ FreshTokens'
<1> DEFINE s == SessionOf[r]
           old == IF r \in Completions
                  THEN Live \cap Completions \cap OfSession(s) ELSE {}
<1> USE TableIsLive, RequestsAreAddressed DEF TypeOK, Register, Goto
<1>1. s \in Sessions /\ old \subseteq Live
  OBVIOUS
<1>2. Unborn(r) /\ r \notin cancelled /\ r \notin Live \cup Spent
  BY DEF MayBegin, Arrives, Unborn, AirlockInv, FreshTokens, Live, Spent, InFlight, Over, Held
<1>3. Superseded(r) = {old}
  <2>1. active[s] \cap Completions = Live \cap Completions \cap OfSession(s)
    BY <1>1 DEF OfSession, Live
  <2>2. \A p, q \in active[s] \cap Completions : p = q
    BY <1>1 DEF AirlockInv, OneCompletionListed
  <2> DEFINE previous == active[s] \cap Completions
  <2>3. CASE r \in Completions /\ previous # {}
    <3>1. {{q} : q \in previous} = {previous}
      <4>1. PICK p \in previous : previous = {p}
        BY <2>2, <2>3
      <4> HIDE DEF previous
      <4>2. \A x : x \in {{q} : q \in previous} <=> x = {p}
        BY <4>1
      <4>3. QED BY <4>1, <4>2
    <3>2. Superseded(r) = {{q} : q \in previous}
      BY <2>3 DEF Superseded
    <3>3. old = previous
      BY <2>1, <2>3
    <3> HIDE DEF previous, old
    <3>4. QED BY <3>1, <3>2, <3>3
  <2>4. CASE r \notin Completions \/ previous = {}
    BY <2>1, <2>4 DEF Superseded
  <2>5. QED BY <2>3, <2>4
<1>4. /\ active' = [active EXCEPT ![s] = (@ \ old) \cup {r}]
      /\ cancelled' = cancelled \cup old
  BY <1>3
<1>5. \A q \in Requests \ {r} : pc'[q] = pc[q]
  OBVIOUS
<1>6. r \in Live' /\ r \notin Spent' /\ ~ Unborn(r)'
  BY <1>1, <1>2, <1>4 DEF Live, Spent, InFlight, Over, Unborn, Held
<1>7. \A q \in Requests \ {r} :
        /\ q \in Live' <=> q \in Live /\ q \notin old
        /\ q \in Spent' <=> q \in Spent \/ q \in old
  BY <1>1, <1>4, <1>5 DEF Live, Spent, InFlight, Over
<1>8. Live' = (Live \ old) \cup {r} /\ Spent' = Spent \cup old
  BY <1>1, <1>2, <1>6, <1>7 DEF Live, Spent
<1>9. FreshTokens'
  BY <1>1, <1>4, <1>5, <1>6 DEF AirlockInv, FreshTokens, Unborn, Live, InFlight, Held
<1>10. QED BY <1>2, <1>4, <1>8, <1>9

LEMMA RegisterInv ==
  ASSUME TypeOK, AirlockInv, NEW r \in Requests, Register(r)
  PROVE  AirlockInv'
<1> DEFINE s == SessionOf[r]
           old == IF r \in Completions
                  THEN Live \cap Completions \cap OfSession(s) ELSE {}
<1>1. /\ active' = [active EXCEPT ![s] = (@ \ old) \cup {r}]
      /\ Live' = (Live \ old) \cup {r}
      /\ FreshTokens'
      /\ old \subseteq OfSession(s)
      /\ s \in Sessions
  BY RegisterAdmits, RequestsAreAddressed DEF OfSession
<1>2. access' = access /\ access[s]
  BY DEF Register
<1>3. \A t \in Sessions \ {s} : active'[t] = active[t]
  BY <1>1 DEF TypeOK
<1>4. active'[s] = (active[s] \ old) \cup {r}
  BY <1>1 DEF TypeOK
<1>5. TableMatchesTokens'
  <2>1. \A t \in Sessions : active[t] = OfSession(t) \cap Live
    BY DEF AirlockInv, TableMatchesTokens, OfSession, Live
  <2>2. \A t \in Sessions : active'[t] = OfSession(t) \cap Live'
    BY <1>1, <1>3, <1>4, <2>1 DEF OfSession
  <2>3. QED BY <2>2 DEF TableMatchesTokens, OfSession, Live
<1>6. SealedTableIsEmpty'
  BY <1>2, <1>3 DEF AirlockInv, SealedTableIsEmpty
<1>7. OneCompletionListed'
  <2>1. ASSUME r \in Completions
        PROVE  active'[s] \cap Completions = {r}
    BY <1>4, <2>1, TableIsLive, <1>1 DEF OfSession, Live, Requests
  <2>2. ASSUME r \notin Completions
        PROVE  active'[s] \cap Completions = active[s] \cap Completions
    BY <1>4, <2>2
  <2>3. QED BY <1>3, <2>1, <2>2 DEF AirlockInv, OneCompletionListed
<1>8. QED BY <1>1, <1>5, <1>6, <1>7 DEF AirlockInv

\* Every step is quiet, releases, registers, seals or opens.
LEMMA StepKinds ==
  ASSUME TypeOK, AirlockInv, [Next]_vars
  PROVE  \/ Quiet
         \/ \E gone \in SUBSET Live : Releases(gone) /\ access' = access
         \/ \E r \in Requests : Register(r)
         \/ \E s \in Sessions : Seal(s) \/ Open(s)
<1>1. CASE UNCHANGED vars
  BY <1>1 DEF vars, store, task, Quiet, Live, Spent, InFlight, Over, Unborn
<1>2. ASSUME NEW r \in Requests, Abandon(r) \/ EndRequest(r) \/ Cancel(r)
      PROVE  \E gone \in SUBSET Live : Releases(gone) /\ access' = access
  <2>1. Releases({r}) /\ access' = access
    BY <1>2, ReleaseOne DEF Abandon, EndRequest, Cancel
  <2>2. Releases({r} \cap Live)
    <3>1. active' = [s \in Sessions |-> active[s] \ ({r} \cap Live)]
      BY <2>1, TableIsLive DEF Releases, TypeOK
    <3>2. QED BY <2>1, <3>1 DEF Releases
  <2>3. QED BY <2>1, <2>2
<1>3. ASSUME NEW c \in Conns, DropRoutes(c)
      PROVE  \E gone \in SUBSET Live : Releases(gone) /\ access' = access
  BY <1>3, DropRoutesReleases DEF DropRoutes
<1>4. ASSUME NEW sessions \in SUBSET Sessions, NEW kinds \in SUBSET Requests,
             Erase(sessions, kinds)
      PROVE  \E gone \in SUBSET Live : Releases(gone) /\ access' = access
  BY <1>4, EraseReleases DEF Erase
<1>5. ASSUME NEW c \in Conns, Hangup(c)
      PROVE  Quiet
  BY <1>5 DEF Hangup, store, task, Quiet, Live, Spent, InFlight, Over, Unborn
<1>6. ChatKind \in SUBSET Requests
  OBVIOUS
<1> HIDE DEF Requests, ChatKind
<1>7. QED
  BY <1>1, <1>2, <1>3, <1>4, <1>5, <1>6, QuietSteps
  DEF Next, Dispatch, ClearSession, ClearChatHistory, ClearAllTransient

LEMMA AirlockStep ==
  ASSUME TypeOK, AirlockInv, [Next]_vars
  PROVE  AirlockInv'
<1>1. CASE Quiet
  BY <1>1, QuietInv
<1>2. ASSUME NEW gone \in SUBSET Live, Releases(gone), access' = access
      PROVE  AirlockInv'
  BY <1>2, ReleaseInv
<1>3. ASSUME NEW r \in Requests, Register(r)
      PROVE  AirlockInv'
  BY <1>3, RegisterInv
<1>4. ASSUME NEW s \in Sessions, Seal(s)
      PROVE  AirlockInv'
  <2>1. \A t \in Sessions : access'[t] = access[t] \/ active'[t] = {}
    BY <1>4 DEF Seal, TypeOK
  <2>2. QED BY <1>4, <2>1, SealReleases, ReleaseInv
<1>5. ASSUME NEW s \in Sessions, Open(s)
      PROVE  AirlockInv'
  <2>1. \A t \in Sessions : access'[t] = access[t] \/ access'[t]
    BY <1>5 DEF Open, TypeOK
  <2>2. UNCHANGED <<active, cancelled, pc>>
    BY <1>5 DEF Open, task
  <2>3. QED
    BY <2>1, <2>2
    DEF AirlockInv, TableMatchesTokens, FreshTokens, SealedTableIsEmpty,
        OneCompletionListed, InFlight, Unborn
<1>6. QED BY <1>1, <1>2, <1>3, <1>4, <1>5, StepKinds

LEMMA AirlockInit == Init => AirlockInv
BY DEF Init, AirlockInv, TableMatchesTokens, FreshTokens, SealedTableIsEmpty,
       OneCompletionListed, OfSession, InFlight, Held

\* The inductive invariant holds in every reachable state.
THEOREM AirlockIsKept == Spec => [](TypeOK /\ AirlockInv)
<1>1. TypeOK /\ OutcomeDecided /\ AirlockInv /\ [Next]_vars => AirlockInv'
  BY AirlockStep
<1>2. QED BY <1>1, AirlockInit, TypesAreKept, PTL DEF Spec

\* Table and tokens agree.
THEOREM TableMatches == Spec => []TableMatchesTokens
BY AirlockIsKept, PTL DEF AirlockInv

\* No request of a sealed session is under way with a live token.
THEOREM SealedSessionIsQuiet == Spec => []SealedIsQuiet
<1>1. TypeOK /\ AirlockInv => SealedIsQuiet
  BY TableIsLive, RequestsAreAddressed
  DEF AirlockInv, SealedTableIsEmpty, SealedIsQuiet, Live
<1>2. QED BY <1>1, AirlockIsKept, PTL

\* A session has at most one completion under way with a live token.
THEOREM AtMostOneCompletion == Spec => []OneLiveCompletion
<1>1. TypeOK /\ AirlockInv => OneLiveCompletion
  BY TableIsLive, RequestsAreAddressed
  DEF AirlockInv, OneCompletionListed, OneLiveCompletion, Live
<1>2. QED BY <1>1, AirlockIsKept, PTL

\* Every behaviour of the daemon is one the airlock's promise allows.
THEOREM DaemonKeepsTheBoundary == Spec => KeepsTheBoundary
<1> USE DEF Boundary!boundary
<1>1. Init => Boundary!Init
  BY DEF Init, Boundary!Init, Live, Spent, InFlight, Over, Held
<1>2. TypeOK /\ AirlockInv /\ [Next]_vars => [Boundary!Next]_(Boundary!boundary)
  <2> SUFFICES ASSUME TypeOK, AirlockInv, [Next]_vars
               PROVE  Boundary!Next \/ UNCHANGED Boundary!boundary
    OBVIOUS
  <2>1. CASE Quiet
    BY <2>1 DEF Quiet
  <2>2. ASSUME NEW gone \in SUBSET Live, Releases(gone), access' = access
        PROVE  Boundary!LetGo
    BY <2>2 DEF Releases, Boundary!LetGo, Boundary!Release
  <2>3. ASSUME NEW r \in Requests, Register(r)
        PROVE  Boundary!Admit(r)
    BY <2>3, RegisterAdmits DEF Boundary!Admit, Boundary!Displaced, Boundary!OfSession, OfSession, Register
  <2>4. ASSUME NEW s \in Sessions, Seal(s)
        PROVE  Boundary!Seal(s)
    BY <2>4, SealReleases DEF Boundary!Seal, Boundary!Release, Boundary!OfSession, OfSession,
                              Releases, Seal
  <2>5. ASSUME NEW s \in Sessions, Open(s)
        PROVE  Boundary!Reopen(s)
    BY <2>5 DEF Open, Boundary!Reopen, Live, Spent, InFlight, Over, task
  <2>6. QED BY <2>1, <2>2, <2>3, <2>4, <2>5, StepKinds DEF Boundary!Next
<1>3. QED
  BY <1>1, <1>2, AirlockIsKept, PTL DEF Spec, KeepsTheBoundary, Boundary!Spec

-----------------------------------------------------------------------------
(* What a request leaves behind.  Its Privacy Receipt is the outcome it had  *)
(* when its client was answered; nothing is left of one that was turned      *)
(* away, that is over, or whose connection is gone.                          *)
(*                                                                           *)
(* What holds once a request is over rests on where its traces can begin: a  *)
(* receipt on the outcome no step changes after it, a route on the phases    *)
(* between its recording and its removal.  That the loss of a connection     *)
(* cancels what it started rests on its frames being dispatched one at a     *)
(* time, and on a route being dropped early only for a cancelled request.    *)

Receipted == {"reported", "closing", "ended", "done"}

ReceiptInv ==
  \A r \in Requests :
    /\ receipts[r] = IF pc[r] \in Receipted THEN <<outcome[r]>> ELSE <<>>
    /\ outcome[r] = "cancelled" => r \in cancelled
    /\ "answer" \in events[r] => outcome[r] = "succeeded" /\ pc[r] \in Receipted \cup {"responded"}

InDispatch(r) == pc[r] \in {"captured", "begun", "checked", "routed"}

\* Where the traces of a request can be.
TraceInv ==
  /\ \A r \in origins : pc[r] \in (Held \ {"begun", "checked"}) \cup {"ended"}
  /\ \A s \in Sessions : \A e \in chat[s] :
       ~ InDispatch(e[1]) /\ pc[e[1]] \notin {"idle", "rejected", "abandoned"}

\* What the announcer works on is cancelled.
AnnouncedInv == unannounced \cup announced \subseteq cancelled

\* A completion or chat is dispatched on a live connection; from then on it is routed as
\* long as it has a live token, and its route goes with the connection.
RouteInv ==
  \A r \in Requests \ Analyses :
    /\ InDispatch(r) => conn[OriginOf[r]] = "up"
    /\ InFlight(r) /\ pc[r] \notin {"begun", "checked"} /\ r \notin cancelled => r \in origins
    /\ r \in origins => conn[OriginOf[r]] # "closed"

TracesInv == ReceiptInv /\ TraceInv /\ AnnouncedInv /\ RouteInv

USE DEF Requests, ChatKind

LEMMA TracesInit == Init => TracesInv
BY RequestsAreAddressed
DEF Init, TracesInv, ReceiptInv, TraceInv, AnnouncedInv, RouteInv, InDispatch, InFlight, Held,
    Receipted

-----------------------------------------------------------------------------
(* Receipts                                                                *)

\* A step that leaves phases, outcomes and receipts alone, answers nobody and keeps what
\* is cancelled.
LEMMA ReceiptsUntouched ==
  ASSUME TypeOK, ReceiptInv, UNCHANGED <<pc, outcome, receipts>>, cancelled \subseteq cancelled',
         \A q \in Requests : "answer" \in events'[q] => "answer" \in events[q]
  PROVE  ReceiptInv'
BY DEF ReceiptInv

\* A step of request r alone.
LEMMA ReceiptsOfOne ==
  ASSUME TypeOK, ReceiptInv, NEW r \in Requests, cancelled \subseteq cancelled',
         \A q \in Requests \ {r} : /\ pc'[q] = pc[q] /\ outcome'[q] = outcome[q]
                                   /\ receipts'[q] = receipts[q] /\ events'[q] = events[q],
         receipts'[r] = IF pc'[r] \in Receipted THEN <<outcome'[r]>> ELSE <<>>,
         outcome'[r] = "cancelled" => r \in cancelled',
         "answer" \in events'[r] =>
           outcome'[r] = "succeeded" /\ pc'[r] \in Receipted \cup {"responded"}
  PROVE  ReceiptInv'
BY DEF ReceiptInv

LEMMA ReceiptsStep ==
  ASSUME TypeOK, ReceiptInv, [Next]_vars
  PROVE  ReceiptInv'
<1> USE RequestsAreAddressed DEF TypeOK, store, wire, task, Goto, Send
<1>1. ASSUME NEW r \in Requests, Capture(r) \/ Dispatch(r)
      PROVE  ReceiptInv'
  <2> USE DEF ReceiptInv, Receipted
  <2>1. CASE Capture(r)
    BY <2>1 DEF Capture, Arrives
  <2>2. CASE Register(r)
    <3>1. /\ pc' = [pc EXCEPT ![r] = "begun"] /\ pc[r] \in {"idle", "captured"}
          /\ cancelled \subseteq cancelled' /\ UNCHANGED <<outcome, events, receipts>>
      BY <2>2 DEF Register, MayBegin, Arrives
    <3>2. QED BY <3>1
  <2>3. CASE Refuse(r)
    BY <2>3 DEF Refuse, MayBegin, Arrives
  <2>4. CASE FindOrigin(r) \/ RecordOrigin(r)
    BY <2>4 DEF FindOrigin, RecordOrigin
  <2>5. CASE Abandon(r)
    BY <2>5 DEF Abandon
  <2>6. CASE RetainQuestion(r)
    <3>1. /\ pc' = [pc EXCEPT ![r] = "provider"] /\ pc[r] = "routed"
          /\ UNCHANGED <<cancelled, outcome, receipts>>
          /\ \A q \in Requests : "answer" \in events'[q] => "answer" \in events[q]
      BY <2>6 DEF RetainQuestion
    <3>2. QED BY <3>1
  <2>7. QED BY <1>1, <2>1, <2>2, <2>3, <2>4, <2>5, <2>6 DEF Dispatch
<1>2. ASSUME NEW r \in Requests, Attempt(r)
      PROVE  ReceiptInv'
  <2> USE DEF ReceiptInv, Receipted
  <2>1. CASE Settle(r)
    <3>1. /\ pc[r] = "provider" /\ UNCHANGED <<cancelled, events, receipts>>
          /\ pc'[r] \in {"answered", "settled"}
          /\ outcome'[r] = "cancelled" => r \in cancelled
          /\ \A q \in Requests \ {r} : pc'[q] = pc[q] /\ outcome'[q] = outcome[q]
      BY <2>1 DEF Settle
    <3>2. QED BY <3>1
  <2>2. CASE OpenStream(r) \/ RetainAnswer(r)
    BY <2>2 DEF OpenStream, RetainAnswer
  <2>3. CASE StreamRefused(r)
    BY <2>3 DEF StreamRefused
  <2>4. CASE ReportRefusal(r)
    BY <2>4 DEF ReportRefusal
  <2>5. CASE Delta(r)
    BY <2>5, ReceiptsUntouched DEF Delta
  <2>6. CASE EndStream(r)
    BY <2>6 DEF EndStream
  <2>7. CASE Respond(r)
    BY <2>7 DEF Respond
  <2>8. CASE FinishStream(r)
    <3>1. /\ pc' = [pc EXCEPT ![r] = "finished"] /\ pc[r] = "settled"
          /\ UNCHANGED <<cancelled, outcome, receipts>>
          /\ \/ UNCHANGED events
             \/ \E reply \in {"failed", "done"} : Send(r, reply)
      BY <2>8 DEF FinishStream
    <3>2. \A q \in Requests : "answer" \in events'[q] => "answer" \in events[q]
      BY <3>1
    <3>3. QED BY <3>1, <3>2
  <2>9. CASE DecideStream(r)
    BY <2>9 DEF DecideStream
  <2>10. CASE PublishReceipt(r)
    <3>1. /\ pc[r] \in {"settled", "responded"} /\ pc'[r] \in {"reported", "closing"}
          /\ receipts'[r] = Append(receipts[r], outcome[r])
          /\ UNCHANGED <<cancelled, outcome, events>>
          /\ \A q \in Requests \ {r} : pc'[q] = pc[q] /\ receipts'[q] = receipts[q]
      BY <2>10 DEF PublishReceipt
    <3>2. receipts'[r] = <<outcome'[r]>>
      <4>1. receipts[r] = <<>>
        BY <3>1
      <4>2. Append(<<>>, outcome[r]) = <<outcome[r]>>
        OBVIOUS
      <4>3. QED BY <3>1, <4>1, <4>2
    <3>3. "answer" \in events[r] => outcome[r] = "succeeded"
      OBVIOUS
    <3>4. QED BY <3>1, <3>2, <3>3
  <2>11. CASE Hint(r)
    BY <2>11 DEF Hint
  <2>12. CASE EndRequest(r) \/ Unroute(r)
    BY <2>12 DEF EndRequest, Unroute
  <2>13. QED
    BY <1>2, <2>1, <2>2, <2>3, <2>4, <2>5, <2>6, <2>7, <2>8, <2>9, <2>10, <2>11, <2>12
    DEF Attempt
<1>3. ASSUME NEW r \in Requests, Cancel(r) \/ Announce(r) \/ Forget(r)
      PROVE  ReceiptInv'
  BY <1>3, ReceiptsUntouched DEF Cancel, Announce, Forget
<1>4. ASSUME NEW s \in Sessions, Seal(s) \/ Open(s)
      PROVE  ReceiptInv'
  BY <1>4, ReceiptsUntouched DEF Seal, Open
<1>5. ASSUME NEW sessions, NEW kinds, Erase(sessions, kinds)
      PROVE  ReceiptInv'
  BY <1>5, ReceiptsUntouched DEF Erase
<1>6. ASSUME NEW c \in Conns, Hangup(c) \/ DropRoutes(c)
      PROVE  ReceiptInv'
  BY <1>6, ReceiptsUntouched DEF Hangup, DropRoutes
<1>7. CASE UNCHANGED vars
  BY <1>7, ReceiptsUntouched DEF vars
<1>8. QED
  BY <1>1, <1>2, <1>3, <1>4, <1>5, <1>6, <1>7
  DEF Next, ClearSession, ClearChatHistory, ClearAllTransient

-----------------------------------------------------------------------------
(* Traces                                                                  *)

\* A step that leaves the phases alone and neither routes nor retains anything.
LEMMA TracesUntouched ==
  ASSUME TypeOK, TraceInv, pc' = pc, origins' \subseteq origins,
         \A s \in Sessions : chat'[s] \subseteq chat[s]
  PROVE  TraceInv'
BY DEF TraceInv, InDispatch

\* Request r moves on to a phase in which it may have the traces it has.
LEMMA TracesOfOne ==
  ASSUME TypeOK, TraceInv, NEW r \in Requests, NEW phase, Goto(r, phase),
         r \in origins' => phase \in (Held \ {"begun", "checked"}) \cup {"ended"},
         origins' \subseteq origins \cup {r},
         \A s \in Sessions : \A e \in chat'[s] : e \in chat[s] \/ e[1] = r,
         \/ phase \notin {"idle", "captured", "begun", "checked", "routed", "rejected", "abandoned"}
         \/ pc[r] \in {"idle", "captured", "begun", "checked", "routed"} /\ chat' = chat
  PROVE  TraceInv'
<1>1. \A q \in Requests \ {r} : pc'[q] = pc[q]
  BY DEF TypeOK, Goto
<1>2. pc'[r] = phase
  BY DEF TypeOK, Goto
<1>3. \A q \in origins' : pc'[q] \in (Held \ {"begun", "checked"}) \cup {"ended"}
  BY <1>1, <1>2 DEF TraceInv, TypeOK
<1>4. ASSUME NEW s \in Sessions, NEW e \in chat'[s]
      PROVE  ~ InDispatch(e[1])' /\ pc'[e[1]] \notin {"idle", "rejected", "abandoned"}
  <2>1. CASE e[1] = r
    BY <1>2, <1>4, <2>1 DEF TraceInv, InDispatch
  <2>2. CASE e[1] # r
    <3>1. e \in chat[s] /\ e[1] \in Requests
      BY <1>4, <2>2 DEF TypeOK
    <3>2. QED BY <1>1, <2>2, <3>1 DEF TraceInv, InDispatch
  <2>3. QED BY <2>1, <2>2
<1>5. QED BY <1>3, <1>4 DEF TraceInv

LEMMA TracesStep ==
  ASSUME TypeOK, TraceInv, [Next]_vars
  PROVE  TraceInv'
<1> USE RequestsAreAddressed DEF store, wire, task
<1>1. ASSUME NEW r \in Requests, Capture(r) \/ Dispatch(r)
      PROVE  TraceInv'
  <2>1. CASE Capture(r) \/ Register(r) \/ Refuse(r)
    <3>1. /\ \E phase \in {"captured", "begun", "rejected"} : Goto(r, phase)
          /\ pc[r] \in {"idle", "captured"}
          /\ UNCHANGED <<origins, chat>>
      BY <2>1 DEF Capture, Register, Refuse, MayBegin, Arrives
    <3>2. r \notin origins
      BY <3>1 DEF TraceInv, Held
    <3>3. QED BY <3>1, <3>2, TracesOfOne
  <2>2. CASE FindOrigin(r) \/ Abandon(r)
    <3>1. /\ \E phase \in {"checked", "abandoned"} : Goto(r, phase)
          /\ pc[r] = "begun"
          /\ UNCHANGED <<origins, chat>>
      BY <2>2 DEF FindOrigin, Abandon
    <3>2. r \notin origins
      BY <3>1 DEF TraceInv, Held
    <3>3. QED BY <3>1, <3>2, TracesOfOne
  <2>3. CASE RecordOrigin(r)
    <3>1. /\ \E phase \in {"routed", "provider"} : Goto(r, phase)
          /\ pc[r] = "checked" /\ origins' = origins \cup {r} /\ chat' = chat
      BY <2>3 DEF RecordOrigin
    <3>2. QED BY <3>1, TracesOfOne DEF Held
  <2>4. CASE RetainQuestion(r)
    <3>1. /\ Goto(r, "provider") /\ origins' = origins
          /\ chat' = [chat EXCEPT ![SessionOf[r]] = @ \cup {<<r, "user">>}]
      BY <2>4 DEF RetainQuestion
    <3>2. \A s \in Sessions : \A e \in chat'[s] : e \in chat[s] \/ e[1] = r
      BY <3>1 DEF TypeOK
    <3>3. QED BY <3>1, <3>2, TracesOfOne DEF Held
  <2>5. QED BY <1>1, <2>1, <2>2, <2>3, <2>4 DEF Dispatch
<1>2. ASSUME NEW r \in Requests, Attempt(r)
      PROVE  TraceInv'
  <2>1. CASE RetainAnswer(r)
    <3>1. /\ Goto(r, "settled") /\ origins' = origins
          /\ chat' = [chat EXCEPT ![SessionOf[r]] = @ \cup {<<r, "coach">>}]
      BY <2>1 DEF RetainAnswer
    <3>2. \A s \in Sessions : \A e \in chat'[s] : e \in chat[s] \/ e[1] = r
      BY <3>1 DEF TypeOK
    <3>3. QED BY <3>1, <3>2, TracesOfOne DEF Held
  <2>2. CASE Delta(r)
    BY <2>2, TracesUntouched DEF Delta
  <2>3. CASE Unroute(r)
    <3>1. Goto(r, "done") /\ origins' = origins \ {r} /\ chat' = chat
      BY <2>3 DEF Unroute
    <3>2. QED BY <3>1, TracesOfOne
  <2>4. CASE ~ (RetainAnswer(r) \/ Delta(r) \/ Unroute(r))
    <3>1. \E phase \in {"settled", "answered", "streaming", "refused", "responded", "finished",
                        "reported", "closing", "ended"} :
            Goto(r, phase)
      BY <1>2, <2>4 DEF Attempt, Settle, OpenStream, StreamRefused, ReportRefusal, EndStream,
         Respond, FinishStream, DecideStream, PublishReceipt, Hint, EndRequest
    <3>2. UNCHANGED <<origins, chat>>
      BY <1>2, <2>4 DEF Attempt, Settle, OpenStream, StreamRefused, ReportRefusal, EndStream,
         Respond, FinishStream, DecideStream, PublishReceipt, Hint, EndRequest
    <3>3. QED BY <3>1, <3>2, TracesOfOne DEF Held
  <2>5. QED BY <2>1, <2>2, <2>3, <2>4
<1>3. ASSUME NEW r \in Requests, Cancel(r) \/ Announce(r) \/ Forget(r)
      PROVE  TraceInv'
  BY <1>3, TracesUntouched DEF Cancel, Announce, Forget
<1>4. ASSUME NEW s \in Sessions, Seal(s) \/ Open(s)
      PROVE  TraceInv'
  BY <1>4, TracesUntouched DEF Seal, Open
<1>5. ASSUME NEW sessions, NEW kinds, Erase(sessions, kinds)
      PROVE  TraceInv'
  BY <1>5, TracesUntouched DEF Erase
<1>6. ASSUME NEW c \in Conns, Hangup(c) \/ DropRoutes(c)
      PROVE  TraceInv'
  BY <1>6, TracesUntouched DEF Hangup, DropRoutes
<1>7. CASE UNCHANGED vars
  BY <1>7, TracesUntouched DEF vars
<1>8. QED
  BY <1>1, <1>2, <1>3, <1>4, <1>5, <1>6, <1>7
  DEF Next, ClearSession, ClearChatHistory, ClearAllTransient

-----------------------------------------------------------------------------
(* Routes                                                                  *)

LEMMA AnnouncedStep ==
  ASSUME TypeOK, AirlockInv, AnnouncedInv, [Next]_vars
  PROVE  AnnouncedInv'
<1> USE RequestsAreAddressed DEF TypeOK, AnnouncedInv, store, wire, task
<1>1. ASSUME NEW r \in Requests, Capture(r) \/ Dispatch(r)
      PROVE  AnnouncedInv'
  BY <1>1 DEF Dispatch, Capture, Register, Refuse, FindOrigin, Abandon, RecordOrigin,
              RetainQuestion
<1>2. ASSUME NEW r \in Requests, Attempt(r)
      PROVE  AnnouncedInv'
  BY <1>2 DEF Attempt, Settle, OpenStream, StreamRefused, ReportRefusal, Delta, EndStream,
     RetainAnswer, Respond, FinishStream, DecideStream, PublishReceipt, Hint, EndRequest, Unroute
<1>3. ASSUME NEW r \in Requests, Cancel(r) \/ Announce(r) \/ Forget(r)
      PROVE  AnnouncedInv'
  BY <1>3 DEF Cancel, Announce, Forget
<1>4. ASSUME NEW s \in Sessions, Seal(s) \/ Open(s)
      PROVE  AnnouncedInv'
  BY <1>4 DEF Seal, Open
<1>5. ASSUME NEW sessions, NEW kinds, Erase(sessions, kinds)
      PROVE  AnnouncedInv'
  BY <1>5 DEF Erase
<1>6. ASSUME NEW c \in Conns, Hangup(c) \/ DropRoutes(c)
      PROVE  AnnouncedInv'
  BY <1>6 DEF Hangup, DropRoutes
<1>7. CASE UNCHANGED vars
  BY <1>7 DEF vars
<1>8. QED
  BY <1>1, <1>2, <1>3, <1>4, <1>5, <1>6, <1>7
  DEF Next, ClearSession, ClearChatHistory, ClearAllTransient

\* A step that leaves phases, routes and connections alone and keeps what is cancelled.
LEMMA RoutesUntouched ==
  ASSUME TypeOK, RouteInv, UNCHANGED <<pc, origins, conn>>, cancelled \subseteq cancelled'
  PROVE  RouteInv'
BY DEF RouteInv, InDispatch, InFlight

\* Request r moves on.
LEMMA RoutesOfOne ==
  ASSUME TypeOK, RouteInv, NEW r \in Requests, NEW phase, Goto(r, phase),
         conn' = conn, cancelled \subseteq cancelled',
         \A q \in Requests \ {r} : q \in origins' <=> q \in origins,
         r \notin Analyses =>
           /\ phase \in {"captured", "begun", "checked", "routed"} => conn[OriginOf[r]] = "up"
           /\ phase \in Held \ {"begun", "checked"} /\ r \notin cancelled => r \in origins'
           /\ r \in origins' => conn[OriginOf[r]] # "closed"
  PROVE  RouteInv'
<1>1. pc' = [pc EXCEPT ![r] = phase]
  BY DEF Goto
<1>2. \A q \in Requests \ {r} : pc'[q] = pc[q]
  BY <1>1 DEF TypeOK
<1>3. pc'[r] = phase
  BY <1>1 DEF TypeOK
<1>4. QED BY <1>2, <1>3 DEF RouteInv, InDispatch, InFlight

LEMMA RoutesStep ==
  ASSUME TypeOK, AirlockInv, AnnouncedInv, RouteInv, [Next]_vars
  PROVE  RouteInv'
<1> USE RequestsAreAddressed DEF store, wire, task
<1>1. ASSUME NEW r \in Requests, Capture(r) \/ Register(r)
      PROVE  RouteInv'
  <2>1. /\ \E phase \in {"captured", "begun"} : Goto(r, phase)
        /\ conn' = conn /\ origins' = origins /\ cancelled \subseteq cancelled'
    BY <1>1 DEF Capture, Register
  <2>2. r \notin Analyses =>
          conn[OriginOf[r]] = "up"
    BY <1>1 DEF Capture, Register, MayBegin, Arrives, RouteInv, InDispatch
  <2>3. ASSUME NEW phase \in {"captured", "begun"}, Goto(r, phase)
        PROVE  RouteInv'
    BY <2>1, <2>2, <2>3, RoutesOfOne DEF Held
  <2>4. QED BY <2>1, <2>3
<1>2. ASSUME NEW r \in Requests, Refuse(r) \/ FindOrigin(r) \/ Abandon(r) \/ RecordOrigin(r)
      PROVE  RouteInv'
  <2>1. CASE Refuse(r) \/ Abandon(r)
    <3>1. /\ \E phase \in {"rejected", "abandoned"} : Goto(r, phase)
          /\ conn' = conn /\ origins' = origins /\ cancelled \subseteq cancelled'
      BY <2>1 DEF Refuse, Abandon
    <3>2. r \notin Analyses /\ r \in origins => conn[OriginOf[r]] # "closed"
      BY DEF RouteInv
    <3>3. QED BY <3>1, <3>2, RoutesOfOne DEF Held
  <2>2. CASE FindOrigin(r)
    <3>1. /\ Goto(r, "checked") /\ conn[OriginOf[r]] = "up"
          /\ conn' = conn /\ origins' = origins /\ cancelled' = cancelled
      BY <2>2 DEF FindOrigin
    <3>2. QED BY <3>1, RoutesOfOne DEF Held
  <2>3. CASE RecordOrigin(r)
    <3>1. /\ \E phase \in {"routed", "provider"} : Goto(r, phase)
          /\ pc[r] = "checked" /\ conn' = conn /\ origins' = origins \cup {r}
          /\ cancelled' = cancelled
      BY <2>3 DEF RecordOrigin
    <3>2. r \notin Analyses => conn[OriginOf[r]] = "up"
      BY <3>1 DEF RouteInv, InDispatch
    <3>3. QED BY <3>1, <3>2, RoutesOfOne DEF Held
  <2>4. QED BY <1>2, <2>1, <2>2, <2>3
\* Every later phase but the last follows one in which a live request is routed.
<1>3. ASSUME NEW r \in Requests, RetainQuestion(r) \/ Attempt(r)
      PROVE  RouteInv'
  <2>1. CASE Delta(r)
    BY <2>1, RoutesUntouched DEF Delta
  <2>2. CASE Unroute(r)
    <3>1. /\ Goto(r, "done") /\ origins' = origins \ {r} /\ conn' = conn
          /\ cancelled' = cancelled
      BY <2>2 DEF Unroute
    <3>2. QED BY <3>1, RoutesOfOne DEF Held
  <2>3. CASE ~ (Delta(r) \/ Unroute(r))
    <3>1. /\ \E phase \in {"provider", "settled", "answered", "streaming", "refused", "responded",
                           "finished", "reported", "closing", "ended"} : Goto(r, phase)
          /\ conn' = conn /\ origins' = origins
      BY <1>3, <2>3 DEF Attempt, Settle, OpenStream, StreamRefused, ReportRefusal, EndStream,
         RetainAnswer, RetainQuestion, Respond, FinishStream, DecideStream, PublishReceipt,
         Hint, EndRequest
    <3>2. /\ cancelled' = cancelled
          /\ pc[r] \in Held \ {"begun", "checked"}
      BY <1>3, <2>3 DEF Attempt, Settle, OpenStream, StreamRefused, ReportRefusal, EndStream,
         RetainAnswer, RetainQuestion, Respond, FinishStream, DecideStream, PublishReceipt,
         Hint, EndRequest, Held
    <3>3. r \notin Analyses =>
            /\ r \notin cancelled => r \in origins
            /\ r \in origins => conn[OriginOf[r]] # "closed"
      BY <3>2 DEF RouteInv, InFlight
    <3>4. QED BY <3>1, <3>2, <3>3, RoutesOfOne
  <2>4. QED BY <2>1, <2>2, <2>3
<1>4. ASSUME NEW r \in Requests, Cancel(r) \/ Announce(r)
      PROVE  RouteInv'
  BY <1>4, RoutesUntouched DEF Cancel, Announce
<1>5. ASSUME NEW r \in Requests, Forget(r)
      PROVE  RouteInv'
  <2>1. /\ origins' = origins \ {r} /\ r \in cancelled
        /\ UNCHANGED <<pc, cancelled, conn>>
    BY <1>5 DEF Forget, AnnouncedInv
  <2>2. QED BY <2>1 DEF RouteInv, InDispatch, InFlight
<1>6. ASSUME NEW s \in Sessions, Seal(s) \/ Open(s)
      PROVE  RouteInv'
  BY <1>6, RoutesUntouched DEF Seal, Open
<1>7. ASSUME NEW sessions, NEW kinds, Erase(sessions, kinds)
      PROVE  RouteInv'
  BY <1>7, RoutesUntouched DEF Erase
\* A connection that is dispatching does not end.
<1>8. ASSUME NEW c \in Conns, Hangup(c)
      PROVE  RouteInv'
  <2>1. /\ conn' = [conn EXCEPT ![c] = "unmapped"] /\ conn[c] = "up"
        /\ UNCHANGED <<pc, origins, cancelled>>
    BY <1>8 DEF Hangup
  <2>2. \A r \in Requests \ Analyses : InDispatch(r) => OriginOf[r] # c
    BY <1>8 DEF Hangup, Dispatching, InDispatch
  <2>3. QED BY <2>1, <2>2 DEF RouteInv, InDispatch, InFlight, TypeOK
\* What is still live and routed over it is cancelled with its route.
<1>9. ASSUME NEW c \in Conns, DropRoutes(c)
      PROVE  RouteInv'
  <2> DEFINE lost == {r \in origins : OriginOf[r] = c /\ r \in active[SessionOf[r]]}
  <2>1. /\ conn' = [conn EXCEPT ![c] = "closed"] /\ conn[c] = "unmapped" /\ pc' = pc
        /\ origins' = {r \in origins : OriginOf[r] # c} /\ cancelled' = cancelled \cup lost
    BY <1>9 DEF DropRoutes
  <2>2. \A r \in Requests \ Analyses : InDispatch(r) => OriginOf[r] # c
    BY <2>1 DEF RouteInv
  <2>3. \A r \in origins : OriginOf[r] = c /\ InFlight(r) => r \in cancelled'
    BY <2>1, TableIsLive DEF Live, TypeOK
  <2>4. QED BY <2>1, <2>2, <2>3 DEF RouteInv, InDispatch, InFlight, TypeOK
<1>10. CASE UNCHANGED vars
  BY <1>10, RoutesUntouched DEF vars
<1>11. QED
  BY <1>1, <1>2, <1>3, <1>4, <1>5, <1>6, <1>7, <1>8, <1>9, <1>10
  DEF Next, Dispatch, ClearSession, ClearChatHistory, ClearAllTransient

-----------------------------------------------------------------------------
(* Theorems                                                                *)

\* The inductive invariant holds in every reachable state.
THEOREM TracesAreKept == Spec => []TracesInv
<1>1. TypeOK /\ AirlockInv /\ TracesInv /\ [Next]_vars => TracesInv'
  BY ReceiptsStep, TracesStep, AnnouncedStep, RoutesStep DEF TracesInv
<1>2. QED BY <1>1, TracesInit, AirlockIsKept, PTL DEF Spec

\* A request that reached the provider, and no other, has one Privacy Receipt when it is
\* over, and one that says "cancelled" is of a cancelled request whose client was given no
\* answer (PublishReceipt, spawn_completion and their siblings in server.rs).
THEOREM ReceiptsAreTrue == Spec => []ReceiptsTellTheTruth
<1>1. TypeOK /\ TracesInv => ReceiptsTellTheTruth
  <2> SUFFICES ASSUME TypeOK, TracesInv, NEW r \in Requests, pc[r] \in Finished
               PROVE  /\ Len(receipts[r]) = IF pc[r] = "done" THEN 1 ELSE 0
                      /\ pc[r] = "done" /\ receipts[r][1] = "cancelled" =>
                           r \in cancelled /\ "answer" \notin events[r]
    BY DEF ReceiptsTellTheTruth
  <2>1. receipts[r] = IF pc[r] = "done" THEN <<outcome[r]>> ELSE <<>>
    BY DEF TracesInv, ReceiptInv, Receipted, Finished
  <2>2. receipts[r][1] = "cancelled" /\ pc[r] = "done" => outcome[r] = "cancelled"
    BY <2>1
  <2>3. Len(receipts[r]) = IF pc[r] = "done" THEN 1 ELSE 0
    BY <2>1
  <2>4. QED BY <2>2, <2>3 DEF TracesInv, ReceiptInv
<1>2. QED BY <1>1, TracesAreKept, TypesAreKept, PTL

\* Nothing is left of a request the airlock turned away, no route of a finished one, and no
\* live completion or chat of a connection that has been cleaned up.
THEOREM NoTracesAreLeft == Spec => []NothingIsLeftOver
<1>1. TypeOK /\ AirlockInv /\ TracesInv => RefusalLeavesNoTrace
  <2> SUFFICES ASSUME TypeOK, AirlockInv, TracesInv, NEW r \in Requests, pc[r] = "rejected"
               PROVE  /\ receipts[r] = <<>>
                      /\ r \notin origins
                      /\ \A s \in Sessions : r \notin active[s] /\ \A e \in chat[s] : e[1] # r
    BY DEF RefusalLeavesNoTrace
  <2>1. receipts[r] = <<>>
    BY DEF TracesInv, ReceiptInv, Receipted
  <2>2. r \notin origins
    BY DEF TracesInv, TraceInv, Held
  <2>3. \A s \in Sessions : r \notin active[s]
    BY DEF AirlockInv, TableMatchesTokens, OfSession, InFlight, Held
  <2>4. \A s \in Sessions : \A e \in chat[s] : e[1] # r
    BY DEF TracesInv, TraceInv
  <2> QED BY <2>1, <2>2, <2>3, <2>4
<1>2. TracesInv => NoStaleRoute
  BY DEF TracesInv, TraceInv, NoStaleRoute, Held, Finished
<1>3. TracesInv => HangupStopsRequests
  BY KindsAreDisjoint DEF TracesInv, RouteInv, HangupStopsRequests, InDispatch
<1>4. QED
  BY <1>1, <1>2, <1>3, TracesAreKept, AirlockIsKept, PTL DEF NothingIsLeftOver

-----------------------------------------------------------------------------
\* A step of the tasks, their clients or their queues is a step of ProviderRequests or none.
LEMMA FlowStep ==
  ASSUME FlowNext
  PROVE  [Next]_vars
<1>1. ASSUME NEW r \in Requests, Step(r) \/ Forward(r)
      PROVE  Capture(r) \/ Dispatch(r) \/ Attempt(r)
  BY <1>1 DEF Step, Forward, Silent, Supersede, WriteToOrigin, SettleCompletion, WriteToHearers,
              HintNothing, WriteToWindows, Dispatch, Attempt
<1>2. ASSUME NEW r \in Requests, Queue(r) \/ Tell(r)
      PROVE  UNCHANGED vars
  BY <1>2 DEF Queue, Tell
<1>3. ASSUME NEW r \in Requests, BeginTelling(r) \/ ForgetTold(r) \/ Cancel(r)
      PROVE  Announce(r) \/ Forget(r) \/ Cancel(r)
  BY <1>3 DEF BeginTelling, ForgetTold
<1>4. ASSUME NEW c \in Conns, LeaveClient(c) \/ Stall(c) \/ DropRoutes(c)
      PROVE  Hangup(c) \/ DropRoutes(c) \/ UNCHANGED vars
  BY <1>4 DEF LeaveClient, Stall
<1>5. QED BY <1>1, <1>2, <1>3, <1>4 DEF FlowNext, Next

\* The daemon with its clients' queues, whoever reads and whoever does not, is one of the
\* daemons of ProviderRequests, and keeps what is proved of them.
THEOREM QueuesOnlyDelay == FlowSpec => Spec
<1>1. FlowInit => Init
  BY DEF FlowInit
<1>2. [FlowNext]_flowVars => [Next]_vars
  BY FlowStep DEF flowVars
<1>3. QED BY <1>1, <1>2, PTL DEF FlowSpec, Spec
=============================================================================

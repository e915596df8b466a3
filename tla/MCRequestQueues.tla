--------------------------- MODULE MCRequestQueues ---------------------------
(* Session `one` has a shell, whose user asks for completions, and a Coach    *)
(* window, which asks for a stream; session `two` a shell with a failed       *)
(* command and a window of its own.  A behaviour has the requests of one      *)
(* scenario and the clients they write to; the others are never used.         *)
EXTENDS RequestQueues

CONSTANT Scenarios

VARIABLE scenario

MCSessionOf == [r \in Requests |-> IF r \in Analyses THEN "two" ELSE "one"]
MCOriginOf  == [r \in Requests |-> CASE r \in Analyses -> "other" [] r \in ChatKind -> "coach"
                                     [] OTHER -> "shell"]
MCOwnerOf   == [s \in Sessions |-> IF s = "two" THEN "other" ELSE "shell"]
MCWindowsOn == [s \in Sessions |-> IF s = "two" THEN {"far"} ELSE {"coach"}]

InUse == UNION {{OriginOf[r], OwnerOf[SessionOf[r]]} \cup WindowsOn[SessionOf[r]] : r \in scenario}

------------------------------------------------------------------------------
MCInit == FlowInit /\ scenario \in Scenarios

\* Bound: two requests of a session are sealed, cancelled or superseded by each other and no
\* more; two of different sessions only wait for their clients.
Served == {SessionOf[r] : r \in scenario}
Alone  == Cardinality(scenario) = 1

Requester(r) ==
  \/ Step(r) \/ Forward(r) \/ Queue(r) \/ BeginTelling(r) \/ Tell(r) \/ ForgetTold(r)

MCNext ==
  /\ UNCHANGED scenario
  /\ \/ \E r \in scenario : Requester(r)
     \/ \E c \in InUse : DropRoutes(c) /\ UNCHANGED queues
     \/ /\ Alone \/ Cardinality(Served) = 2
        /\ \E c \in InUse : Stall(c)
     \/ /\ Cardinality(Served) = 1
        /\ \E r \in scenario : (Cancel(r) \/ Seal(SessionOf[r])) /\ UNCHANGED queues
     \/ /\ Alone
        /\ \/ \E c \in InUse : LeaveClient(c)
           \/ \E s \in Served : (Open(s) \/ ClearSession(s)) /\ UNCHANGED queues
           \/ (ClearChatHistory \/ ClearAllTransient) /\ UNCHANGED queues

\* What is never used is never due.
MCSpec == MCInit /\ [][MCNext]_<<flowVars, scenario>> /\ Fairness

==============================================================================

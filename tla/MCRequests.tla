------------------------------ MODULE MCRequests ------------------------------
(* Terminal session `one` has the user's completions and chats, session `two` *)
(* an analysis; a shell and a Coach window ask.  A behaviour has the requests *)
(* of one scenario, with their sessions and connections; the others are       *)
(* never used.                                                                *)
EXTENDS ProviderRequests

CONSTANT Scenarios

VARIABLE scenario

MCSessionOf == [r \in Requests |-> IF r \in Analyses THEN "two" ELSE "one"]
MCOriginOf  == [r \in Requests |-> IF r \in ChatKind THEN "coach" ELSE "shell"]

InUse(of) == {of[r] : r \in scenario}

------------------------------------------------------------------------------
MCInit == Init /\ scenario \in Scenarios

MCNext ==
  \/ \E r \in scenario : (Capture(r) \/ Dispatch(r) \/ Attempt(r) \/ Cancel(r)
                         \/ Announce(r) \/ Forget(r)) /\ UNCHANGED scenario
  \/ \E s \in InUse(SessionOf) : (Seal(s) \/ Open(s) \/ ClearSession(s)) /\ UNCHANGED scenario
  \/ (ClearChatHistory \/ ClearAllTransient) /\ UNCHANGED scenario
  \/ \E c \in InUse(OriginOf) : (Hangup(c) \/ DropRoutes(c)) /\ UNCHANGED scenario

MCSpec == MCInit /\ [][MCNext]_<<vars, scenario>>
==============================================================================

-------------------------- MODULE AirlockBoundary --------------------------
(***************************************************************************)
(* What the Session Airlock promises, with nothing of how the daemon keeps *)
(* the promise: a session is open or sealed, and a request is live from    *)
(* the moment it is admitted to the provider boundary until it is          *)
(* released.  Sealing releases all of the session's requests in the same   *)
(* step and touches no other session, a sealed session admits nothing, a   *)
(* new exclusive request displaces the previous one, and a request that    *)
(* has been released never becomes live again.                             *)
(*                                                                         *)
(* docs/ARCHITECTURE.md, "Session Airlock", and docs/PROTOCOL.md, "Session *)
(* Airlock", state these promises; ProviderRequests implements them.       *)
(***************************************************************************)

CONSTANTS
  Sessions,
  Requests,
  Exclusive,   \* requests of which a session keeps at most one live
  SessionOf    \* the session each request belongs to

VARIABLES
  open,        \* per session: may provider work be admitted
  live,        \* requests whose provider work is allowed to go on
  spent        \* requests released, by completion or by cancellation

boundary == <<open, live, spent>>

OfSession(s) == {r \in Requests : SessionOf[r] = s}

Init ==
  /\ open = [s \in Sessions |-> TRUE]
  /\ live = {}
  /\ spent = {}

Displaced(r) ==
  IF r \in Exclusive THEN live \cap Exclusive \cap OfSession(SessionOf[r]) ELSE {}

Release(gone) ==
  /\ gone \subseteq live
  /\ live' = live \ gone
  /\ spent' = spent \cup gone

Admit(r) ==
  /\ open[SessionOf[r]]
  /\ r \notin live \cup spent
  /\ live' = (live \ Displaced(r)) \cup {r}
  /\ spent' = spent \cup Displaced(r)
  /\ UNCHANGED open

Seal(s) ==
  /\ open' = [open EXCEPT ![s] = FALSE]
  /\ Release(live \cap OfSession(s))

Reopen(s) ==
  /\ open' = [open EXCEPT ![s] = TRUE]
  /\ UNCHANGED <<live, spent>>

LetGo ==
  /\ \E gone \in SUBSET live : Release(gone)
  /\ UNCHANGED open

Next ==
  \/ \E r \in Requests : Admit(r)
  \/ \E s \in Sessions : Seal(s) \/ Reopen(s)
  \/ LetGo

Spec == Init /\ [][Next]_boundary
=============================================================================

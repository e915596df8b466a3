-------------------------- MODULE SessionRegistry --------------------------
(***************************************************************************)
(* The daemon's table of terminal sessions: who owns each session, which   *)
(* one is focused, and which are dropped when a new one needs room.         *)
(*                                                                         *)
(* A shell's connection registers that shell's session and owns it; the    *)
(* same shell may come back on a new connection before the daemon has      *)
(* cleaned the old one up.  A Coach window registers sessions without      *)
(* owning them.  Every use of a session refreshes its place in the order of *)
(* last_accessed, which is all that is kept of these times.  The table     *)
(* changes under one mutex: one action per lock.  The marker files written *)
(* after a shell registers or focuses are left out.                        *)
(***************************************************************************)
EXTENDS FiniteSets, Naturals

CONSTANTS
  Sessions,
  Shells,       \* connections of shells
  Windows,      \* connections of Coach windows
  ShellOf,      \* the one session a shell's connection registers
  MaxSessions,  \* SessionLimits.max_sessions
  NoConn, NoSession

\* A shell has one session, and the limit is at least one (prune_for_new_session).
ASSUME TableAssumption ==
  /\ ShellOf \in [Shells -> Sessions]
  /\ NoConn \notin Shells \cup Windows /\ NoSession \notin Sessions
  /\ MaxSessions \in Nat \ {0}

Conns == Shells \cup Windows

VARIABLES
  recency,   \* for each session in the table, those accessed less recently
  owner,     \* connection_id of each session
  busy,      \* sessions with active requests
  expired,   \* sessions not accessed for disconnected_session_ttl
  focused,   \* State.focused
  conn       \* "new", "up", "lost" (its task ended on a read error),
             \* "unmapped" (out of the map), "closed" (cleaned up)

table     == <<recency, owner, busy, expired, focused>>
tableVars == <<table, conn>>

Known == DOMAIN recency

\* The sessions are in one order.
InOrder ==
  /\ \A s \in Known : s \notin recency[s]
  /\ \A s, t \in Known : s # t => (s \in recency[t] <=> t \notin recency[s])
  /\ \A s, t \in Known : s \in recency[t] => recency[s] \subseteq recency[t]

TableTypeOK ==
  /\ Known \subseteq Sessions /\ IsFiniteSet(Known)
  /\ recency \in [Known -> SUBSET Known] /\ InOrder
  /\ owner \in [Sessions -> Conns \cup {NoConn}]
  /\ busy \subseteq Sessions
  /\ expired \subseteq Sessions
  /\ focused \in Sessions \cup {NoSession}
  /\ conn \in [Conns -> {"new", "up", "lost", "unmapped", "closed"}]

TableInit ==
  /\ recency = [s \in {} |-> {}]
  /\ owner = [s \in Sessions |-> NoConn]
  /\ busy = {}
  /\ expired = {}
  /\ focused = NoSession
  /\ conn = [c \in Conns |-> "new"]

Listens(c) == conn[c] = "up"

-----------------------------------------------------------------------------
(* Making room                                                             *)

Idle(s) == owner[s] = NoConn /\ s \notin busy

Unexpired == {s \in Known : ~ (Idle(s) /\ s \in expired)}
Idlers    == {s \in Unexpired : Idle(s)}
Surplus   == Cardinality(Unexpired) - (MaxSessions - 1)

PruneLastFirst ==
  Unexpired \ {s \in Idlers : Cardinality({t \in Idlers : s \in recency[t]}) < Surplus}

PruneExpiredOnly == Unexpired

\* prune_for_new_session: first every expired idle session goes; then, until there is
\* room for one more or no idle session is left, the idle one least recently accessed.
Pruned == Unexpired \ {s \in Idlers : Cardinality(Idlers \cap recency[s]) < Surplus}

\* The sessions beside s once it has been found or inserted.
Beside(s) == (IF s \in Known THEN Known ELSE Pruned) \ {s}

\* It is the one accessed last.  A removed session's record is gone.
Access(s) ==
  /\ recency' = [t \in Beside(s) \cup {s} |->
                   IF t = s THEN Beside(s) ELSE recency[t] \cap Beside(s)]
  /\ expired' = expired \cap Beside(s)

\* The focus does not outlive the focused session.
KeepFocus ==
  focused' = IF focused \in Known' THEN focused ELSE NoSession

-----------------------------------------------------------------------------
(* Requests of a connection                                                *)

Connect(c) ==
  /\ conn[c] = "new"
  /\ conn' = [conn EXCEPT ![c] = "up"]
  /\ UNCHANGED table

\* A shell's registration takes the session over, whoever owned it, and the focus.
Register(c) ==
  /\ c \in Shells
  /\ Listens(c)
  /\ Access(ShellOf[c])
  /\ owner' = [owner EXCEPT ![ShellOf[c]] = c]
  /\ focused' = ShellOf[c]
  /\ UNCHANGED <<busy, conn>>

\* A Coach window's registration leaves an existing owner and the focus alone.
RegisterDetached(c, s) ==
  /\ c \in Windows
  /\ Listens(c)
  /\ Access(s)
  /\ KeepFocus
  /\ UNCHANGED <<owner, busy, conn>>

Focus(c) ==
  /\ c \in Shells
  /\ Listens(c)
  /\ ShellOf[c] \in Known
  /\ Access(ShellOf[c])
  /\ focused' = ShellOf[c]
  /\ UNCHANGED <<owner, busy, conn>>

\* The Disconnect request of the owner; of anyone else it is refused and changes nothing.
DetachSession(c, s) ==
  /\ Listens(c)
  /\ s \in Known
  /\ owner[s] = c
  /\ Access(s)
  /\ owner' = [owner EXCEPT ![s] = NoConn]
  /\ focused' = IF focused = s THEN NoSession ELSE focused
  /\ UNCHANGED <<busy, conn>>

\* Any other request that names a session in the table (context, airlock, data, ...).
Use(c, s) ==
  /\ Listens(c)
  /\ s \in Known
  /\ Access(s)
  /\ UNCHANGED <<owner, busy, focused, conn>>

\* The session's table of active requests gets its first entry, or loses its last.
BeginWork(s) ==
  /\ s \in Known \ busy
  /\ Access(s)
  /\ busy' = busy \cup {s}
  /\ UNCHANGED <<owner, focused, conn>>

EndWork(s) ==
  /\ s \in busy
  /\ Access(s)
  /\ busy' = busy \ {s}
  /\ UNCHANGED <<owner, focused, conn>>

\* Time passes: what was accessed earlier expires earlier.
Expire(s) ==
  /\ s \in Known \ expired
  /\ recency[s] \subseteq expired
  /\ expired' = expired \cup {s}
  /\ UNCHANGED <<recency, owner, busy, focused, conn>>

-----------------------------------------------------------------------------
(* The end of a connection                                                 *)

\* End of file, an undecodable frame or the daemon's shutdown: the connection leaves the
\* map.
Hangup(c) ==
  /\ Listens(c)
  /\ conn' = [conn EXCEPT ![c] = "unmapped"]
  /\ UNCHANGED table

\* An oversized frame, bytes that are not UTF-8 or an I/O error: handle_connection returns
\* at once, before any of its cleanup.
ReadFails(c) ==
  /\ Listens(c)
  /\ conn' = [conn EXCEPT ![c] = "lost"]
  /\ UNCHANGED table

DetachAnyOwner(c) ==
  LET mine == {s \in Known : c \in Shells /\ s = ShellOf[c]}
  IN  /\ conn[c] = "unmapped"
      /\ conn' = [conn EXCEPT ![c] = "closed"]
      /\ IF mine = {} THEN UNCHANGED <<recency, expired>> ELSE \A s \in mine : Access(s)
      /\ owner' = [s \in Sessions |-> IF s \in mine THEN NoConn ELSE owner[s]]
      /\ UNCHANGED <<busy, focused>>

\* detach_connection: only a session that still belongs to this connection is released.
\* The focus stays.
DetachConnection(c) ==
  LET mine == {s \in Known : owner[s] = c}
  IN  /\ conn[c] = "unmapped"
      /\ conn' = [conn EXCEPT ![c] = "closed"]
      /\ IF mine = {} THEN UNCHANGED <<recency, expired>> ELSE \A s \in mine : Access(s)
      /\ owner' = [s \in Sessions |-> IF s \in mine THEN NoConn ELSE owner[s]]
      /\ UNCHANGED <<busy, focused>>

-----------------------------------------------------------------------------

TableNext ==
  \/ \E c \in Conns :
       \/ Connect(c) \/ Register(c) \/ Focus(c)
       \/ \E s \in Sessions : RegisterDetached(c, s) \/ DetachSession(c, s) \/ Use(c, s)
       \/ Hangup(c) \/ ReadFails(c) \/ DetachConnection(c)
  \/ \E s \in Sessions : BeginWork(s) \/ EndWork(s) \/ Expire(s)

TableSpec == TableInit /\ [][TableNext]_tableVars

-----------------------------------------------------------------------------
(* Properties                                                              *)

\* Only sessions of the table are owned, busy, expired or focused: an evicted session leaves
\* nothing behind, whatever was focused.
TableIsConsistent ==
  /\ \A s \in Sessions : owner[s] # NoConn => s \in Known
  /\ busy \cup expired \subseteq Known
  /\ focused # NoSession => focused \in Known

\* No session belongs to a connection whose cleanup is over, in whatever order a shell's
\* old connection was cleaned up and its new one registered.
OwnersAreNotClosed ==
  \A s \in Known : owner[s] # NoConn => conn[owner[s]] # "closed"

\* "connected sessions are not evicted", nor is a session with active requests.
InUseIsKept ==
  [][\A s \in Known : ~ Idle(s) => s \in Known']_tableVars

\* The table outgrows its bound only if every other session in it is in use.
BoundYieldsOnlyToUse ==
  [][\A s \in Known' \ Known :
       Cardinality(Known') > MaxSessions => \A t \in Known' \ {s} : ~ Idle(t)]_tableVars

\* Sessions are dropped only to make room for a new one: all that are expired and, of the
\* others, no one while an idle session accessed less recently stays.
OldestGoFirst ==
  [][\A s \in Known \ Known' :
       /\ Known' \ Known # {}
       /\ s \in expired \/ \A t \in Known \cap Known' : Idle(t) => s \in recency[t]]_tableVars

\* The cleanup of a connection releases its own sessions and no one else's: a shell that is
\* back on a new connection keeps its session.
CleanupReleasesOnlyItsOwn ==
  [][\A c \in Conns : conn[c] = "unmapped" /\ conn'[c] = "closed" =>
       \A s \in Known : owner'[s] = IF owner[s] = c THEN NoConn ELSE owner[s]]_tableVars

\* A session is given up only for a new one, oldest first and never in use; the table
\* outgrows its bound only when all are in use.  A connection that ends gives up its own
\* sessions and nobody else's, and an evicted session leaves nothing behind.
TableGivesUpWhatItMay ==
  /\ InUseIsKept /\ BoundYieldsOnlyToUse /\ OldestGoFirst
  /\ CleanupReleasesOnlyItsOwn
  /\ [](TableIsConsistent /\ OwnersAreNotClosed)

\* A session counts as connected only while its connection is served ("Disconnected
\* sessions use an LRU limit and TTL").
OwnersAreServed ==
  \A s \in Known : owner[s] # NoConn => conn[owner[s]] # "lost"
=============================================================================

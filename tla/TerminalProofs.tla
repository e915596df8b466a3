---------------------------- MODULE TerminalProofs ----------------------------
(***************************************************************************)
(* Four components that meet around a terminal, each in a part of its own: *)
(* RuntimeFiles, SessionRegistry, LocalSetup and ShellPlugin.              *)
(*                                                                         *)
(* RuntimeFiles for any number of daemons and of runs of `aicoach stop`:   *)
(* as long as no daemon has left or crashed, one process at most holds the  *)
(* PID file, and a daemon started while another serves touches no file; and *)
(* what the dead leave keeps no later daemon from starting.                 *)
(*                                                                         *)
(* None of them is inductive.  That nobody removes the file of a        *)
(* reserved process rests on what the others have read: a number read is    *)
(* that of a process which is still reserved, so the look at /bin/ps turns  *)
(* its reader away and no reader ever holds the file for stale.  That a     *)
(* late process reads a number rests on a serving process having written    *)
(* its own.                                                                 *)
(***************************************************************************)
EXTENDS RuntimeFiles, SessionRegistry, LocalSetup, ShellPlugin, FiniteSetTheorems,
        SequenceTheorems, WellFoundedInduction, TLAPS

OneReservation ==
  /\ \A p \in Procs : pc[p] \in Reserved => pidFile = p
  /\ pidFile # NoProc => pc[pidFile] \in Reserved

NumbersAreWritten ==
  \A p \in Procs : pc[p] \in Reserved \ {"created"} => p \in written

ReadersAreTurnedAway ==
  \A p \in Procs :
    /\ pc[p] # "stale"
    /\ pc[p] = "read" => seen[p] # NoProc /\ pc[seen[p]] \in Reserved

LateOnesGiveWay ==
  \A p \in late :
    /\ pc[p] \in {"started", "read", "refused"}
    /\ pidFile \in written /\ pc[pidFile] = "serving"

Hold == OneReservation /\ NumbersAreWritten /\ ReadersAreTurnedAway /\ LateOnesGiveWay

ReservationInv == Undisturbed => Hold

IInv == TypeOK /\ ReservationInv

-----------------------------------------------------------------------------
(* Types                                                                   *)

LEMMA InitTypes == Init => TypeOK
BY NoProcIsNone DEF Init, TypeOK, Phases

\* One step of one process keeps the types.
LEMMA ProcessTypes ==
  ASSUME TypeOK, NEW p \in Procs, Acquire(p) \/ Serve(p) \/ Crash(p)
  PROVE  TypeOK'
<1> USE DEF TypeOK, files, Step, Goto, Phases, Checking, Reserved, Leaving
<1>1. CASE Start(p)
  BY <1>1 DEF Start
<1>2. CASE ReadPid(p)
  BY <1>2 DEF ReadPid
<1>3. CASE CheckAlive(p) \/ RemoveStalePid(p)
  BY <1>3 DEF CheckAlive, RemoveStalePid
<1>4. CASE SocketExists(p) \/ ProbeSocket(p) \/ RemoveSocket(p)
  BY <1>4 DEF SocketExists, ProbeSocket, RemoveSocket
<1>5. CASE CreatePid(p) \/ SecurePid(p)
  BY <1>5 DEF CreatePid, SecurePid
<1>6. CASE WritePid(p)
  BY <1>6 DEF WritePid
<1>7. CASE Misconfigured(p) \/ Bind(p) \/ Listen(p) \/ Shutdown(p)
  BY <1>7 DEF Misconfigured, Bind, Listen, Shutdown
<1>8. CASE CleanSocket(p) \/ CleanPid(p)
  BY <1>8 DEF CleanSocket, CleanPid
<1>9. CASE Crash(p)
  BY <1>9 DEF Crash
<1>10. QED
  BY <1>1, <1>2, <1>3, <1>4, <1>5, <1>6, <1>7, <1>8, <1>9 DEF Acquire, Serve

LEMMA StopTypes ==
  ASSUME TypeOK, NEW x \in Stoppers,
         StopChecksPid(x) \/ StopPings(x) \/ StopRemovesSocket(x) \/ StopRemovesPid(x)
  PROVE  TypeOK'
BY DEF TypeOK, files, StepStop, StopChecksPid, StopPings, StopRemovesSocket, StopRemovesPid

LEMMA NextTypes == TypeOK /\ [Next]_vars => TypeOK'
<1>1. ASSUME TypeOK, UNCHANGED vars PROVE TypeOK'
  BY <1>1 DEF TypeOK, vars, files
<1>2. QED BY <1>1, ProcessTypes, StopTypes DEF Next

\* The types of RuntimeFiles hold in every reachable state; in particular every number
\* read from the PID file was written by the process that created that file.
THEOREM TypesAreKept == Spec => []TypeOK
BY InitTypes, NextTypes, PTL DEF Spec

-----------------------------------------------------------------------------
(* The reservation                                                         *)

LEMMA InitHolds == Init => ReservationInv
BY NoProcIsNone DEF Init, ReservationInv, Hold, OneReservation, NumbersAreWritten,
   ReadersAreTurnedAway, LateOnesGiveWay, Reserved

\* What is disturbed stays disturbed.
LEMMA DisturbanceStays ==
  ASSUME TypeOK, Next, Undisturbed'
  PROVE  Undisturbed
<1> DEFINE Away == Leaving \cup {"gone", "dead"}
<1> USE DEF TypeOK
<1>1. ASSUME NEW p \in Procs, Acquire(p) \/ Serve(p) \/ Crash(p)
      PROVE  Undisturbed
  <2>1. stop' = stop
    BY <1>1 DEF Acquire, Serve, Start, ReadPid, CheckAlive, RemoveStalePid, SocketExists,
       ProbeSocket, RemoveSocket, CreatePid, WritePid, SecurePid, Misconfigured, Bind, Listen, Shutdown,
       CleanSocket, CleanPid, Crash, files
  <2>2. \A q \in Procs \ {p} : pc'[q] = pc[q]
    BY <1>1 DEF Acquire, Serve, Start, ReadPid, CheckAlive, RemoveStalePid, SocketExists,
       ProbeSocket, RemoveSocket, CreatePid, WritePid, SecurePid, Misconfigured, Bind, Listen, Shutdown,
       CleanSocket, CleanPid, Crash, Step, Goto
  <2>3. pc[p] \in Away => pc'[p] \in Away
    BY <1>1 DEF Acquire, Serve, Start, ReadPid, CheckAlive, RemoveStalePid, SocketExists,
       ProbeSocket, RemoveSocket, CreatePid, WritePid, SecurePid, Misconfigured, Bind, Listen, Shutdown,
       CleanSocket, CleanPid, Crash, Step, Goto, Leaving
  <2>4. QED BY <2>1, <2>2, <2>3 DEF Undisturbed
<1>2. ASSUME NEW x \in Stoppers,
             StopChecksPid(x) \/ StopPings(x) \/ StopRemovesSocket(x) \/ StopRemovesPid(x)
      PROVE  Undisturbed
  BY <1>2 DEF StopChecksPid, StopPings, StopRemovesSocket, StopRemovesPid, StepStop,
     Undisturbed
<1>3. QED BY <1>1, <1>2 DEF Next

\* A step that disturbs nothing is one of a process that starts or serves, or a look of
\* `aicoach stop`; each keeps the four parts of Hold.
LEMMA ProcessHolds ==
  ASSUME TypeOK, Hold, Undisturbed, Undisturbed',
         NEW p \in Procs, Acquire(p) \/ Serve(p) \/ Crash(p)
  PROVE  Hold'
<1> USE NoProcIsNone DEF TypeOK, Hold, OneReservation, NumbersAreWritten,
        ReadersAreTurnedAway, LateOnesGiveWay, files, Step, Goto, Reserved
<1>1. CASE Start(p)
  BY <1>1 DEF Start, Listening
<1>2. CASE ReadPid(p)
  BY <1>2 DEF ReadPid
<1>3. CASE CheckAlive(p)
  BY <1>3 DEF CheckAlive, Running, Over
<1>4. CASE RemoveStalePid(p)
  BY <1>4 DEF RemoveStalePid
<1>5. CASE SocketExists(p) \/ ProbeSocket(p) \/ RemoveSocket(p)
  BY <1>5 DEF SocketExists, ProbeSocket, RemoveSocket
<1>6. CASE CreatePid(p)
  BY <1>6 DEF CreatePid
<1>7. CASE WritePid(p)
  BY <1>7 DEF WritePid
<1>8. CASE SecurePid(p)
  BY <1>8 DEF SecurePid
<1>9. CASE Bind(p) \/ Listen(p)
  BY <1>9 DEF Bind, Listen, Undisturbed, Leaving
<1>10. CASE Misconfigured(p) \/ Shutdown(p) \/ CleanSocket(p) \/ CleanPid(p) \/ Crash(p)
  BY <1>10 DEF Misconfigured, Shutdown, CleanSocket, CleanPid, Crash, Undisturbed, Leaving
<1>11. QED
  BY <1>1, <1>2, <1>3, <1>4, <1>5, <1>6, <1>7, <1>8, <1>9, <1>10 DEF Acquire, Serve

LEMMA StopHolds ==
  ASSUME TypeOK, Hold, Undisturbed, Undisturbed', NEW x \in Stoppers,
         StopChecksPid(x) \/ StopPings(x) \/ StopRemovesSocket(x) \/ StopRemovesPid(x)
  PROVE  Hold'
<1>1. UNCHANGED <<pidFile, written, pc, seen, late>>
  BY DEF StopChecksPid, StopPings, StopRemovesSocket, StopRemovesPid, StepStop, files,
     Undisturbed, TypeOK
<1>2. QED
  BY <1>1 DEF Hold, OneReservation, NumbersAreWritten, ReadersAreTurnedAway, LateOnesGiveWay

LEMMA NextHolds == IInv /\ [Next]_vars => IInv'
<1> SUFFICES ASSUME IInv, [Next]_vars, Undisturbed'
             PROVE  Hold'
  BY NextTypes DEF IInv, ReservationInv
<1>1. CASE UNCHANGED vars
  BY <1>1 DEF IInv, ReservationInv, Undisturbed, Hold, OneReservation, NumbersAreWritten,
     ReadersAreTurnedAway, LateOnesGiveWay, vars, files
<1>2. CASE Next
  <2>1. Undisturbed /\ Hold
    BY <1>2, DisturbanceStays DEF IInv, ReservationInv
  <2>2. QED BY <1>2, <2>1, ProcessHolds, StopHolds DEF Next, IInv
<1>3. QED BY <1>1, <1>2

\* The inductive invariant holds in every reachable state.
THEOREM ReservationIsKept == Spec => []IInv
<1>1. Init => IInv
  BY InitTypes, InitHolds DEF IInv
<1>2. QED BY <1>1, NextHolds, PTL DEF Spec

\* For any number of daemons starting together: until one has left or crashed, the PID file
\* belongs to the one process that reserved it (RuntimeFiles::acquire).
THEOREM OneProcessReserves == Spec => []ReservationIsExclusive
<1>1. IInv => ReservationIsExclusive
  BY DEF IInv, ReservationInv, Hold, OneReservation, ReservationIsExclusive
<1>2. QED BY <1>1, ReservationIsKept, PTL

\* A daemon started while another serves gives way before it touches a file, whatever any
\* number of others are doing (RuntimeFiles::acquire).
THEOREM LateStartGivesWay == Spec => []LateStartIsHarmless
<1>1. IInv => LateStartIsHarmless
  BY DEF IInv, ReservationInv, Hold, LateOnesGiveWay, LateStartIsHarmless
<1>2. QED BY <1>1, ReservationIsKept, PTL

-----------------------------------------------------------------------------
(* What is left behind                                                     *)

\* A file at a path is of a process that has yet to remove it, or was killed.
FilesHaveOwners ==
  /\ pidFile # NoProc => pc[pidFile] \in Reserved \cup Leaving \cup {"dead"}
  /\ sock # NoProc => pc[sock] \in {"bound", "serving", "cleaning", "dead"}

UnwrittenYet == \A p \in Procs : pc[p] \in {"new", "created"} \cup Checking => p \notin written

NumbersAreRead == \A p \in Procs : pc[p] = "read" => seen[p] # NoProc

\* A process nothing else runs beside meets only files of the dead, and no number in the
\* PID file once it has looked.
AloneInv ==
  \A p \in alone :
    /\ \A q \in Procs : Running(q) => q = p
    /\ pc[p] \in {"probing", "connecting", "unserved", "free"} => pidFile \notin written
    /\ pc[p] \in {"created", "numbered"} => pidFile = p
    /\ pc[p] \in {"refused", "failed"} => pidFile # NoProc /\ pidFile \notin written

RemainsInv == FilesHaveOwners /\ UnwrittenYet /\ NumbersAreRead /\ AloneInv

LEMMA InitRemains == Init => RemainsInv
BY NoProcIsNone DEF Init, RemainsInv, FilesHaveOwners, UnwrittenYet, NumbersAreRead, AloneInv

LEMMA OwnersStep ==
  ASSUME TypeOK, FilesHaveOwners, [Next]_vars
  PROVE  FilesHaveOwners'
<1> USE NoProcIsNone DEF TypeOK, FilesHaveOwners, files, Step, Goto, Reserved, Leaving
<1>1. ASSUME NEW p \in Procs, Acquire(p)
      PROVE  FilesHaveOwners'
  <2>1. CASE Start(p) \/ ReadPid(p) \/ CheckAlive(p)
    BY <2>1 DEF Start, ReadPid, CheckAlive
  <2>2. CASE RemoveStalePid(p) \/ SocketExists(p) \/ ProbeSocket(p) \/ RemoveSocket(p)
    BY <2>2 DEF RemoveStalePid, SocketExists, ProbeSocket, RemoveSocket
  <2>3. CASE CreatePid(p) \/ WritePid(p) \/ SecurePid(p)
    BY <2>3 DEF CreatePid, WritePid, SecurePid
  <2>4. QED BY <1>1, <2>1, <2>2, <2>3 DEF Acquire
<1>2. ASSUME NEW p \in Procs, Serve(p)
      PROVE  FilesHaveOwners'
  <2>1. CASE Misconfigured(p) \/ Bind(p) \/ Listen(p) \/ Shutdown(p)
    BY <2>1 DEF Misconfigured, Bind, Listen, Shutdown
  <2>2. CASE CleanSocket(p) \/ CleanPid(p)
    BY <2>2 DEF CleanSocket, CleanPid
  <2>3. QED BY <1>2, <2>1, <2>2 DEF Serve
<1>3. ASSUME NEW p \in Procs, Crash(p)
      PROVE  FilesHaveOwners'
  BY <1>3 DEF Crash
<1>4. ASSUME NEW x \in Stoppers,
             StopChecksPid(x) \/ StopPings(x) \/ StopRemovesSocket(x) \/ StopRemovesPid(x)
      PROVE  FilesHaveOwners'
  BY <1>4 DEF StopChecksPid, StopPings, StopRemovesSocket, StopRemovesPid
<1>5. CASE UNCHANGED vars
  BY <1>5 DEF vars
<1>6. QED BY <1>1, <1>2, <1>3, <1>4, <1>5 DEF Next

\* The phases of one process are passed in order.
LEMMA NumbersStep ==
  ASSUME TypeOK, UnwrittenYet, NumbersAreRead, [Next]_vars
  PROVE  UnwrittenYet' /\ NumbersAreRead'
<1> USE NoProcIsNone DEF TypeOK, UnwrittenYet, NumbersAreRead, files, Step, Goto, Checking,
        Reserved, Leaving
<1>1. ASSUME NEW p \in Procs, Acquire(p)
      PROVE  UnwrittenYet' /\ NumbersAreRead'
  <2>1. CASE Start(p) \/ CheckAlive(p) \/ RemoveStalePid(p) \/ SocketExists(p)
    BY <2>1 DEF Start, CheckAlive, RemoveStalePid, SocketExists
  <2>2. CASE ReadPid(p)
    BY <2>2 DEF ReadPid
  <2>3. CASE ProbeSocket(p) \/ RemoveSocket(p) \/ CreatePid(p)
    BY <2>3 DEF ProbeSocket, RemoveSocket, CreatePid
  <2>4. CASE WritePid(p) \/ SecurePid(p)
    BY <2>4 DEF WritePid, SecurePid
  <2>5. QED BY <1>1, <2>1, <2>2, <2>3, <2>4 DEF Acquire
<1>2. ASSUME NEW p \in Procs, Serve(p) \/ Crash(p)
      PROVE  UnwrittenYet' /\ NumbersAreRead'
  BY <1>2 DEF Serve, Misconfigured, Bind, Listen, Shutdown, CleanSocket, CleanPid, Crash
<1>3. ASSUME NEW x \in Stoppers,
             StopChecksPid(x) \/ StopPings(x) \/ StopRemovesSocket(x) \/ StopRemovesPid(x)
      PROVE  UnwrittenYet' /\ NumbersAreRead'
  BY <1>3 DEF StopChecksPid, StopPings, StopRemovesSocket, StopRemovesPid
<1>4. CASE UNCHANGED vars
  BY <1>4 DEF vars
<1>5. QED BY <1>1, <1>2, <1>3, <1>4 DEF Next

\* Only a process that runs, or begins to, takes a step; beside one that is alone, that is
\* the process itself.
LEMMA AloneMoves ==
  ASSUME TypeOK, AloneInv, NEW p \in Procs, Acquire(p) \/ Serve(p) \/ Crash(p), ~ Start(p)
  PROVE  /\ alone' = alone /\ alone \subseteq {p}
         /\ \A q \in Procs \ {p} : pc'[q] = pc[q]
<1>1. alone' = alone /\ \A q \in Procs \ {p} : pc'[q] = pc[q]
  BY DEF Acquire, Serve, ReadPid, CheckAlive, RemoveStalePid, SocketExists, ProbeSocket,
     RemoveSocket, CreatePid, WritePid, SecurePid, Misconfigured, Bind, Listen, Shutdown,
     CleanSocket, CleanPid, Crash, Step, Goto, TypeOK
<1>2. Running(p)
  BY DEF Acquire, Serve, ReadPid, CheckAlive, RemoveStalePid, SocketExists, ProbeSocket,
     RemoveSocket, CreatePid, WritePid, SecurePid, Misconfigured, Bind, Listen, Shutdown,
     CleanSocket, CleanPid, Crash, Step, Running, Over
<1>3. QED BY <1>1, <1>2 DEF AloneInv

LEMMA AloneStep ==
  ASSUME TypeOK, RemainsInv, [Next]_vars
  PROVE  AloneInv'
<1> USE NoProcIsNone DEF TypeOK, RemainsInv, files, Step, Goto
<1>1. ASSUME NEW p \in Procs, Start(p)
      PROVE  AloneInv'
  BY <1>1 DEF Start, AloneInv, Running, Over
<1>2. ASSUME NEW p \in Procs, Acquire(p) \/ Serve(p) \/ Crash(p), ~ Start(p)
      PROVE  AloneInv'
  <2>1. CASE alone = {}
    BY <1>2, <2>1, AloneMoves DEF AloneInv
  <2>2. CASE alone # {}
    <3>1. alone = {p} /\ alone' = {p} /\ \A q \in Procs \ {p} : pc'[q] = pc[q] /\ ~ Running(q)
      BY <1>2, <2>2, AloneMoves DEF AloneInv
    <3>2. \A q \in Procs : Running(q)' => q = p
      BY <3>1 DEF Running
    <3>3. /\ pc'[p] \in {"probing", "connecting", "unserved", "free"} => pidFile' \notin written'
          /\ pc'[p] \in {"created", "numbered"} => pidFile' = p
          /\ pc'[p] \in {"refused", "failed"} => pidFile' # NoProc /\ pidFile' \notin written'
      <4> USE <3>1 DEF AloneInv
      <4>1. CASE ReadPid(p)
        BY <4>1 DEF ReadPid
      <4>2. CASE CheckAlive(p)
        <5>1. seen[p] \in written /\ p \notin written
          BY <4>2 DEF CheckAlive, NumbersAreRead, UnwrittenYet, Checking
        <5>2. ~ Running(seen[p])
          BY <3>1, <5>1
        <5>3. QED BY <4>2, <5>2 DEF CheckAlive
      <4>3. CASE RemoveStalePid(p)
        BY <4>3 DEF RemoveStalePid
      <4>4. CASE SocketExists(p) \/ RemoveSocket(p)
        BY <4>4 DEF SocketExists, RemoveSocket
      <4>5. CASE ProbeSocket(p)
        <5>1. ~ (sock # NoProc /\ Listening(sock))
          BY <3>1, <4>5 DEF ProbeSocket, Listening, Running, Over
        <5>2. QED BY <4>5, <5>1 DEF ProbeSocket
      <4>6. CASE CreatePid(p) \/ WritePid(p) \/ SecurePid(p)
        BY <4>6 DEF CreatePid, WritePid, SecurePid
      <4>7. CASE Serve(p) \/ Crash(p)
        BY <4>7 DEF Serve, Misconfigured, Bind, Listen, Shutdown, CleanSocket, CleanPid, Crash
      <4>8. QED BY <1>2, <4>1, <4>2, <4>3, <4>4, <4>5, <4>6, <4>7 DEF Acquire
    <3>4. QED BY <3>1, <3>2, <3>3 DEF AloneInv
  <2>3. QED BY <2>1, <2>2
<1>3. ASSUME NEW x \in Stoppers,
             StopChecksPid(x) \/ StopPings(x) \/ StopRemovesSocket(x) \/ StopRemovesPid(x)
      PROVE  AloneInv'
  BY <1>3 DEF StopChecksPid, StopPings, StopRemovesSocket, StopRemovesPid, AloneInv, Running
<1>4. CASE UNCHANGED vars
  BY <1>4 DEF vars, AloneInv, Running
<1>5. QED BY <1>1, <1>2, <1>3, <1>4 DEF Next

\* What processes that are over have left on disk, with the types, in every reachable
\* state: a file is of a process under way or of one that crashed (cleanup, Drop).
THEOREM RemainsAreKept == Spec => [](TypeOK /\ RemainsInv)
<1>1. TypeOK /\ RemainsInv /\ [Next]_vars => RemainsInv'
  BY OwnersStep, NumbersStep, AloneStep DEF RemainsInv
<1>2. QED BY <1>1, InitRemains, TypesAreKept, PTL DEF Spec

\* No file outlives the processes that are over without a crash (RuntimeFiles::cleanup,
\* Drop).
LEMMA FilesAreCleanedUp == TypeOK /\ RemainsInv => NothingIsLeftBehind
  BY DEF TypeOK, RemainsInv, FilesHaveOwners, NothingIsLeftBehind, Reserved, Leaving

\* What keeps a daemon that starts alone from serving is empty, and of one that was killed
\* before it wrote its number (RuntimeFiles::acquire).
LEMMA EmptyPidFileIsTheOnlyBlock == TypeOK /\ RemainsInv => OnlyEmptyPidFileBlocks
<1> SUFFICES ASSUME TypeOK, RemainsInv, NEW p \in alone, pc[p] \in {"refused", "failed"}
             PROVE  DeadAndEmpty(pidFile)
  BY DEF OnlyEmptyPidFileBlocks
<1>1. /\ pidFile \in Procs /\ pidFile \notin written
      /\ pc[pidFile] \in Reserved \cup Leaving \cup {"dead"}
      /\ Running(pidFile) => pidFile = p
  BY DEF TypeOK, RemainsInv, AloneInv, FilesHaveOwners
<1>2. pc[pidFile] = "dead"
  BY <1>1 DEF Running, Over, Reserved, Leaving
<1>3. QED BY <1>1, <1>2, NoProcIsNone DEF DeadAndEmpty

\* Whichever daemons fail, leave, are stopped or die, wherever they stand: no file outlives
\* processes that end of themselves, and of what the killed ones leave nothing keeps a
\* daemon that starts alone from serving but an empty PID file.
THEOREM RemaindersGo == Spec => []RemaindersAreRemoved
<1>1. TypeOK /\ RemainsInv => RemaindersAreRemoved
  BY FilesAreCleanedUp, EmptyPidFileIsTheOnlyBlock DEF RemaindersAreRemoved
<1>2. QED BY <1>1, RemainsAreKept, PTL

-----------------------------------------------------------------------------
(***************************************************************************)
(* SessionRegistry for any number of sessions, connections and places.     *)
(*                                                                         *)
(* Every step leaves the sessions of the table as they are, or prunes them  *)
(* and adds one (KnownChanges).  What pruning leaves is in use, or there is *)
(* room (PrunedIsSmall): look at the idle session it leaves that was       *)
(* accessed least recently; the idle ones accessed before it are all gone, *)
(* and they are as many as were too many.                                  *)
(***************************************************************************)

\* What the table holds is consistent, and the owner of a session is a connection whose
\* clean-up is not over.
TableInv == TableTypeOK /\ TableIsConsistent /\ OwnersAreNotClosed

-----------------------------------------------------------------------------
(* Pruning                                                                  *)

\* How many idle sessions were accessed before s.
Rank(s) == Cardinality(Idlers \cap recency[s])

LEMMA SetsAreFinite ==
  ASSUME TableTypeOK
  PROVE  /\ Unexpired \subseteq Known /\ IsFiniteSet(Unexpired)
         /\ Idlers \subseteq Unexpired /\ IsFiniteSet(Idlers)
         /\ Cardinality(Unexpired) \in Nat
         /\ Surplus \in Int
         /\ \A s \in Known : IsFiniteSet(Idlers \cap recency[s]) /\ Rank(s) \in Nat
<1>1. Unexpired \subseteq Known /\ IsFiniteSet(Known)
  BY DEF TableTypeOK, Unexpired
<1>2. IsFiniteSet(Unexpired)
  BY <1>1, FS_Subset
<1>3. Cardinality(Unexpired) \in Nat
  BY <1>2, FS_CardinalityType
<1>4. Idlers \subseteq Unexpired
  BY DEF Idlers
<1>5. IsFiniteSet(Idlers)
  BY <1>2, <1>4, FS_Subset
<1>6. ASSUME NEW s \in Known
      PROVE  IsFiniteSet(Idlers \cap recency[s]) /\ Rank(s) \in Nat
  BY <1>5, FS_Intersection, FS_CardinalityType DEF Rank
<1>7. Surplus \in Int
  BY <1>3, TableAssumption DEF Surplus
<1>8. QED BY <1>1, <1>2, <1>3, <1>4, <1>5, <1>6, <1>7

LEMMA PrunedByRank ==
  Pruned = Unexpired \ {s \in Idlers : Rank(s) < Surplus}
BY DEF Pruned, Rank

\* The rank respects the order.
LEMMA RankGrows ==
  ASSUME TableTypeOK, NEW s \in Known, NEW t \in Known, s \in recency[t]
  PROVE  /\ Rank(s) <= Rank(t)
         /\ s \in Idlers => Rank(s) < Rank(t)
<1> DEFINE A == Idlers \cap recency[s]  B == Idlers \cap recency[t]
<1>1. A \subseteq B /\ s \notin A /\ (s \in Idlers => s \in B)
  BY DEF TableTypeOK, InOrder
<1>2. IsFiniteSet(B) /\ Cardinality(A) \in Nat /\ Cardinality(B) \in Nat
  BY SetsAreFinite DEF Rank
<1>3. Cardinality(A) <= Cardinality(B) /\ (Cardinality(A) = Cardinality(B) => A = B)
  BY <1>1, <1>2, FS_Subset
<1>4. QED BY <1>1, <1>2, <1>3 DEF Rank

LEMMA SmallestNat ==
  ASSUME NEW T \in SUBSET Nat, T # {}
  PROVE  \E x \in T : \A y \in T : x <= y
<1> DEFINE R == OpToRel(<, Nat)
<1>1. \A x, y \in Nat : y < x => <<y, x>> \in R
  BY DEF OpToRel
<1>2. IsWellFoundedOn(R, Nat)
  BY NatLessThanWellFounded
<1> HIDE DEF R
<1>3. PICK x \in T : \A y \in T : ~ (<<y, x>> \in R)
  BY <1>2, WFMin
<1>4. \A y \in T : ~ (y < x)
  BY <1>1, <1>3
<1>5. QED BY <1>4

\* While an idle session is left, there is room for one more.
LEMMA PrunedIsSmall ==
  ASSUME TableTypeOK, NEW t \in Pruned, Idle(t)
  PROVE  Cardinality(Pruned) <= MaxSessions - 1
<1> DEFINE V == {s \in Idlers : Rank(s) < Surplus}
           W == Idlers \ V
<1>1. t \in W
  BY PrunedByRank DEF Idlers
<1>2. W \subseteq Known /\ \A s \in Known : Rank(s) \in Nat
  BY SetsAreFinite
<1>3. PICK u \in W : \A w \in W : Rank(u) <= Rank(w)
  <2>1. {Rank(w) : w \in W} \in SUBSET Nat /\ {Rank(w) : w \in W} # {}
    BY <1>1, <1>2
  <2>2. PICK x \in {Rank(w) : w \in W} : \A y \in {Rank(w) : w \in W} : x <= y
    BY <2>1, SmallestNat
  <2>3. QED BY <2>2
<1>4. Idlers \cap recency[u] \subseteq V
  <2> SUFFICES ASSUME NEW s \in Idlers, s \in recency[u], s \in W
               PROVE  FALSE
    OBVIOUS
  <2>1. s \in Known /\ u \in Known /\ Rank(s) \in Nat /\ Rank(u) \in Nat
    BY <1>2
  <2>2. Rank(s) < Rank(u)
    BY <2>1, RankGrows
  <2>3. Rank(u) <= Rank(s)
    BY <1>3
  <2>4. QED BY <2>1, <2>2, <2>3
<1>5. IsFiniteSet(V) /\ Cardinality(V) \in Nat
  BY SetsAreFinite, FS_Subset, FS_CardinalityType
<1>6. Rank(u) <= Cardinality(V)
  BY <1>4, <1>5, FS_Subset DEF Rank
<1>7. Surplus <= Rank(u)
  BY <1>2, SetsAreFinite
<1>8. Cardinality(Pruned) = Cardinality(Unexpired) - Cardinality(V)
  <2>1. Unexpired \cap V = V
    BY SetsAreFinite
  <2>2. QED BY <2>1, SetsAreFinite, FS_Difference, PrunedByRank
<1>9. QED
  BY <1>2, <1>5, <1>6, <1>7, <1>8, SetsAreFinite, TableAssumption DEF Surplus

-----------------------------------------------------------------------------
(* A session found or inserted, and accessed                                *)

LEMMA BesideIsKnown ==
  ASSUME TableTypeOK, NEW s \in Sessions
  PROVE  /\ Beside(s) \subseteq Known \ {s}
         /\ s \in Known => Beside(s) = Known \ {s}
         /\ \A t \in Known \ {s} : ~ Idle(t) => t \in Beside(s)
  BY DEF Beside, Pruned, Unexpired, Idlers

\* The table stays in order, with s the newest.
LEMMA AccessKeepsOrder ==
  ASSUME TableTypeOK, NEW s \in Sessions, Access(s)
  PROVE  /\ Known' = Beside(s) \cup {s}
         /\ Known' \subseteq Sessions /\ IsFiniteSet(Known')
         /\ recency' \in [Known' -> SUBSET Known'] /\ InOrder'
         /\ expired' \subseteq Known' /\ expired' \subseteq expired
<1> DEFINE K == Beside(s) \cup {s}
<1>1. /\ Known' = K
      /\ recency'[s] = Beside(s)
      /\ \A t \in Beside(s) : recency'[t] = recency[t] \cap Beside(s)
  <2>1. recency' = [t \in K |-> IF t = s THEN Beside(s) ELSE recency[t] \cap Beside(s)]
    BY DEF Access
  <2>2. s \notin Beside(s)
    BY BesideIsKnown
  <2> HIDE DEF K
  <2>3. Known' = K
    BY <2>1 DEF Known
  <2>4. QED BY <2>1, <2>2, <2>3 DEF K
<1>2. K \subseteq Known \cup {s} /\ K \subseteq Sessions
  BY BesideIsKnown DEF TableTypeOK
<1>3. IsFiniteSet(Known \cup {s})
  BY FS_AddElement DEF TableTypeOK
<1>4. IsFiniteSet(K)
  BY <1>2, <1>3, FS_Subset
<1>5. recency' \in [K -> SUBSET K]
  BY DEF Access
<1>6. InOrder'
  <2>1. Beside(s) \subseteq Known /\ s \notin Beside(s)
    BY BesideIsKnown
  <2>2. ASSUME NEW t \in K
        PROVE  t \notin recency'[t]
    BY <1>1, <2>1 DEF TableTypeOK, InOrder
  <2>3. ASSUME NEW t \in K, NEW u \in K, t # u
        PROVE  t \in recency'[u] <=> u \notin recency'[t]
    <3>1. CASE t = s \/ u = s
      BY <1>1, <2>1, <2>3, <3>1
    <3>2. CASE t # s /\ u # s
      BY <1>1, <2>1, <2>3, <3>2 DEF TableTypeOK, InOrder
    <3>3. QED BY <3>1, <3>2
  <2>4. ASSUME NEW t \in K, NEW u \in K, t \in recency'[u]
        PROVE  recency'[t] \subseteq recency'[u]
    <3>1. t # s
      BY <1>1, <2>1, <2>4
    <3>2. CASE u = s
      BY <1>1, <3>1, <3>2
    <3>3. CASE u # s
      BY <1>1, <2>1, <2>4, <3>1, <3>3 DEF TableTypeOK, InOrder
    <3>4. QED BY <3>2, <3>3
  <2>5. QED BY <1>1, <2>2, <2>3, <2>4 DEF InOrder
<1>7. QED BY <1>1, <1>2, <1>4, <1>5, <1>6 DEF Access

-----------------------------------------------------------------------------
(* The steps                                                                *)

\* What an access leaves alone: whatever it drops was idle.
LEMMA AccessDropsIdle ==
  ASSUME TableTypeOK, TableIsConsistent, NEW s \in Sessions, Access(s)
  PROVE  /\ busy \subseteq Known'
         /\ \A t \in Sessions : owner[t] # NoConn => t \in Known'
         /\ s \in Known => Known' = Known
         /\ s \notin Known => Known' = Pruned \cup {s}
<1>1. Known' = Beside(s) \cup {s}
  BY AccessKeepsOrder
<1>2. \A t \in Known : ~ Idle(t) => t \in Known'
  BY <1>1, BesideIsKnown
<1>3. QED BY <1>1, <1>2 DEF TableTypeOK, TableIsConsistent, Idle, Beside, Pruned, Unexpired

\* A step keeps the sessions of the table, or prunes them and adds one.
KnownChanges ==
  \/ Known' = Known
  \/ \E s \in Sessions \ Known : Known' = Pruned \cup {s}

LEMMA InvStep ==
  TableInv /\ [TableNext]_tableVars => TableInv' /\ KnownChanges
<1> SUFFICES ASSUME TableInv, [TableNext]_tableVars
             PROVE  TableInv' /\ KnownChanges
  OBVIOUS
<1> USE DEF TableInv
<1>0. ASSUME NEW s \in Sessions, Access(s)
      PROVE  /\ Known' \subseteq Sessions /\ IsFiniteSet(Known')
             /\ recency' \in [Known' -> SUBSET Known'] /\ InOrder'
             /\ expired' \subseteq Sessions /\ expired' \subseteq Known'
             /\ s \in Known' /\ busy \subseteq Known'
             /\ \A t \in Sessions : owner[t] # NoConn => t \in Known'
             /\ s \in Known => Known' = Known
             /\ KnownChanges
  BY <1>0, AccessKeepsOrder, AccessDropsIdle DEF TableTypeOK, KnownChanges
<1>00. ASSUME UNCHANGED recency
       PROVE  /\ Known' = Known /\ InOrder' /\ KnownChanges
              /\ recency' \in [Known' -> SUBSET Known']
  BY <1>00 DEF TableTypeOK, InOrder, Known, KnownChanges
<1>1. CASE UNCHANGED tableVars
  BY <1>00, <1>1 DEF tableVars, table, TableTypeOK, TableIsConsistent, OwnersAreNotClosed
<1>2. ASSUME NEW c \in Conns, Connect(c) \/ Hangup(c) \/ ReadFails(c)
      PROVE  TableInv' /\ KnownChanges
  BY <1>00, <1>2 DEF Connect, Hangup, ReadFails, table, TableTypeOK, TableIsConsistent,
                     OwnersAreNotClosed, Listens
<1>3. ASSUME NEW c \in Conns, Register(c)
      PROVE  TableInv' /\ KnownChanges
  <2>1. ShellOf[c] \in Sessions /\ Access(ShellOf[c])
    BY <1>3, TableAssumption DEF Register
  <2>2. QED
    BY <1>0, <1>3, <2>1 DEF Register, Listens, TableTypeOK, TableIsConsistent, OwnersAreNotClosed
<1>4. ASSUME NEW c \in Conns, NEW s \in Sessions, RegisterDetached(c, s)
      PROVE  TableInv' /\ KnownChanges
  BY <1>0, <1>4 DEF RegisterDetached, KeepFocus, TableTypeOK, TableIsConsistent,
                    OwnersAreNotClosed
<1>5. ASSUME NEW c \in Conns, Focus(c)
      PROVE  TableInv' /\ KnownChanges
  <2>1. ShellOf[c] \in Sessions /\ Access(ShellOf[c])
    BY <1>5, TableAssumption DEF Focus
  <2>2. QED
    BY <1>0, <1>5, <2>1 DEF Focus, TableTypeOK, TableIsConsistent, OwnersAreNotClosed
<1>6. ASSUME NEW c \in Conns, NEW s \in Sessions, DetachSession(c, s)
      PROVE  TableInv' /\ KnownChanges
  BY <1>0, <1>6 DEF DetachSession, TableTypeOK, TableIsConsistent, OwnersAreNotClosed
<1>7. ASSUME NEW c \in Conns, NEW s \in Sessions, Use(c, s)
      PROVE  TableInv' /\ KnownChanges
  BY <1>0, <1>7 DEF Use, TableTypeOK, TableIsConsistent, OwnersAreNotClosed
<1>8. ASSUME NEW s \in Sessions, BeginWork(s) \/ EndWork(s)
      PROVE  TableInv' /\ KnownChanges
  BY <1>0, <1>8 DEF BeginWork, EndWork, TableTypeOK, TableIsConsistent, OwnersAreNotClosed
<1>9. ASSUME NEW s \in Sessions, Expire(s)
      PROVE  TableInv' /\ KnownChanges
  BY <1>00, <1>9 DEF Expire, TableTypeOK, TableIsConsistent, OwnersAreNotClosed
<1>10. ASSUME NEW c \in Conns, DetachConnection(c)
       PROVE  TableInv' /\ KnownChanges
  <2> DEFINE mine == {s \in Known : owner[s] = c}
  <2>1. /\ owner' = [s \in Sessions |-> IF s \in mine THEN NoConn ELSE owner[s]]
        /\ conn' = [conn EXCEPT ![c] = "closed"] /\ UNCHANGED <<busy, focused>>
        /\ mine = {} => UNCHANGED <<recency, expired>>
        /\ mine # {} => \A s \in mine : Access(s)
    BY <1>10 DEF DetachConnection
  <2>2. \A s \in Sessions : owner'[s] # NoConn => owner[s] # NoConn /\ owner[s] # c
    BY <2>1 DEF TableIsConsistent
  <2>3. CASE mine = {}
    BY <1>00, <2>1, <2>2, <2>3 DEF TableTypeOK, TableIsConsistent, OwnersAreNotClosed
  <2>4. CASE mine # {}
    <3>1. PICK s \in mine : Access(s)
      BY <2>1, <2>4
    <3>2. s \in Known /\ s \in Sessions
      BY DEF TableTypeOK
    <3> HIDE DEF mine
    <3>3. owner' \in [Sessions -> Conns \cup {NoConn}]
      BY <2>1 DEF TableTypeOK
    <3>4. OwnersAreNotClosed'
      BY <1>0, <2>1, <2>2, <3>1, <3>2, <3>3 DEF OwnersAreNotClosed, TableTypeOK
    <3>5. TableIsConsistent'
      BY <1>0, <2>1, <2>2, <3>1, <3>2 DEF TableIsConsistent
    <3>6. QED BY <1>0, <2>1, <3>1, <3>2, <3>3, <3>4, <3>5 DEF TableTypeOK
  <2>5. QED BY <2>3, <2>4
<1>11. QED
  BY <1>1, <1>2, <1>3, <1>4, <1>5, <1>6, <1>7, <1>8, <1>9, <1>10 DEF TableNext

LEMMA InvInit == TableInit => TableInv
<1> SUFFICES ASSUME TableInit PROVE TableInv
  OBVIOUS
<1>1. Known = {} /\ IsFiniteSet({})
  BY FS_EmptySet DEF TableInit, Known
<1>2. QED
  BY <1>1 DEF TableInit, TableInv, TableTypeOK, InOrder, TableIsConsistent, OwnersAreNotClosed

\* The table is consistent, in one order, and nobody's whose clean-up is over.
THEOREM TableIsKept == TableSpec => []TableInv
<1>1. QED BY InvInit, InvStep, PTL DEF TableSpec

-----------------------------------------------------------------------------
(* What a step may never do                                                 *)

LEMMA UsedStays ==
  ASSUME TableInv, KnownChanges, NEW s \in Known, ~ Idle(s)
  PROVE  s \in Known'
  BY DEF KnownChanges, Pruned, Unexpired, Idlers

LEMMA BoundYields ==
  ASSUME TableInv, KnownChanges, NEW s \in Known' \ Known, Cardinality(Known') > MaxSessions,
         NEW t \in Known' \ {s}
  PROVE  ~ Idle(t)
<1> SUFFICES ASSUME Idle(t) PROVE FALSE
  OBVIOUS
<1>1. Known' = Pruned \cup {s} /\ s \notin Pruned
  BY DEF KnownChanges, Pruned, Unexpired
<1>2. Cardinality(Pruned) <= MaxSessions - 1
  BY <1>1, PrunedIsSmall DEF TableInv
<1>3. IsFiniteSet(Pruned)
  BY SetsAreFinite, FS_Difference DEF TableInv, Pruned
<1>4. Cardinality(Known') = Cardinality(Pruned) + 1 /\ Cardinality(Pruned) \in Nat
  BY <1>1, <1>3, FS_AddElement, FS_CardinalityType
<1>5. QED BY <1>2, <1>4, TableAssumption

LEMMA OldestGo ==
  ASSUME TableInv, KnownChanges, NEW s \in Known \ Known'
  PROVE  /\ Known' \ Known # {}
         /\ s \in expired \/ \A t \in Known \cap Known' : Idle(t) => s \in recency[t]
<1>1. PICK x \in Sessions \ Known : Known' = Pruned \cup {x}
  BY DEF KnownChanges
<1>2. ASSUME s \notin expired, NEW t \in Known \cap Known', Idle(t)
      PROVE  s \in recency[t]
  <2>1. s \in Idlers /\ Rank(s) < Surplus
    BY <1>1, <1>2, PrunedByRank DEF Unexpired
  <2>2. t \in Idlers /\ ~ (Rank(t) < Surplus)
    BY <1>1, <1>2, PrunedByRank DEF Idlers
  <2>3. Rank(s) \in Nat /\ Rank(t) \in Nat /\ Surplus \in Int
    BY SetsAreFinite DEF TableInv
  <2>4. t \notin recency[s]
    BY <2>1, <2>2, <2>3, RankGrows DEF TableInv
  <2>5. s # t
    BY <2>1, <2>2
  <2>6. QED BY <2>4, <2>5 DEF TableInv, TableTypeOK, InOrder
<1>3. QED BY <1>1, <1>2

LEMMA OwnOnly ==
  ASSUME TableInv, TableNext, NEW c \in Conns, conn[c] = "unmapped", conn'[c] = "closed",
         NEW s \in Known
  PROVE  owner'[s] = IF owner[s] = c THEN NoConn ELSE owner[s]
<1>1. PICK d \in Conns : DetachConnection(d)
  BY DEF TableNext, Connect, Register, Focus, RegisterDetached, DetachSession, Use, Hangup,
         ReadFails, BeginWork, EndWork, Expire, TableInv, TableTypeOK, table
<1>2. d = c
  BY <1>1 DEF DetachConnection, TableInv, TableTypeOK
<1>3. QED BY <1>1, <1>2 DEF DetachConnection, TableInv, TableTypeOK

\* A session is given up only for a new one, oldest first and never in use; the table
\* outgrows its bound only when all the others are in use; a connection that ends
\* releases its own sessions and nobody else's; and what was evicted leaves nothing.
THEOREM TableGivesUpItsOldest == TableSpec => TableGivesUpWhatItMay
<1>1. TableInv /\ [TableNext]_tableVars =>
        [\A s \in Known : ~ Idle(s) => s \in Known']_tableVars
  BY InvStep, UsedStays
<1>2. TableInv /\ [TableNext]_tableVars =>
        [\A s \in Known' \ Known :
           Cardinality(Known') > MaxSessions => \A t \in Known' \ {s} : ~ Idle(t)]_tableVars
  BY InvStep, BoundYields
<1>3. TableInv /\ [TableNext]_tableVars =>
        [\A s \in Known \ Known' :
           /\ Known' \ Known # {}
           /\ s \in expired \/ \A t \in Known \cap Known' : Idle(t) => s \in recency[t]]_tableVars
  BY InvStep, OldestGo
<1>4. TableInv /\ [TableNext]_tableVars =>
        [\A c \in Conns : conn[c] = "unmapped" /\ conn'[c] = "closed" =>
           \A s \in Known : owner'[s] = IF owner[s] = c THEN NoConn ELSE owner[s]]_tableVars
  BY OwnOnly
<1>5. TableInv => TableIsConsistent /\ OwnersAreNotClosed
  BY DEF TableInv
<1>6. QED
  BY TableIsKept, <1>1, <1>2, <1>3, <1>4, <1>5, PTL
     DEF TableSpec, TableGivesUpWhatItMay, InUseIsKept, BoundYieldsOnlyToUse, OldestGoFirst,
         CleanupReleasesOnlyItsOwn

-----------------------------------------------------------------------------
(***************************************************************************)
(* LocalSetup for any number of consoles, shells, keys and edits: a shell  *)
(* that has the version of the settings has the settings.                  *)
(*                                                                         *)
(* Settings and version are two files.  Whoever replaces the settings      *)
(* makes the version that is there another's, and the new one is greater   *)
(* than any a shell has seen; so a shell can only be wrong if the settings *)
(* were replaced between its two reads.                                    *)
(***************************************************************************)

\* A shell holds a configuration it was given, and has bound it.
ShellTypes(s) ==
  /\ DOMAIN zsh[s] = {"at", "settings", "version", "raced", "keys"}
  /\ zsh[s].at \in {"prompt", "source", "version"}
  /\ zsh[s].settings \in Configs /\ zsh[s].version \in Nat /\ zsh[s].raced \in BOOLEAN
  /\ DOMAIN zsh[s].keys = Keys

\* The commands that look for a configuration.
Configuring == {"install", "validate", "edit", "set", "onboard", "toggle"}

\* A command that is to write a configuration has one.
CommandTypes ==
  /\ DOMAIN proc = Consoles
  /\ \A p \in Consoles : /\ DOMAIN proc[p] = {"kind", "at", "conf", "lines", "edits"}
                         /\ proc[p].at \in {"keys", "change", "save"} => proc[p].conf \in Configs
                         /\ proc[p].at \in {"config", "create"} => proc[p].kind \in Configuring

SetupTypes ==
  /\ config \in Configs \cup {Absent, Malformed} /\ settings \in Configs \cup {Absent}
  /\ DOMAIN version = {"n", "fresh"} /\ version.n \in Nat /\ version.fresh \in BOOLEAN
  /\ DOMAIN used = {"commands", "edits", "bound", "versions"} /\ used.versions \in Nat
  /\ CommandTypes
  /\ DOMAIN zsh = Loaded /\ \A s \in Loaded : ShellTypes(s)

\* A shell on its way to a version has the settings there are, or they were replaced
\* meanwhile; the version of settings that were replaced is not fresh, and every new one is
\* greater than all before.
Follows(s) ==
  /\ zsh[s].version <= used.versions
  /\ zsh[s].at = "version" => zsh[s].settings = Effective \/ zsh[s].raced
  /\ zsh[s].at = "prompt" /\ version.fresh /\ version.n = zsh[s].version
       => zsh[s].settings = Effective \/ zsh[s].raced

KeysRun(s) ==
  /\ \A w \in Widgets : zsh[s].keys[zsh[s].settings[w]] \in {w, "user"}
  /\ \A k \in Keys : zsh[s].keys[k] \in Widgets => zsh[s].settings[zsh[s].keys[k]] = k

SetupInv ==
  /\ SetupTypes
  /\ version.n <= used.versions /\ (version.fresh => version.n # 0)
  /\ \A s \in Loaded : Follows(s) /\ KeysRun(s)

-----------------------------------------------------------------------------
LEMMA ConfigsAreKeys ==
  \A c \in Configs : c.complete \in Keys /\ c.chat \in Keys /\ c.complete # c.chat
                     /\ c["complete"] = c.complete /\ c["chat"] = c.chat
BY DEF Configs, Widgets

LEMMA AbsentIsNone == Absent \notin Configs /\ Malformed \notin Configs
BY DEF Absent, Malformed, Configs

\* Bindings of a configuration over what is bound.
LEMMA BoundRuns ==
  ASSUME NEW keys, NEW c \in Configs
  PROVE  /\ DOMAIN Bound(keys, c) = Keys
         /\ \A w \in Widgets : Bound(keys, c)[c[w]] = w
         /\ \A k \in Keys : \/ \E w \in Widgets : c[w] = k /\ Bound(keys, c)[k] = w
                            \/ Bound(keys, c)[k] = keys[k]
BY ConfigsAreKeys DEF Bound, Widgets

\* Whatever ran before: the new keys run their widgets, and no old one does.
LEMMA ReboundRuns ==
  ASSUME NEW keys, NEW old \in Configs, NEW new \in Configs,
         \A k \in Keys : keys[k] \in Widgets => old[keys[k]] = k
  PROVE  /\ DOMAIN Rebound(keys, old, new) = Keys
         /\ \A w \in Widgets : Rebound(keys, old, new)[new[w]] = w
         /\ \A k \in Keys : Rebound(keys, old, new)[k] \in Widgets
                              => new[Rebound(keys, old, new)[k]] = k
<1> DEFINE free == [k \in Keys |-> IF \E w \in Widgets : old[w] = k /\ keys[k] = w
                                   THEN "none" ELSE keys[k]]
<1>1. \A k \in Keys : free[k] \notin Widgets
  BY DEF Widgets
<1>2. Rebound(keys, old, new) = Bound(free, new)
  BY DEF Rebound
<1> HIDE DEF free
<1>3. /\ DOMAIN Bound(free, new) = Keys
      /\ \A w \in Widgets : Bound(free, new)[new[w]] = w
      /\ \A k \in Keys : \/ \E w \in Widgets : new[w] = k /\ Bound(free, new)[k] = w
                         \/ Bound(free, new)[k] = free[k]
  BY BoundRuns
<1>4. PICK now : now = Bound(free, new)
  OBVIOUS
<1>5. \A k \in Keys : now[k] \in Widgets => new[now[k]] = k
  BY <1>1, <1>3, <1>4
<1> QED
  BY <1>2, <1>3, <1>4, <1>5

LEMMA EffectiveIsConfig == SetupTypes => Effective \in Configs
BY SetupAssumption, AbsentIsNone DEF SetupTypes, Effective

-----------------------------------------------------------------------------
LEMMA SetupBegins == SetupInit => SetupInv
<1> SUFFICES ASSUME SetupInit PROVE SetupInv
  OBVIOUS
<1>0. Defaults \in Configs
  BY SetupAssumption
<1>1. /\ config = Absent /\ settings = Absent /\ version = [n |-> 0, fresh |-> FALSE]
      /\ proc = [p \in Consoles |-> NoCommand]
      /\ used = [commands |-> 0, edits |-> 0, bound |-> 0, versions |-> 0]
  BY DEF SetupInit
<1>2. PICK keys : keys = Bound([k \in Keys |-> "none"], Defaults)
  OBVIOUS
<1>3. zsh = [s \in Loaded |->
        [at |-> "prompt", settings |-> Defaults, version |-> 0, raced |-> FALSE, keys |-> keys]]
  BY <1>2 DEF SetupInit
<1>4. /\ DOMAIN keys = Keys /\ \A w \in Widgets : keys[Defaults[w]] = w
      /\ \A k \in Keys : keys[k] \in Widgets => Defaults[keys[k]] = k
  <2>1. PICK free : free = [k \in Keys |-> "none"]
    OBVIOUS
  <2>2. /\ DOMAIN keys = Keys
        /\ \A w \in Widgets : keys[Defaults[w]] = w
        /\ \A k \in Keys : (\E w \in Widgets : Defaults[w] = k /\ keys[k] = w) \/ keys[k] = free[k]
    BY <1>0, <1>2, <2>1, BoundRuns
  <2>3. \A k \in Keys : free[k] \notin Widgets
    BY <2>1 DEF Widgets
  <2> QED
    BY <2>2, <2>3
<1>5. Effective = Defaults
  BY <1>1 DEF Effective
<1>6. \A s \in Loaded : ShellTypes(s)
  BY <1>0, <1>3, <1>4 DEF ShellTypes
<1>7. \A s \in Loaded : Follows(s) /\ KeysRun(s)
  BY <1>0, <1>1, <1>3, <1>4, <1>5 DEF Follows, KeysRun
<1>8. SetupTypes
  BY <1>1, <1>3, <1>6 DEF SetupTypes, CommandTypes, NoCommand
<1> QED
  BY <1>1, <1>7, <1>8 DEF SetupInv

\* What a command does to the terminals is of one of these kinds.
LEMMA GoesOn ==
  ASSUME SetupTypes, NEW p \in Consoles, NEW step, NEW conf,
         step \in {"config", "create"} => proc[p].kind \in Configuring,
         \/ Goes(p, step) /\ (step \in {"keys", "change", "save"} => proc[p].conf \in Configs)
         \/ GoesWith(p, step, conf) /\ (step \in {"keys", "change", "save"} => conf \in Configs)
  PROVE  CommandTypes'
<1>1. DOMAIN proc = Consoles /\ \A q \in Consoles :
        /\ DOMAIN proc[q] = {"kind", "at", "conf", "lines", "edits"}
        /\ proc[q].at \in {"keys", "change", "save"} => proc[q].conf \in Configs
        /\ proc[q].at \in {"config", "create"} => proc[q].kind \in Configuring
  BY DEF SetupTypes, CommandTypes
<1>2. CASE Goes(p, step) /\ (step \in {"keys", "change", "save"} => proc[p].conf \in Configs)
  BY <1>1, <1>2 DEF Goes, NoCommand, CommandTypes
<1>3. CASE GoesWith(p, step, conf) /\ (step \in {"keys", "change", "save"} => conf \in Configs)
  BY <1>1, <1>3 DEF GoesWith, NoCommand, CommandTypes
<1> QED
  BY <1>2, <1>3
\* Steps at which no shell moves and the settings stay.
LEMMA ShellsStay ==
  ASSUME SetupInv, zsh' = zsh, settings' = settings, CommandTypes',
         config' \in Configs \cup {Absent, Malformed},
         DOMAIN used' = {"commands", "edits", "bound", "versions"},
         used'.versions \in Nat, used'.versions >= used.versions,
         \/ version' = version
         \/ /\ DOMAIN version' = {"n", "fresh"} /\ version'.n \in Nat /\ version'.fresh \in BOOLEAN
            /\ version'.n <= used'.versions
            /\ version'.fresh => version'.n > used.versions
  PROVE  SetupInv'
<1>1. SetupTypes /\ (version.fresh => version.n # 0) /\ version.n <= used.versions
  BY DEF SetupInv
<1>2. /\ DOMAIN version' = {"n", "fresh"} /\ version'.n \in Nat /\ version'.fresh \in BOOLEAN
      /\ version'.n <= used'.versions /\ (version'.fresh => version'.n # 0)
      /\ version'.fresh => version' = version \/ version'.n > used.versions
  BY <1>1 DEF SetupTypes
<1>3. SetupTypes'
  BY <1>1, <1>2 DEF SetupTypes, ShellTypes
<1>4. Effective' = Effective
  BY DEF Effective
<1>5. ASSUME NEW s \in Loaded PROVE Follows(s)' /\ KeysRun(s)'
  <2>1. Follows(s) /\ KeysRun(s) /\ zsh[s].version \in Nat
    BY <1>1 DEF SetupInv, SetupTypes, ShellTypes
  <2>2. KeysRun(s)'
    BY <2>1 DEF KeysRun
  <2>3. zsh'[s].version <= used'.versions
    BY <1>1, <2>1 DEF Follows, SetupTypes
  <2>4. version'.fresh /\ version'.n = zsh[s].version => version' = version
    BY <1>1, <1>2, <2>1 DEF Follows, SetupTypes
  <2>5. Follows(s)'
    BY <1>4, <2>1, <2>3, <2>4 DEF Follows
  <2> QED
    BY <2>2, <2>5
<1> QED
  BY <1>2, <1>3, <1>5 DEF SetupInv

\* Steps that replace the settings: their version is not theirs.
LEMMA SettingsReplaced ==
  ASSUME SetupInv, Replaced, settings' \in Configs \cup {Absent}, CommandTypes',
         config' \in Configs \cup {Absent, Malformed}, used' = used,
         DOMAIN version' = {"n", "fresh"}, version'.n \in {0, version.n}, version'.fresh = FALSE
  PROVE  SetupInv'
<1>1. SetupTypes /\ version.n <= used.versions
  BY DEF SetupInv
<1>2. version'.n \in Nat /\ version'.n <= used'.versions /\ ~version'.fresh
  BY <1>1 DEF SetupTypes
<1>3. ASSUME NEW s \in Loaded
      PROVE  ShellTypes(s)' /\ Follows(s)' /\ KeysRun(s)'
  <2>1. Follows(s) /\ KeysRun(s) /\ ShellTypes(s)
    BY <1>1 DEF SetupInv, SetupTypes
  <2>2. /\ DOMAIN zsh'[s] = DOMAIN zsh[s]
        /\ zsh'[s].at = zsh[s].at /\ zsh'[s].settings = zsh[s].settings
        /\ zsh'[s].version = zsh[s].version /\ zsh'[s].keys = zsh[s].keys
    BY <1>1, <2>1 DEF Replaced, SetupTypes, ShellTypes
  <2>3. zsh'[s].raced = (zsh[s].raced \/ zsh[s].at = "version")
    BY <1>1, <2>1 DEF Replaced, SetupTypes, ShellTypes
  <2>4. ShellTypes(s)'
    BY <2>1, <2>2, <2>3 DEF ShellTypes
  <2>5. KeysRun(s)'
    BY <2>1, <2>2 DEF KeysRun
  <2>6. zsh'[s].at = "version" => zsh'[s].raced
    BY <2>2, <2>3
  <2>7. Follows(s)'
    BY <1>2, <2>1, <2>2, <2>6 DEF Follows
  <2> QED
    BY <2>4, <2>5, <2>7
<1>4. DOMAIN zsh' = Loaded
  BY DEF Replaced
<1>5. SetupTypes'
  BY <1>1, <1>2, <1>3, <1>4 DEF SetupTypes
<1> QED
  BY <1>2, <1>3, <1>5 DEF SetupInv

\* Steps of one shell.
LEMMA ShellMoves ==
  ASSUME SetupInv, NEW s \in Loaded, NEW one, zsh' = [zsh EXCEPT ![s] = one],
         UNCHANGED <<config, settings, version, proc>>,
         DOMAIN used' = {"commands", "edits", "bound", "versions"}, used'.versions = used.versions,
         ShellTypes(s)', Follows(s)', KeysRun(s)'
  PROVE  SetupInv'
<1>1. SetupTypes
  BY DEF SetupInv
<1>2. DOMAIN zsh' = Loaded /\ \A t \in Loaded \ {s} : zsh'[t] = zsh[t]
  BY <1>1 DEF SetupTypes
<1>3. Effective' = Effective
  BY DEF Effective
<1>4. ASSUME NEW t \in Loaded PROVE ShellTypes(t)' /\ Follows(t)' /\ KeysRun(t)'
  <2>1. CASE t = s
    BY <2>1
  <2>2. CASE t # s
    <3>1. zsh'[t] = zsh[t] /\ ShellTypes(t) /\ Follows(t) /\ KeysRun(t)
      BY <1>1, <1>2, <2>2 DEF SetupInv, SetupTypes
    <3>2. ShellTypes(t)' /\ KeysRun(t)'
      BY <3>1 DEF ShellTypes, KeysRun
    <3>3. Follows(t)'
      BY <1>3, <3>1 DEF Follows
    <3> QED
      BY <3>2, <3>3
  <2> QED
    BY <2>1, <2>2
<1>5. SetupTypes'
  BY <1>1, <1>2, <1>4 DEF SetupTypes, CommandTypes
<1> QED
  BY <1>1, <1>4, <1>5 DEF SetupInv

-----------------------------------------------------------------------------
\* A step of a command that touches no settings.
LEMMA QuietStep ==
  ASSUME SetupInv, CommandTypes', config' \in Configs \cup {Absent, Malformed},
         UNCHANGED <<settings, version, zsh>>,
         DOMAIN used' = {"commands", "edits", "bound", "versions"}, used'.versions = used.versions
  PROVE  SetupInv'
<1>1. used'.versions \in Nat /\ used'.versions >= used.versions
  BY DEF SetupInv, SetupTypes
<1> QED
  BY <1>1, ShellsStay

LEMMA CommandStep ==
  ASSUME SetupInv, NEW p \in Consoles,
         \/ Kill(p) \/ CheckConfig(p) \/ CreateConfig(p) \/ LoadConfig(p) \/ ChangeConfig(p)
         \/ SaveConfig(p) \/ EditConfig(p) \/ LoadSettings(p)
         \/ ReadZshrc(p) \/ Backup(p) \/ AppendBlock(p) \/ ReadBlock(p) \/ RemoveBlock(p)
  PROVE  SetupInv'
<1>1. SetupTypes /\ CommandTypes
  BY DEF SetupInv, SetupTypes
<1>2. config \in Configs \cup {Absent, Malformed}
      /\ DOMAIN used = {"commands", "edits", "bound", "versions"}
  BY <1>1 DEF SetupTypes
<1>3. CASE Kill(p)
  <2>1. CommandTypes'
    BY <1>1, <1>3, GoesOn DEF Kill
  <2> QED
    BY <1>2, <1>3, <2>1, QuietStep DEF Kill
<1>4. CASE CheckConfig(p) \/ CreateConfig(p)
  <2>1. PICK step : Goes(p, step) /\ step \in {"create", Configured(p)}
    BY <1>4 DEF CheckConfig, CreateConfig
  <2>2. At(p, "config") \/ At(p, "create")
    BY <1>4 DEF CheckConfig, CreateConfig
  <2>3. Configured(p) \notin {"keys", "change", "save"}
    <3>1. proc[p].kind \in Configuring
      BY <1>1, <2>2 DEF At, CommandTypes
    <3>2. Configured(p) \in {"settings", "edit", "load", "over"}
      <4>1. PICK installs \in BOOLEAN : installs = Installs(p)
        BY DEF Installs
      <4>2. Configured(p) =
              CASE installs \/ proc[p].kind = "validate" -> "settings"
                [] proc[p].kind = "edit" -> "edit"
                [] proc[p].kind \in {"set", "onboard"} /\ ~installs -> "load"
                [] proc[p].kind = "toggle" -> "over"
        BY <4>1 DEF Configured
      <4>3. proc[p].kind = "install" => installs
        BY <4>1 DEF Installs
      <4> QED
        BY <3>1, <4>2, <4>3 DEF Configuring
    <3> QED
      BY <3>2
  <2>4. CommandTypes'
    <3>1. proc[p].kind \in Configuring
      BY <1>1, <2>2 DEF At, CommandTypes
    <3> QED
      BY <1>1, <2>1, <2>3, <3>1, GoesOn
  <2>5. config' \in {config, Defaults}
    BY <1>4 DEF CheckConfig, CreateConfig
  <2>6. UNCHANGED <<settings, version, zsh, used>>
    BY <1>4 DEF CheckConfig, CreateConfig
  <2> QED
    BY <1>2, <2>4, <2>5, <2>6, SetupAssumption, QuietStep
<1>5. CASE LoadConfig(p)
  <2>1. CommandTypes'
    <3>1. CASE config \in Configs /\ GoesWith(p, "change", config)
      BY <1>1, <3>1, GoesOn
    <3>2. CASE Goes(p, "over")
      BY <1>1, <3>2, GoesOn
    <3> QED
      BY <1>5, <3>1, <3>2 DEF LoadConfig
  <2> QED
    BY <1>2, <1>5, <2>1, QuietStep DEF LoadConfig
<1>6. CASE ChangeConfig(p)
  <2>1. PICK new : \/ Goes(p, "over") \/ Goes(p, "settings")
                   \/ new \in Configs /\ GoesWith(p, "save", new)
    BY <1>6 DEF ChangeConfig
  <2>2. CommandTypes'
    <3>1. CASE Goes(p, "over") \/ Goes(p, "settings")
      BY <1>1, <3>1, GoesOn
    <3>2. CASE new \in Configs /\ GoesWith(p, "save", new)
      BY <1>1, <3>2, GoesOn
    <3> QED
      BY <2>1, <3>1, <3>2
  <2> QED
    BY <1>2, <1>6, <2>2, QuietStep DEF ChangeConfig
<1>7. CASE SaveConfig(p)
  <2>1. CommandTypes'
    BY <1>1, <1>7, GoesOn DEF SaveConfig
  <2>2. config' \in Configs
    BY <1>1, <1>7 DEF SaveConfig, At, CommandTypes
  <2> QED
    BY <1>2, <1>7, <2>1, <2>2, QuietStep DEF SaveConfig
<1>8. CASE EditConfig(p)
  <2>1. CommandTypes'
    BY <1>1, <1>8, GoesOn DEF EditConfig
  <2> QED
    BY <1>2, <1>8, <2>1, QuietStep DEF EditConfig
<1>9. CASE LoadSettings(p)
  <2>1. CommandTypes'
    <3>1. CASE config \in Configs /\ GoesWith(p, "keys", config)
      BY <1>1, <3>1, GoesOn
    <3>2. CASE Goes(p, "over")
      BY <1>1, <3>2, GoesOn
    <3> QED
      BY <1>9, <3>1, <3>2 DEF LoadSettings
  <2> QED
    BY <1>2, <1>9, <2>1, QuietStep DEF LoadSettings
<1>10. CASE ReadZshrc(p) \/ ReadBlock(p) \/ Backup(p) \/ AppendBlock(p) \/ RemoveBlock(p)
  <2>1. CommandTypes'
    <3>1. CASE FinishesInstall(p)
      <4>1. CASE proc[p].kind = "onboard"
        BY <1>1, <3>1, <4>1 DEF FinishesInstall, CommandTypes, Configuring
      <4>2. CASE Goes(p, "over")
        BY <1>1, <4>2, GoesOn
      <4> QED
        BY <3>1, <4>1, <4>2 DEF FinishesInstall
    <3>2. CASE ReadZshrc(p)
      <4>1. CASE Goes(p, "over")
        BY <1>1, <4>1, GoesOn
      <4>2. CASE proc' = [proc EXCEPT ![p].lines = zshrc.lines, ![p].edits = used.edits,
                                      ![p].at = "backup"]
        BY <1>1, <4>2 DEF CommandTypes
      <4> QED
        BY <3>1, <3>2, <4>1, <4>2 DEF ReadZshrc
    <3>3. CASE ReadBlock(p)
      <4>1. PICK step \in {"unset", "remove"} :
              proc' = [proc EXCEPT ![p].lines = zshrc.lines, ![p].edits = used.edits, ![p].at = step]
        BY <3>3 DEF ReadBlock
      <4> QED
        BY <1>1, <4>1 DEF CommandTypes
    <3>4. CASE Backup(p)
      BY <1>1, <3>4, GoesOn DEF Backup
    <3>5. CASE RemoveBlock(p)
      BY <1>1, <3>5, GoesOn DEF RemoveBlock
    <3> QED
      BY <1>10, <3>1, <3>2, <3>3, <3>4, <3>5 DEF AppendBlock
  <2>2. UNCHANGED <<config, settings, version, zsh, used>>
    BY <1>10 DEF ReadZshrc, ReadBlock, Backup, AppendBlock, RemoveBlock
  <2> QED
    BY <1>2, <2>1, <2>2, QuietStep
<1> QED
  BY <1>3, <1>4, <1>5, <1>6, <1>7, <1>8, <1>9, <1>10

LEMMA SettingsStep ==
  ASSUME SetupInv, NEW p \in Consoles,
         WriteSettings(p) \/ RemoveSettings(p) \/ RemoveVersion(p) \/ Purge(p)
  PROVE  SetupInv'
<1>1. SetupTypes /\ CommandTypes /\ version.n <= used.versions
  BY DEF SetupInv, SetupTypes
<1>2. /\ config \in Configs \cup {Absent, Malformed} /\ settings \in Configs \cup {Absent}
      /\ DOMAIN used = {"commands", "edits", "bound", "versions"} /\ used.versions \in Nat
      /\ DOMAIN version = {"n", "fresh"} /\ version.n \in Nat
  BY <1>1 DEF SetupTypes
<1>3. CASE WriteSettings(p) /\ At(p, "keys")
  <2>1. /\ settings' = proc[p].conf /\ Replaced /\ version' = [version EXCEPT !.fresh = At(p, "version")]
        /\ Goes(p, "version") /\ UNCHANGED <<used, config>>
    BY <1>3 DEF WriteSettings, Writes, At
  <2>2. settings' \in Configs /\ ~At(p, "version")
    BY <1>1, <1>3, <2>1 DEF CommandTypes, At
  <2>3. CommandTypes'
    BY <1>1, <2>1, GoesOn
  <2>4. DOMAIN version' = {"n", "fresh"} /\ version'.n = version.n /\ version'.fresh = FALSE
    BY <1>2, <2>1, <2>2
  <2> QED
    BY <1>2, <2>1, <2>2, <2>3, <2>4, SettingsReplaced
<1>4. CASE WriteSettings(p) /\ At(p, "version")
  <2>1. /\ used' = [used EXCEPT !.versions = @ + 1]
        /\ version' = [n |-> used.versions + 1, fresh |-> At(p, "version")]
        /\ UNCHANGED <<settings, zsh, config>>
    BY <1>4 DEF WriteSettings, Writes, At
  <2>2. \E step \in {"zshrc", "over"} : Goes(p, step)
    BY <1>4 DEF WriteSettings, At
  <2>3. CommandTypes'
    BY <1>1, <2>2, GoesOn
  <2>4. /\ DOMAIN used' = {"commands", "edits", "bound", "versions"} /\ used'.versions = used.versions + 1
        /\ DOMAIN version' = {"n", "fresh"} /\ version'.n = used.versions + 1
    BY <1>2, <2>1
  <2>5. version'.fresh \in BOOLEAN
    BY <2>1 DEF At
  <2> QED
    BY <1>2, <2>1, <2>3, <2>4, <2>5, ShellsStay
<1>5. CASE RemoveSettings(p)
  <2>1. CommandTypes'
    BY <1>1, <1>5, GoesOn DEF RemoveSettings
  <2>2. DOMAIN version' = {"n", "fresh"} /\ version'.n = version.n /\ version'.fresh = FALSE
    BY <1>2, <1>5 DEF RemoveSettings
  <2> QED
    BY <1>2, <1>5, <2>1, <2>2, SettingsReplaced DEF RemoveSettings
<1>6. CASE RemoveVersion(p)
  <2>1. CommandTypes'
    <3>1. \E step \in {"purge", "over"} : Goes(p, step)
      BY <1>6 DEF RemoveVersion
    <3> QED BY <1>1, <3>1, GoesOn
  <2>2. DOMAIN version' = {"n", "fresh"} /\ version'.n = 0 /\ version'.fresh = FALSE
    BY <1>6 DEF RemoveVersion
  <2> QED
    BY <1>2, <1>6, <2>1, <2>2, ShellsStay DEF RemoveVersion
<1>7. CASE Purge(p)
  <2>1. CommandTypes'
    BY <1>1, <1>7, GoesOn DEF Purge
  <2>2. DOMAIN version' = {"n", "fresh"} /\ version'.n = 0 /\ version'.fresh = FALSE
    BY <1>7 DEF Purge
  <2> QED
    BY <1>2, <1>7, <2>1, <2>2, SettingsReplaced DEF Purge
<1> QED
  BY <1>3, <1>4, <1>5, <1>6, <1>7 DEF WriteSettings, At

LEMMA PromptStep ==
  ASSUME SetupInv, NEW s \in Loaded, Prompt(s) \/ Source(s) \/ ReadVersion(s) \/ BindKey(s)
  PROVE  SetupInv'
<1>1. SetupTypes /\ version.n <= used.versions /\ (version.fresh => version.n # 0)
      /\ ShellTypes(s) /\ Follows(s) /\ KeysRun(s) /\ DOMAIN zsh = Loaded
  BY DEF SetupInv, SetupTypes
<1>2. /\ DOMAIN used = {"commands", "edits", "bound", "versions"} /\ used.versions \in Nat
      /\ version.n \in Nat /\ Effective \in Configs
  BY <1>1, EffectiveIsConfig DEF SetupTypes
<1>3. CASE Prompt(s)
  <2>1. PICK one : one = [zsh[s] EXCEPT !.at = "source"]
    OBVIOUS
  <2>2. zsh' = [zsh EXCEPT ![s] = one] /\ UNCHANGED <<config, settings, version, proc, used>>
    BY <1>3, <2>1 DEF Prompt
  <2>3. /\ zsh'[s].at = "source" /\ DOMAIN zsh'[s] = DOMAIN zsh[s]
        /\ zsh'[s].settings = zsh[s].settings /\ zsh'[s].version = zsh[s].version
        /\ zsh'[s].raced = zsh[s].raced /\ zsh'[s].keys = zsh[s].keys
    BY <1>1, <2>1, <2>2 DEF ShellTypes
  <2>4. ShellTypes(s)' /\ KeysRun(s)' /\ Follows(s)'
    BY <1>1, <2>2, <2>3 DEF ShellTypes, KeysRun, Follows
  <2> QED
    BY <1>2, <2>2, <2>4, ShellMoves
<1>4. CASE Source(s)
  <2>1. PICK one, keys : /\ keys = Rebound(zsh[s].keys, zsh[s].settings, Effective)
                         /\ one = [zsh[s] EXCEPT !.at = "version", !.settings = Effective,
                                                 !.raced = FALSE, !.keys = keys]
    OBVIOUS
  <2>2. zsh' = [zsh EXCEPT ![s] = one] /\ UNCHANGED <<config, settings, version, proc, used>>
    BY <1>1, <1>4, <2>1 DEF Source, ShellTypes
  <2>3. /\ zsh'[s].at = "version" /\ DOMAIN zsh'[s] = DOMAIN zsh[s]
        /\ zsh'[s].settings = Effective /\ zsh'[s].version = zsh[s].version
        /\ zsh'[s].raced = FALSE /\ zsh'[s].keys = keys
    BY <1>1, <2>1, <2>2 DEF ShellTypes
  <2>4. PICK bound, old, new : bound = zsh[s].keys /\ old = zsh[s].settings /\ new = Effective
    OBVIOUS
  <2>5. old \in Configs /\ new \in Configs /\ \A k \in Keys : bound[k] \in Widgets => old[bound[k]] = k
    BY <1>1, <1>2, <2>4 DEF ShellTypes, KeysRun
  <2>6. /\ DOMAIN keys = Keys /\ \A w \in Widgets : keys[new[w]] = w
        /\ \A k \in Keys : keys[k] \in Widgets => new[keys[k]] = k
    BY <2>1, <2>4, <2>5, ReboundRuns
  <2>7. Effective' = Effective
    BY <2>2 DEF Effective
  <2>8. ShellTypes(s)'
    BY <1>1, <1>2, <2>3, <2>6 DEF ShellTypes
  <2>9. KeysRun(s)'
    BY <2>3, <2>4, <2>6 DEF KeysRun
  <2>10. Follows(s)'
    BY <1>1, <2>2, <2>3, <2>7 DEF Follows
  <2> QED
    BY <1>2, <2>2, <2>8, <2>9, <2>10, ShellMoves
<1>5. CASE ReadVersion(s)
  <2>1. PICK one, n : /\ n = IF version.n = 0 THEN zsh[s].version ELSE version.n
                      /\ one = [zsh[s] EXCEPT !.at = "prompt", !.version = n]
    OBVIOUS
  <2>2. zsh' = [zsh EXCEPT ![s] = one] /\ UNCHANGED <<config, settings, version, proc, used>>
        /\ zsh[s].at = "version"
    BY <1>1, <1>5, <2>1 DEF ReadVersion, ShellTypes
  <2>3. /\ zsh'[s].at = "prompt" /\ DOMAIN zsh'[s] = DOMAIN zsh[s]
        /\ zsh'[s].settings = zsh[s].settings /\ zsh'[s].version = n
        /\ zsh'[s].raced = zsh[s].raced /\ zsh'[s].keys = zsh[s].keys
    BY <1>1, <2>1, <2>2 DEF ShellTypes
  <2>4. n \in Nat /\ n <= used.versions
    BY <1>1, <1>2, <2>1 DEF ShellTypes, Follows
  <2>5. Effective' = Effective
    BY <2>2 DEF Effective
  <2>6. ShellTypes(s)' /\ KeysRun(s)'
    BY <1>1, <2>3, <2>4 DEF ShellTypes, KeysRun
  <2>7. Follows(s)'
    BY <1>1, <2>2, <2>3, <2>4, <2>5 DEF Follows
  <2> QED
    BY <1>2, <2>2, <2>6, <2>7, ShellMoves
<1>6. CASE BindKey(s)
  <2>1. PICK one, keys : /\ keys = [zsh[s].keys EXCEPT ![UserKey] = "user"]
                         /\ one = [zsh[s] EXCEPT !.keys = keys]
    OBVIOUS
  <2>2. zsh' = [zsh EXCEPT ![s] = one] /\ UNCHANGED <<config, settings, version, proc>>
        /\ used' = [used EXCEPT !.bound = @ + 1]
    BY <1>1, <1>6, <2>1 DEF BindKey, ShellTypes
  <2>3. /\ zsh'[s].at = zsh[s].at /\ DOMAIN zsh'[s] = DOMAIN zsh[s]
        /\ zsh'[s].settings = zsh[s].settings /\ zsh'[s].version = zsh[s].version
        /\ zsh'[s].raced = zsh[s].raced /\ zsh'[s].keys = keys
    BY <1>1, <2>1, <2>2 DEF ShellTypes
  <2>4. /\ DOMAIN used' = {"commands", "edits", "bound", "versions"} /\ used'.versions = used.versions
    BY <1>2, <2>2
  <2>5. DOMAIN keys = Keys /\ \A k \in Keys : keys[k] = "user" \/ keys[k] = zsh[s].keys[k]
    BY <1>1, <2>1 DEF ShellTypes
  <2>6. ShellTypes(s)'
    BY <1>1, <2>3, <2>5 DEF ShellTypes
  <2>7. KeysRun(s)'
    <3>1. \A w \in Widgets : zsh[s].settings[w] \in Keys
      BY <1>1, ConfigsAreKeys DEF ShellTypes, Widgets
    <3>2. "user" \notin Widgets
      BY DEF Widgets
    <3> QED
      BY <1>1, <2>3, <2>5, <3>1, <3>2 DEF KeysRun
  <2>8. Effective' = Effective
    BY <2>2 DEF Effective
  <2>9. Follows(s)'
    BY <1>1, <2>2, <2>3, <2>4, <2>8 DEF Follows
  <2> QED
    BY <2>2, <2>4, <2>6, <2>7, <2>9, ShellMoves
<1> QED
  BY <1>3, <1>4, <1>5, <1>6

LEMMA SetupStep == SetupInv /\ [SetupNext]_setupVars => SetupInv'
<1> SUFFICES ASSUME SetupInv, [SetupNext]_setupVars PROVE SetupInv'
  OBVIOUS
<1>1. SetupTypes /\ CommandTypes
  BY DEF SetupInv, SetupTypes
<1>2. config \in Configs \cup {Absent, Malformed}
      /\ DOMAIN used = {"commands", "edits", "bound", "versions"}
  BY <1>1 DEF SetupTypes
<1>3. CASE UNCHANGED setupVars
  <2>1. CommandTypes'
    BY <1>1, <1>3 DEF setupVars, CommandTypes
  <2> QED
    BY <1>2, <1>3, <2>1, QuietStep DEF setupVars
<1>4. CASE \E p \in Consoles, kind \in Kinds : Run(p, kind)
  <2>1. PICK p \in Consoles, kind \in Kinds : Run(p, kind)
    BY <1>4
  <2>2. PICK lines, step : /\ step \in {"unhook", "config"} /\ (step = "config" => kind \in Configuring)
                           /\ proc' = [proc EXCEPT ![p] = [NoCommand EXCEPT !.kind = kind, !.at = step,
                                                                          !.lines = lines]]
    BY <2>1 DEF Run, FirstStep, Kinds, Configuring
  <2>3. CommandTypes'
    BY <1>1, <2>2 DEF CommandTypes, NoCommand
  <2>4. used' = [used EXCEPT !.commands = @ + 1] /\ UNCHANGED <<config, settings, version, zsh>>
    BY <2>1 DEF Run
  <2>5. DOMAIN used' = {"commands", "edits", "bound", "versions"} /\ used'.versions = used.versions
    BY <1>2, <2>4
  <2> QED
    BY <1>2, <2>3, <2>4, <2>5, QuietStep
<1>5. CASE EditZshrc
  <2>1. used' = [used EXCEPT !.edits = @ + 1] /\ UNCHANGED <<config, settings, version, proc, zsh>>
    BY <1>5 DEF EditZshrc
  <2>2. CommandTypes'
    BY <1>1, <2>1 DEF CommandTypes
  <2>3. DOMAIN used' = {"commands", "edits", "bound", "versions"} /\ used'.versions = used.versions
    BY <1>2, <2>1
  <2> QED
    BY <1>2, <2>1, <2>2, <2>3, QuietStep
<1> QED
  BY <1>3, <1>4, <1>5, CommandStep, SettingsStep, PromptStep DEF SetupNext

\* The invariant of settings, versions and shells is kept.
THEOREM SettingsAreKept == SetupSpec => []SetupInv
BY SetupBegins, SetupStep, PTL DEF SetupSpec

\* For any consoles, shells, keys and edits: a shell that has the version of the settings
\* has the settings, and each key runs its widget.
THEOREM ShellsFollowSettings == SetupSpec => []ShellsTakeSettings
<1>1. SetupInv => ShellsTakeSettings
  BY DEF SetupInv, ShellsTakeSettings, SettingsAreTaken, KeysRunTheirWidgets, Follows, KeysRun
<1> QED
  BY SettingsAreKept, <1>1, PTL

-----------------------------------------------------------------------------
(***************************************************************************)
(* LocalSetup for any lines of a .zshrc and any number of consoles and     *)
(* edits: the user's own lines stay.  A command writes what it read many   *)
(* steps before, so the invariant says of each copy under way what is said *)
(* of the file, and, if nothing was edited since, that its lines of the    *)
(* user's are those of the file.                                           *)
(***************************************************************************)

\* The recursive function of Only, at some length.
Chosen(g, lines, places, m) ==
  g = [n \in 0..m |->
         IF n = 0 THEN <<>>
         ELSE IF n \in places THEN Append(g[n - 1], lines[n]) ELSE g[n - 1]]
Taken(sofar, lines, places, n) == IF n \in places THEN Append(sofar, lines[n]) ELSE sofar

LEMMA InductionOverNat ==
  ASSUME NEW T \in SUBSET Nat, 0 \in T, \A n \in T : n + 1 \in T
  PROVE  T = Nat
<1>1. SUFFICES ASSUME Nat \ T # {} PROVE FALSE
  OBVIOUS
<1>2. PICK m \in Nat \ T : \A y \in Nat \ T : m <= y
  BY <1>1, SmallestNat
<1>3. m - 1 \in Nat /\ ~(m <= m - 1)
  BY <1>2
<1>4. m - 1 \in T
  BY <1>2, <1>3
<1> QED BY <1>2, <1>3, <1>4

LEMMA ChosenStep ==
  ASSUME NEW lines, NEW places, NEW m \in Nat, NEW g, Chosen(g, lines, places, m),
         NEW k \in Nat, k + 1 <= m
  PROVE  g[k + 1] = Taken(g[k], lines, places, k + 1)
<1>1. k + 1 \in 0..m /\ k + 1 # 0 /\ (k + 1) - 1 = k
  OBVIOUS
<1>2. g[k + 1] = IF k + 1 = 0 THEN <<>>
                 ELSE IF k + 1 \in places THEN Append(g[(k + 1) - 1], lines[k + 1]) ELSE g[(k + 1) - 1]
  BY <1>1 DEF Chosen
<1> QED BY <1>1, <1>2 DEF Taken

LEMMA ChosenLast ==
  ASSUME NEW lines, NEW places, NEW g, NEW k \in Nat, Chosen(g, lines, places, k + 1)
  PROVE  g[k + 1] = Taken(g[k], lines, places, k + 1)
<1>1. k + 1 \in Nat /\ k + 1 <= k + 1
  OBVIOUS
<1> QED BY <1>1, ChosenStep

LEMMA ChosenExists ==
  ASSUME NEW lines, NEW places, NEW m \in Nat
  PROVE  \E g : Chosen(g, lines, places, m)
<1> DEFINE T == {n \in Nat : \E g : Chosen(g, lines, places, n)}
<1>1. 0 \in T
  <2>1. Chosen([k \in 0..0 |-> <<>>], lines, places, 0)
    BY DEF Chosen
  <2> QED BY <2>1
<1>2. ASSUME NEW n \in T PROVE n + 1 \in T
  <2>1. PICK h : Chosen(h, lines, places, n)
    BY <1>2
  <2> DEFINE next == Taken(h[n], lines, places, n + 1)
             g == [k \in 0..(n + 1) |-> IF k = n + 1 THEN next ELSE h[k]]
  <2>2. n \in Nat /\ n + 1 \in Nat
    BY <1>2
  <2>3. ASSUME NEW k \in 0..(n + 1)
        PROVE  g[k] = IF k = 0 THEN <<>> ELSE Taken(g[k - 1], lines, places, k)
    <3>1. CASE k = n + 1
      <4>1. g[k] = next /\ g[k - 1] = h[n] /\ k # 0 /\ k - 1 = n
        BY <2>2, <3>1
      <4> QED BY <3>1, <4>1
    <3>2. CASE k = 0
      <4>1. g[k] = h[0] /\ h[0] = <<>>
        BY <2>1, <2>2, <3>2 DEF Chosen
      <4> QED BY <3>2, <4>1
    <3>3. CASE k \in 1..n
      <4>1. g[k] = h[k] /\ g[k - 1] = h[k - 1] /\ k \in 0..n /\ k # 0
        BY <2>2, <3>3
      <4> HIDE DEF g
      <4>2. h[k] = Taken(h[k - 1], lines, places, k)
        BY <2>1, <4>1 DEF Chosen, Taken
      <4> QED BY <4>1, <4>2
    <3> QED BY <2>2, <3>1, <3>2, <3>3
  <2>4. Chosen(g, lines, places, n + 1)
    <3>1. g = [k \in 0..(n + 1) |-> g[k]]
      OBVIOUS
    <3> HIDE DEF g
    <3> QED BY <2>3, <3>1 DEF Chosen, Taken
  <2> HIDE DEF g
  <2> QED BY <2>2, <2>4
<1> HIDE DEF T
<1>3. T \in SUBSET Nat
  BY DEF T
<1>4. T = Nat
  BY <1>1, <1>2, <1>3, InductionOverNat
<1> QED BY <1>4 DEF T

LEMMA ChosenAgrees ==
  ASSUME NEW a, NEW b, NEW I, NEW J, NEW m \in Nat, NEW n \in Nat, m <= n,
         \A i \in 1..m : a[i] = b[i] /\ (i \in I <=> i \in J),
         NEW g, NEW h, Chosen(g, a, I, m), Chosen(h, b, J, n)
  PROVE  g[m] = h[m]
<1> DEFINE T == {k \in Nat : k <= m => g[k] = h[k]}
<1>1. 0 \in T
  BY DEF Chosen
<1>2. ASSUME NEW k \in T PROVE k + 1 \in T
  <2>1. k \in Nat
    BY <1>2
  <2>2. SUFFICES ASSUME k + 1 <= m PROVE g[k + 1] = h[k + 1]
    BY <2>1
  <2>3. g[k] = h[k]
    BY <1>2, <2>1, <2>2
  <2>4. g[k + 1] = Taken(g[k], a, I, k + 1)
    BY <2>1, <2>2, ChosenStep
  <2>5. h[k + 1] = Taken(h[k], b, J, k + 1)
    <3>1. k + 1 <= n
      BY <2>1, <2>2
    <3> QED BY <2>1, <3>1, ChosenStep
  <2>6. a[k + 1] = b[k + 1] /\ (k + 1 \in I <=> k + 1 \in J)
    BY <2>1, <2>2
  <2> QED BY <2>3, <2>4, <2>5, <2>6 DEF Taken
<1> HIDE DEF T
<1>3. T \in SUBSET Nat
  BY DEF T
<1>4. T = Nat
  BY <1>1, <1>2, <1>3, InductionOverNat
<1> QED BY <1>4 DEF T

LEMMA OnlyIsChosen ==
  ASSUME NEW lines, NEW places, Len(lines) \in Nat
  PROVE  \E g : Chosen(g, lines, places, Len(lines)) /\ Only(lines, places) = g[Len(lines)]
<1>1. PICK g : /\ g = (CHOOSE only : Chosen(only, lines, places, Len(lines)))
               /\ Only(lines, places) = g[Len(lines)]
  BY DEF Only, Chosen
<1>2. Chosen(g, lines, places, Len(lines))
  BY <1>1, ChosenExists
<1> QED BY <1>1, <1>2

LEMMA OnlyOfNone == ASSUME NEW places PROVE Only(<<>>, places) = <<>>
BY OnlyIsChosen DEF Chosen

\* One line more; of the others it matters at which places they are.
LEMMA OnlyOfMore ==
  ASSUME NEW S, NEW t \in Seq(S), NEW x \in S, NEW I, NEW J, \A i \in 1..Len(t) : i \in I <=> i \in J
  PROVE  Only(Append(t, x), I) = IF Len(t) + 1 \in I THEN Append(Only(t, J), x) ELSE Only(t, J)
<1> DEFINE more == Append(t, x)
           n == Len(t)
<1>1. n \in Nat /\ Len(more) = n + 1 /\ more[n + 1] = x /\ \A i \in 1..n : t[i] = more[i]
  BY AppendProperties
<1>2. PICK g : Chosen(g, t, J, n) /\ Only(t, J) = g[n]
  BY <1>1, OnlyIsChosen
<1>0. \A i \in 1..n : i \in J <=> i \in I
  OBVIOUS
<1> HIDE DEF more, n
<1>3. PICK h : Chosen(h, more, I, n + 1) /\ Only(more, I) = h[n + 1]
  <2>1. Len(more) \in Nat
    BY <1>1
  <2> QED BY <1>1, <2>1, OnlyIsChosen
<1>4. g[n] = h[n]
  <2>1. n <= n + 1 /\ n + 1 \in Nat
    BY <1>1
  <2> QED BY <1>0, <1>1, <1>2, <1>3, <2>1, ChosenAgrees
<1>5. h[n + 1] = Taken(h[n], more, I, n + 1)
  BY <1>1, <1>3, ChosenLast
<1> QED BY <1>1, <1>2, <1>3, <1>4, <1>5 DEF more, n, Taken

LEMMA OwnOfMore ==
  ASSUME NEW S, NEW t \in Seq(S), NEW x \in S
  PROVE  Own(Append(t, x)) = IF x \in OfTheUser THEN Append(Own(t), x) ELSE Own(t)
<1> DEFINE more == Append(t, x)
           n == Len(t)
           I == {i \in DOMAIN more : more[i] \in OfTheUser}
           J == {i \in DOMAIN t : t[i] \in OfTheUser}
<1>1. n \in Nat /\ DOMAIN t = 1..n /\ DOMAIN more = 1..(n + 1) /\ more[n + 1] = x
      /\ \A i \in 1..n : t[i] = more[i]
  BY AppendProperties
<1>2. (\A i \in 1..n : i \in I <=> i \in J) /\ (n + 1 \in I <=> x \in OfTheUser)
  BY <1>1
<1> HIDE DEF I, J, n
<1>3. Only(more, I) = IF n + 1 \in I THEN Append(Only(t, J), x) ELSE Only(t, J)
  BY <1>2, OnlyOfMore DEF n
<1>4. Own(more) = Only(more, I) /\ Own(t) = Only(t, J)
  BY DEF Own, I, J
<1> QED BY <1>2, <1>3, <1>4
LEMMA OwnOfNone == Own(<<>>) = <<>>
BY OnlyOfNone DEF Own

LEMMA LastLine ==
  ASSUME NEW S, NEW n \in Nat, NEW lines \in Seq(S), Len(lines) = n + 1
  PROVE  \E before \in Seq(S), x \in S : lines = Append(before, x) /\ Len(before) = n
<1> DEFINE before == SubSeq(lines, 1, n)
<1>1. before \in Seq(S) /\ Len(before) = n /\ lines[n + 1] \in S
  OBVIOUS
<1>2. lines = Append(before, lines[n + 1])
  OBVIOUS
<1> HIDE DEF before
<1> QED BY <1>1, <1>2

HasNo(lines, x) == \A i \in 1..Len(lines) : lines[i] # x
HasOne(lines, x) == \A i, j \in 1..Len(lines) : lines[i] = x /\ lines[j] = x => i = j

LEMMA OneMore ==
  ASSUME NEW S, NEW t \in Seq(S), NEW x \in S, NEW y
  PROVE  /\ HasNo(Append(t, x), y) <=> HasNo(t, y) /\ x # y
         /\ HasOne(Append(t, x), y) <=> HasOne(t, y) /\ (x = y => HasNo(t, y))
<1> DEFINE u == Append(t, x)
           n == Len(t)
<1>1. n \in Nat /\ Len(u) = n + 1 /\ u[n + 1] = x /\ \A i \in 1..n : u[i] = t[i]
  BY AppendProperties
<1> HIDE DEF u, n
<1>2. HasNo(u, y) <=> HasNo(t, y) /\ x # y
  BY <1>1 DEF HasNo, n
<1>3. ASSUME HasOne(u, y) PROVE HasOne(t, y) /\ (x = y => HasNo(t, y))
  <2>1. 1..n \subseteq 1..(n + 1) /\ n + 1 \in 1..(n + 1) /\ n + 1 \notin 1..n
    BY <1>1
  <2> QED BY <1>1, <1>3, <2>1 DEF HasNo, HasOne, n
<1>4. ASSUME HasOne(t, y), x = y => HasNo(t, y) PROVE HasOne(u, y)
  <2>1. \A i \in 1..(n + 1) : i \in 1..n \/ i = n + 1
    BY <1>1
  <2> QED BY <1>1, <1>4, <2>1 DEF HasNo, HasOne, n
<1> QED BY <1>2, <1>3, <1>4 DEF u

\* What is kept of lines when those at some places are.
Keeps(S, t, I) ==
  LET kept == Only(t, I)
  IN  /\ kept \in Seq(S)
      /\ \A y : (\A i \in 1..Len(t) : i \in I => t[i] # y) => HasNo(kept, y)
      /\ HasOne(t, "START") => HasOne(kept, "START")
      /\ (\A i \in 1..Len(t) : t[i] \in OfTheUser => i \in I) => Own(kept) = Own(t)

LEMMA KeepsMore ==
  ASSUME NEW S, NEW t \in Seq(S), NEW x \in S, NEW I, Keeps(S, t, I)
  PROVE  Keeps(S, Append(t, x), I)
<1> DEFINE u == Append(t, x)
           n == Len(t)
           kept == Only(t, I)
           more == Only(u, I)
<1>1. n \in Nat /\ Len(u) = n + 1 /\ u[n + 1] = x /\ \A i \in 1..n : u[i] = t[i]
  BY AppendProperties
<1>2. kept \in Seq(S) /\ Own(u) = IF x \in OfTheUser THEN Append(Own(t), x) ELSE Own(t)
  BY OwnOfMore DEF Keeps
<1>3. more = IF n + 1 \in I THEN Append(kept, x) ELSE kept
  BY OnlyOfMore
<1>4. more \in Seq(S)
  <2> HIDE DEF kept, more, n
  <2>1. Append(kept, x) \in Seq(S)
    BY <1>2
  <2> QED BY <1>2, <1>3, <2>1
<1>5. (HasOne(u, "START") => HasOne(t, "START") /\ (x = "START" => HasNo(t, "START")))
  BY OneMore
<1>6. ASSUME NEW y
      PROVE  HasNo(Append(kept, x), y) <=> HasNo(kept, y) /\ x # y
  BY <1>2, OneMore
<1>7. HasOne(Append(kept, x), "START") <=>
        HasOne(kept, "START") /\ (x = "START" => HasNo(kept, "START"))
  BY <1>2, OneMore
<1>8. Own(Append(kept, x)) = IF x \in OfTheUser THEN Append(Own(kept), x) ELSE Own(kept)
  BY <1>2, OwnOfMore
<1>9. ASSUME NEW y, \A i \in 1..Len(u) : i \in I => u[i] # y PROVE HasNo(more, y)
  <2>1. \A i \in 1..n : i \in I => t[i] # y
    BY <1>1, <1>9
  <2>2. n + 1 \in I => x # y
    BY <1>1, <1>9
  <2>3. HasNo(kept, y)
    BY <2>1 DEF Keeps
  <2> HIDE DEF kept, more, n, u
  <2> QED BY <1>3, <1>6, <2>2, <2>3
<1>10. ASSUME HasOne(u, "START") PROVE HasOne(more, "START")
  <2>1. HasOne(kept, "START") /\ (x = "START" => HasNo(kept, "START"))
    <3>1. HasNo(t, "START") => HasNo(kept, "START")
      BY DEF Keeps, HasNo
    <3> QED BY <1>5, <1>10, <3>1 DEF Keeps
  <2> HIDE DEF kept, more, n, u
  <2> QED BY <1>3, <1>7, <2>1
<1>11. ASSUME \A i \in 1..Len(u) : u[i] \in OfTheUser => i \in I PROVE Own(more) = Own(u)
  <2>1. Own(kept) = Own(t)
    <3>1. \A i \in 1..n : t[i] \in OfTheUser => i \in I
      BY <1>1, <1>11
    <3> QED BY <3>1 DEF Keeps
  <2>2. x \in OfTheUser => n + 1 \in I
    BY <1>1, <1>11
  <2> HIDE DEF kept, more, n, u
  <2> QED BY <1>2, <1>3, <1>8, <2>1, <2>2
<1> HIDE DEF u, kept, n
<1> QED BY <1>4, <1>9, <1>10, <1>11 DEF Keeps, u

LEMMA OnlyKeeps ==
  ASSUME NEW S, NEW lines \in Seq(S), NEW I
  PROVE  Keeps(S, lines, I)
<1> DEFINE T == {n \in Nat : \A u \in Seq(S) : Len(u) = n => Keeps(S, u, I)}
<1>1. 0 \in T
  <2>1. \A u \in Seq(S) : Len(u) = 0 => u = <<>>
    OBVIOUS
  <2>2. Keeps(S, <<>>, I)
    <3>1. HasNo(<<>>, "START") /\ HasOne(<<>>, "START") /\ \A y : HasNo(<<>>, y)
      BY DEF HasNo, HasOne
    <3>2. <<>> \in Seq(S)
      OBVIOUS
    <3> QED BY <3>1, <3>2, OnlyOfNone DEF Keeps
  <2> QED BY <2>1, <2>2
<1>2. ASSUME NEW n \in T PROVE n + 1 \in T
  <2>1. SUFFICES ASSUME NEW u \in Seq(S), Len(u) = n + 1 PROVE Keeps(S, u, I)
    BY <1>2
  <2>2. PICK before \in Seq(S), x \in S : u = Append(before, x) /\ Len(before) = n
    BY <1>2, <2>1, LastLine
  <2>3. Keeps(S, before, I)
    BY <1>2, <2>2
  <2> QED BY <2>2, <2>3, KeepsMore
<1> HIDE DEF T
<1>3. T \in SUBSET Nat
  BY DEF T
<1>4. T = Nat
  BY <1>1, <1>2, <1>3, InductionOverNat
<1> QED BY <1>4 DEF T

\* The first such line after a place.
LEMMA FirstIs ==
  ASSUME NEW S, NEW lines \in Seq(S), NEW x, NEW m \in Nat,
         \E i \in 1..Len(lines) : i > m /\ lines[i] = x
  PROVE  LET f == First(lines, x, m)
         IN  f \in 1..Len(lines) /\ f > m /\ lines[f] = x /\ \A j \in m + 1..f - 1 : lines[j] # x
<1> DEFINE T == {i \in 1..Len(lines) : i > m /\ lines[i] = x}
<1>1. T \in SUBSET Nat /\ T # {}
  OBVIOUS
<1>2. PICK f \in T : \A j \in T : f <= j
  BY <1>1, SmallestNat
<1>3. \A j \in m + 1..f - 1 : lines[j] # x
  BY <1>2
<1>4. DOMAIN lines = 1..Len(lines)
  OBVIOUS
<1>5. f \in DOMAIN lines /\ f > m /\ lines[f] = x
  BY <1>2
<1> HIDE DEF T
<1> QED BY <1>3, <1>4, <1>5 DEF First

LEMMA TidyIs ==
  ASSUME NEW S, NEW lines \in Seq(S)
  PROVE  /\ HasNo(lines, "START") => Tidy(lines)
         /\ Tidy(lines) => HasOne(lines, "START")
         /\ HasNo(lines, "END") /\ HasOne(lines, "START") => Tidy(lines)
<1>1. DOMAIN lines = 1..Len(lines)
  OBVIOUS
<1> QED BY <1>1 DEF HasNo, HasOne, Tidy

\* Empty lines are nobody's.
LEMMA CollapsedKeeps ==
  ASSUME NEW S, NEW lines \in Seq(S)
  PROVE  /\ Collapsed(lines) \in Seq(S) /\ Own(Collapsed(lines)) = Own(lines)
         /\ \A y : HasNo(lines, y) => HasNo(Collapsed(lines), y)
<1> DEFINE I == {i \in DOMAIN lines : ~(i > 2 /\ lines[i] = "blank" /\ lines[i - 1] = "blank")}
<1>1. \A i \in 1..Len(lines) : lines[i] \in OfTheUser => i \in I
  BY DEF OfTheUser
<1>2. Collapsed(lines) = Only(lines, I)
  BY DEF Collapsed
<1> HIDE DEF I
<1> QED BY <1>1, <1>2, OnlyKeeps DEF Keeps, HasNo

\* The removal of the block takes it out, and no line of the user's.
LEMMA WithoutBlockKeeps ==
  ASSUME NEW S, NEW lines \in Seq(S), Tidy(lines)
  PROVE  /\ WithoutBlock(lines) \in Seq(S) /\ Tidy(WithoutBlock(lines))
         /\ Own(WithoutBlock(lines)) = Own(lines)
<1>1. CASE ~HasCompleteBlock(lines)
  BY <1>1 DEF WithoutBlock
<1>2. CASE HasCompleteBlock(lines)
  <2> DEFINE n == Len(lines)
             a == First(lines, "START", 0)
             b == First(lines, "END", a)
             I == DOMAIN lines \ (a..b)
             left == Only(lines, I)
  <2>0. n \in Nat /\ DOMAIN lines = 1..n
    OBVIOUS
  <2>1. PICK i, j \in 1..n : i < j /\ lines[i] = "START" /\ lines[j] = "END"
    BY <1>2, <2>0 DEF HasCompleteBlock
  <2>2. a \in 1..n /\ lines[a] = "START"
    BY <2>1, FirstIs
  <2>3. \A k \in 1..n : lines[k] = "START" => k = a
    BY <2>0, <2>2 DEF Tidy
  <2>4. b \in 1..n /\ b > a /\ lines[b] = "END" /\ \A k \in a + 1..b - 1 : lines[k] # "END"
    <3>1. a \in Nat /\ j > a
      BY <2>0, <2>1, <2>2, <2>3
    <3> HIDE DEF a, n
    <3> QED BY <2>1, <3>1, FirstIs DEF n
  <2> HIDE DEF a, b
  <2>5. ASSUME NEW k \in 1..n, lines[k] \in OfTheUser, k \in a..b PROVE FALSE
    <3>1. k # a /\ k # b
      BY <2>2, <2>4, <2>5 DEF OfTheUser
    <3>2. k \in a + 1..n /\ k < b /\ b \in k..n
      BY <2>0, <2>2, <2>4, <2>5, <3>1
    <3>3. \/ \E m \in a + 1..k : lines[m] = "END"
          \/ \A m \in k..n : lines[m] # "END"
      BY <2>0, <2>2, <2>5, <3>2 DEF Tidy
    <3>4. \A m \in a + 1..k : m \in a + 1..b - 1
      BY <2>0, <2>2, <2>4, <3>2
    <3> QED BY <2>4, <3>2, <3>3, <3>4
  <2>6. \A k \in 1..n : lines[k] \in OfTheUser => k \in I
    BY <2>0, <2>5
  <2>7. \A k \in 1..n : k \in I => lines[k] # "START"
    <3>1. a \in a..b
      BY <2>2, <2>4
    <3> QED BY <2>3, <3>1
  <2>8. Keeps(S, lines, I)
    BY OnlyKeeps
  <2>9. left \in Seq(S) /\ Own(left) = Own(lines) /\ HasNo(left, "START")
    BY <2>6, <2>7, <2>8 DEF Keeps
  <2>10. WithoutBlock(lines) = Collapsed(left)
    BY <1>2 DEF WithoutBlock, a, b
  <2> HIDE DEF left
  <2>11. Collapsed(left) \in Seq(S) /\ Own(Collapsed(left)) = Own(left) /\ HasNo(Collapsed(left), "START")
    BY <2>9, CollapsedKeeps
  <2> QED BY <2>9, <2>10, <2>11, TidyIs
<1> QED BY <1>1, <1>2

\* The block is put behind lines that have no part of one.
LEMMA AppendKeeps ==
  ASSUME NEW lines \in Seq(LineKinds), HasNo(lines, "START"), HasNo(lines, "END")
  PROVE  LET more == lines \o <<"blank">> \o Block
         IN  more \in Seq(LineKinds) /\ Tidy(more) /\ Own(more) = Own(lines)
<1> DEFINE b == Append(lines, "blank")
           s == Append(b, "START")
           t == Append(s, "source")
           e == Append(t, "END")
           n == Len(lines)
<1>1. {"blank", "START", "source", "END"} \subseteq LineKinds \ OfTheUser
  BY DEF LineKinds, OfTheUser
<1>2. lines \o <<"blank">> \o Block = e
  BY <1>1 DEF Block
<1>3. /\ b \in Seq(LineKinds) /\ s \in Seq(LineKinds) /\ t \in Seq(LineKinds) /\ e \in Seq(LineKinds)
  BY <1>1
<1>4. Own(b) = Own(lines)
  BY <1>1, OwnOfMore
<1>5. /\ Len(e) = n + 4 /\ e[n + 2] = "START" /\ \A k \in 1..n : e[k] = lines[k]
      /\ e[n + 1] = "blank" /\ e[n + 3] = "source" /\ e[n + 4] = "END" /\ n \in Nat
      /\ DOMAIN e = 1..(n + 4)
  OBVIOUS
<1>6. Own(e) = Own(lines)
  <2> HIDE DEF b
  <2>1. Own(s) = Own(b)
    BY <1>1, <1>3, OwnOfMore
  <2> HIDE DEF s
  <2>2. Own(t) = Own(s)
    BY <1>1, <1>3, OwnOfMore
  <2> HIDE DEF t
  <2>3. Own(e) = Own(t)
    BY <1>1, <1>3, OwnOfMore
  <2> QED BY <1>4, <2>1, <2>2, <2>3
<1>7. Tidy(e)
  <2> HIDE DEF e, n
  <2>1. ASSUME NEW i \in 1..(n + 4), e[i] = "START" PROVE i = n + 2
    <3>1. i \notin 1..n
      BY <1>5, <2>1 DEF HasNo, n
    <3>2. i \in {n + 1, n + 2, n + 3, n + 4}
      BY <1>5, <3>1
    <3> QED BY <1>5, <2>1, <3>2
  <2>2. ASSUME NEW k \in n + 3..n + 4 PROVE e[k] \notin OfTheUser
    <3>1. k = n + 3 \/ k = n + 4
      BY <1>5
    <3> QED BY <1>1, <1>5, <3>1
  <2>3. (n + 2) + 1 = n + 3
    BY <1>5
  <2> QED BY <1>5, <2>1, <2>2, <2>3 DEF Tidy
<1> HIDE DEF e
<1> QED BY <1>2, <1>3, <1>6, <1>7

\* Of a copy that a command is to write changed: what is said of the file, and, if
\* nothing was edited since it was read, the lines of the user's.
CopyIsHeld(p) ==
  proc[p].at \in {"backup", "append", "remove"} =>
    /\ proc[p].lines \in Seq(LineKinds) /\ Tidy(proc[p].lines)
    /\ proc[p].at # "remove" => HasNo(proc[p].lines, "START") /\ HasNo(proc[p].lines, "END")
    /\ proc[p].edits = used.edits => users \in {Own(proc[p].lines), Lost}

LinesInv ==
  /\ DOMAIN zshrc = {"kind", "lines"} /\ zshrc.lines \in Seq(LineKinds) /\ Tidy(zshrc.lines)
  /\ users \in {Own(zshrc.lines), Lost}
  /\ used.edits \in Nat
  /\ \A p \in Consoles : proc[p].edits \in Nat /\ proc[p].edits <= used.edits /\ CopyIsHeld(p)

Fields == /\ DOMAIN proc = Consoles
          /\ \A p \in Consoles : DOMAIN proc[p] = {"kind", "at", "conf", "lines", "edits"}
          /\ DOMAIN used = {"commands", "edits", "bound", "versions"}

LEMMA LinesBegin == SetupInit => LinesInv
<1> SUFFICES ASSUME SetupInit PROVE LinesInv
  OBVIOUS
<1>1. zshrc \in [kind : {"file", "link"}, lines : FirstLines] \cup [kind : {"absent"}, lines : {None}]
      /\ users = Own(zshrc.lines)
  BY DEF SetupInit
<1>2. DOMAIN zshrc = {"kind", "lines"} /\ zshrc.lines \in FirstLines \cup {None}
  BY <1>1
<1>3. <<>> \in Seq(LineKinds) /\ Tidy(<<>>)
  BY DEF Tidy
<1>4. zshrc.lines \in Seq(LineKinds) /\ Tidy(zshrc.lines)
  BY <1>2, <1>3, SetupAssumption DEF None
<1>5. used.edits = 0
  BY DEF SetupInit
<1>6. ASSUME NEW p \in Consoles PROVE proc[p].edits = 0 /\ proc[p].at = "over"
  BY DEF SetupInit, NoCommand
<1> QED BY <1>1, <1>2, <1>4, <1>5, <1>6 DEF LinesInv, CopyIsHeld

\* Steps that leave file and edits alone, and take no copy.
LEMMA NoCopyStep ==
  ASSUME LinesInv, UNCHANGED <<zshrc, users>>, used'.edits = used.edits,
         \A q \in Consoles : \/ proc'[q] = proc[q]
                             \/ /\ proc'[q].at \notin {"backup", "append", "remove"}
                                /\ proc'[q].edits \in {proc[q].edits, 0}
  PROVE  LinesInv'
BY DEF LinesInv, CopyIsHeld

\* A command that goes on, and takes no copy.
LEMMA GoesKeeps ==
  ASSUME Fields, LinesInv, NEW p \in Consoles, NEW step, NEW conf,
         Goes(p, step) \/ GoesWith(p, step, conf),
         step \notin {"backup", "append", "remove"},
         UNCHANGED <<zshrc, users>>, used'.edits = used.edits
  PROVE  LinesInv'
<1>1. proc'[p].at \notin {"backup", "append", "remove"} /\ proc'[p].edits \in {proc[p].edits, 0}
  <2>1. CASE Goes(p, step)
    BY <2>1 DEF Fields, Goes, NoCommand
  <2>2. CASE GoesWith(p, step, conf)
    BY <2>2 DEF Fields, GoesWith, NoCommand
  <2> QED BY <2>1, <2>2
<1>2. \A q \in Consoles \ {p} : proc'[q] = proc[q]
  BY DEF Fields, Goes, GoesWith
<1> QED BY <1>1, <1>2, NoCopyStep

LEMMA InstallEnds ==
  ASSUME Fields, NEW p \in Consoles, FinishesInstall(p)
  PROVE  /\ proc'[p].at \notin {"backup", "append", "remove"} /\ proc'[p].edits \in {proc[p].edits, 0}
         /\ \A q \in Consoles \ {p} : proc'[q] = proc[q]
BY DEF Fields, FinishesInstall, Goes, NoCommand

\* A copy is taken of the file as it is.
LEMMA CopyStep ==
  ASSUME Fields, LinesInv, NEW p \in Consoles, NEW step,
         proc' = [proc EXCEPT ![p].lines = zshrc.lines, ![p].edits = used.edits, ![p].at = step],
         step = "backup" => HasNo(zshrc.lines, "START") /\ HasNo(zshrc.lines, "END"),
         step \in {"backup", "remove", "unset"},
         UNCHANGED <<zshrc, users, used>>
  PROVE  LinesInv'
<1>1. /\ proc'[p].at = step /\ proc'[p].lines = zshrc.lines /\ proc'[p].edits = used.edits
      /\ \A q \in Consoles \ {p} : proc'[q] = proc[q]
  BY DEF Fields
<1>2. CopyIsHeld(p)'
  BY <1>1 DEF LinesInv, CopyIsHeld
<1>3. ASSUME NEW q \in Consoles \ {p} PROVE CopyIsHeld(q)'
  BY <1>1 DEF LinesInv, CopyIsHeld
<1>4. ASSUME NEW q \in Consoles
      PROVE  proc'[q].edits \in Nat /\ proc'[q].edits <= used'.edits /\ CopyIsHeld(q)'
  <2>1. used'.edits = used.edits /\ used.edits \in Nat /\ proc[q].edits \in Nat /\ proc[q].edits <= used.edits
    BY DEF LinesInv
  <2>2. proc'[q].edits \in {proc[q].edits, used.edits}
    BY <1>1
  <2>3. CopyIsHeld(q)'
    BY <1>2, <1>3
  <2> QED BY <2>1, <2>2, <2>3
<1> QED BY <1>4 DEF LinesInv

\* What a command makes of its copy replaces the file.
LEMMA ReplaceStep ==
  ASSUME LinesInv, NEW p \in Consoles, NEW more \in Seq(LineKinds), Tidy(more),
         proc[p].edits = used.edits => users \in {Own(more), Lost},
         zshrc' = [kind |-> "file", lines |-> more], users' = Left(p), used' = used,
         proc'[p].at \notin {"backup", "append", "remove"}, proc'[p].edits \in {proc[p].edits, 0},
         \A q \in Consoles \ {p} : proc'[q] = proc[q]
  PROVE  LinesInv'
<1>1. users' \in {users, Lost} /\ users' \in {Own(more), Lost}
  BY DEF Left
<1>2. DOMAIN zshrc' = {"kind", "lines"} /\ zshrc'.lines = more
  OBVIOUS
<1>3. CopyIsHeld(p)'
  BY DEF CopyIsHeld
<1>4. ASSUME NEW q \in Consoles \ {p} PROVE CopyIsHeld(q)'
  BY <1>1 DEF LinesInv, CopyIsHeld
<1> QED BY <1>1, <1>2, <1>3, <1>4 DEF LinesInv

LEMMA ConfiguredIs ==
  ASSUME NEW p \in Consoles, proc[p].kind \in {"install", "validate", "edit", "set", "onboard", "toggle"}
  PROVE  Configured(p) \in {"settings", "edit", "load", "over"}
<1>1. PICK installs \in BOOLEAN : installs = Installs(p)
  BY DEF Installs
<1>2. Configured(p) =
        CASE installs \/ proc[p].kind = "validate" -> "settings"
          [] proc[p].kind = "edit" -> "edit"
          [] proc[p].kind \in {"set", "onboard"} /\ ~installs -> "load"
          [] proc[p].kind = "toggle" -> "over"
  BY <1>1 DEF Configured
<1>3. proc[p].kind = "install" => installs
  BY <1>1 DEF Installs
<1> QED BY <1>2, <1>3

LEMMA ZshrcStep ==
  ASSUME Fields, LinesInv, NEW p \in Consoles,
         ReadZshrc(p) \/ Backup(p) \/ AppendBlock(p) \/ ReadBlock(p) \/ RemoveBlock(p)
  PROVE  LinesInv'
<1>0. zshrc.lines \in Seq(LineKinds) /\ Tidy(zshrc.lines) /\ CopyIsHeld(p)
  BY DEF LinesInv
<1>1. CASE ReadZshrc(p)
  <2>0. UNCHANGED <<zshrc, users, used>>
    BY <1>1 DEF ReadZshrc
  <2>1. CASE Goes(p, "over")
    BY <2>0, <2>1, GoesKeeps
  <2>2. CASE FinishesInstall(p)
    <3>1. \A q \in Consoles : \/ proc'[q] = proc[q]
                              \/ /\ proc'[q].at \notin {"backup", "append", "remove"}
                                 /\ proc'[q].edits \in {proc[q].edits, 0}
      BY <2>2, InstallEnds
    <3> QED BY <2>0, <3>1, NoCopyStep
  <2>3. CASE /\ ~Incomplete(zshrc.lines) /\ ~HasCompleteBlock(zshrc.lines)
             /\ proc' = [proc EXCEPT ![p].lines = zshrc.lines, ![p].edits = used.edits, ![p].at = "backup"]
    <3>1. {"START", "END"} \cap ToSet(zshrc.lines) = {}
      BY <2>3 DEF Incomplete
    <3>2. HasNo(zshrc.lines, "START") /\ HasNo(zshrc.lines, "END")
      <4>1. \A i \in 1..Len(zshrc.lines) : zshrc.lines[i] \in ToSet(zshrc.lines)
        BY <1>0 DEF ToSet
      <4> QED BY <3>1, <4>1 DEF HasNo
    <3> QED BY <2>0, <2>3, <3>2, CopyStep
  <2>4. \/ Goes(p, "over") \/ FinishesInstall(p)
        \/ /\ ~Incomplete(zshrc.lines) /\ ~HasCompleteBlock(zshrc.lines)
           /\ proc' = [proc EXCEPT ![p].lines = zshrc.lines, ![p].edits = used.edits, ![p].at = "backup"]
    BY <1>1 DEF ReadZshrc
  <2> QED BY <2>1, <2>2, <2>3, <2>4
<1>2. CASE Backup(p)
  <2>1. proc[p].at = "backup" /\ proc' = [proc EXCEPT ![p].at = "append"] /\ UNCHANGED <<zshrc, users, used>>
    BY <1>2 DEF Backup, At, Goes
  <2>2. /\ proc'[p].at = "append" /\ proc'[p].lines = proc[p].lines /\ proc'[p].edits = proc[p].edits
        /\ \A q \in Consoles \ {p} : proc'[q] = proc[q]
    BY <2>1 DEF Fields
  <2>3. ASSUME NEW q \in Consoles PROVE CopyIsHeld(q)'
    BY <2>1, <2>2 DEF LinesInv, CopyIsHeld
  <2> QED BY <2>1, <2>2, <2>3 DEF LinesInv
<1>3. CASE AppendBlock(p)
  <2> DEFINE more == proc[p].lines \o <<"blank">> \o Block
  <2>1. /\ proc[p].at = "append" /\ FinishesInstall(p) /\ used' = used
        /\ zshrc' = [kind |-> "file", lines |-> more] /\ users' = Left(p)
    BY <1>3 DEF AppendBlock, At
  <2>2. /\ more \in Seq(LineKinds) /\ Tidy(more) /\ Own(more) = Own(proc[p].lines)
    BY <1>0, <2>1, AppendKeeps DEF CopyIsHeld
  <2>3. proc[p].edits = used.edits => users \in {Own(more), Lost}
    BY <1>0, <2>1, <2>2 DEF CopyIsHeld
  <2> HIDE DEF more
  <2> QED BY <2>1, <2>2, <2>3, InstallEnds, ReplaceStep
<1>4. CASE ReadBlock(p)
  <2>1. PICK step \in {"unset", "remove"} :
          proc' = [proc EXCEPT ![p].lines = zshrc.lines, ![p].edits = used.edits, ![p].at = step]
    BY <1>4 DEF ReadBlock
  <2>2. UNCHANGED <<zshrc, users, used>>
    BY <1>4 DEF ReadBlock
  <2> QED BY <2>1, <2>2, CopyStep
<1>5. CASE RemoveBlock(p)
  <2> DEFINE more == WithoutBlock(proc[p].lines)
  <2>1. /\ proc[p].at = "remove" /\ proc' = [proc EXCEPT ![p].at = "unset"] /\ used' = used
        /\ zshrc' = [kind |-> "file", lines |-> more] /\ users' = Left(p)
    BY <1>5 DEF RemoveBlock, At, Goes
  <2>2. /\ more \in Seq(LineKinds) /\ Tidy(more) /\ Own(more) = Own(proc[p].lines)
    BY <1>0, <2>1, WithoutBlockKeeps DEF CopyIsHeld
  <2>3. proc[p].edits = used.edits => users \in {Own(more), Lost}
    BY <1>0, <2>1, <2>2 DEF CopyIsHeld
  <2>4. /\ proc'[p].at = "unset" /\ proc'[p].edits = proc[p].edits
        /\ \A q \in Consoles \ {p} : proc'[q] = proc[q]
    BY <2>1 DEF Fields
  <2> HIDE DEF more
  <2> QED BY <2>1, <2>2, <2>3, <2>4, ReplaceStep
<1> QED BY <1>1, <1>2, <1>3, <1>4, <1>5

LEMMA EditKeeps ==
  ASSUME Fields, LinesInv, EditZshrc
  PROVE  LinesInv'
<1> DEFINE lines == zshrc.lines
           users2 == Append(lines, "u2")
           endless == Without(lines, "END")
<1>1. PICK new \in {users2, endless} :
        /\ zshrc' = [lines |-> new, kind |-> IF zshrc.kind = "absent" THEN "file" ELSE zshrc.kind]
        /\ users' = Own(new)
  BY DEF EditZshrc
<1>2. used' = [used EXCEPT !.edits = @ + 1] /\ proc' = proc
  BY DEF EditZshrc
<1>3. lines \in Seq(LineKinds) /\ Tidy(lines) /\ used.edits \in Nat
  BY DEF LinesInv
<1>4. users2 \in Seq(LineKinds) /\ Tidy(users2)
  <2> DEFINE n == Len(lines)
  <2>1. /\ Len(users2) = n + 1 /\ users2[n + 1] = "u2" /\ n \in Nat
        /\ DOMAIN lines = 1..n /\ DOMAIN users2 = 1..(n + 1)
        /\ \A i \in 1..n : users2[i] = lines[i]
    BY <1>3, AppendProperties
  <2>2. users2 \in Seq(LineKinds)
    BY <1>3 DEF LineKinds, OfTheUser
  <2> HIDE DEF lines, users2, n
  <2>3. ASSUME NEW i \in 1..(n + 1), users2[i] = "START"
        PROVE  i \in 1..n /\ lines[i] = "START"
    <3>1. i # n + 1
      BY <2>1, <2>3
    <3> QED BY <2>1, <3>1, <2>3
  <2>4. ASSUME NEW i \in 1..n, lines[i] = "START", NEW k \in i + 1..(n + 1),
               users2[k] \in OfTheUser
        PROVE  \/ \E j \in i + 1..k : users2[j] = "END"
               \/ \A j \in k..(n + 1) : users2[j] # "END"
    <3>1. CASE k = n + 1
      <4>1. \A j \in k..(n + 1) : j = n + 1
        BY <2>1, <3>1
      <4> QED BY <2>1, <4>1
    <3>2. CASE k # n + 1
      <4>1. k \in i + 1..n /\ k \in 1..n /\ lines[k] \in OfTheUser
        BY <2>1, <2>4, <3>2
      <4>2. \/ \E j \in i + 1..k : lines[j] = "END"
            \/ \A j \in k..n : lines[j] # "END"
        BY <1>3, <2>1, <2>4, <4>1 DEF Tidy, n
      <4>3. \A j \in i + 1..k : j \in 1..n
        BY <2>1, <4>1
      <4>4. \A j \in k..(n + 1) : j = n + 1 \/ (j \in k..n /\ j \in 1..n)
        BY <2>1, <4>1
      <4> QED BY <2>1, <4>2, <4>3, <4>4
    <3> QED BY <3>1, <3>2
  <2> QED BY <1>3, <2>1, <2>2, <2>3, <2>4 DEF Tidy
<1>5. endless \in Seq(LineKinds) /\ Tidy(endless)
  <2> DEFINE I == {i \in DOMAIN lines : lines[i] # "END"}
  <2>1. Keeps(LineKinds, lines, I) /\ HasOne(lines, "START")
    BY <1>3, OnlyKeeps, TidyIs
  <2>2. \A i \in 1..Len(lines) : i \in I => lines[i] # "END"
    OBVIOUS
  <2>3. endless = Only(lines, I)
    BY DEF Without
  <2> HIDE DEF I, lines, endless
  <2>4. endless \in Seq(LineKinds) /\ HasNo(endless, "END") /\ HasOne(endless, "START")
    BY <2>1, <2>2, <2>3 DEF Keeps
  <2> QED BY <2>4, TidyIs
<1> HIDE DEF lines, users2, endless
<1>6. DOMAIN zshrc' = {"kind", "lines"} /\ zshrc'.lines = new
  BY <1>1
<1>7. used'.edits = used.edits + 1
  BY <1>2 DEF Fields
<1>8. ASSUME NEW p \in Consoles
      PROVE  proc'[p].edits \in Nat /\ proc'[p].edits <= used'.edits /\ CopyIsHeld(p)'
  <2>1. proc[p].edits \in Nat /\ proc[p].edits <= used.edits /\ CopyIsHeld(p)
    BY DEF LinesInv
  <2>2. proc[p].edits # used'.edits /\ proc[p].edits <= used'.edits
    BY <1>3, <1>7, <2>1
  <2> QED BY <1>2, <2>1, <2>2 DEF CopyIsHeld
<1> QED BY <1>1, <1>3, <1>4, <1>5, <1>6, <1>7, <1>8 DEF LinesInv

LEMMA LinesStep == Fields /\ CommandTypes /\ LinesInv /\ [SetupNext]_setupVars => LinesInv'
<1> SUFFICES ASSUME Fields, CommandTypes, LinesInv, [SetupNext]_setupVars PROVE LinesInv'
  OBVIOUS
<1> DEFINE Quiet == UNCHANGED <<zshrc, users>> /\ used'.edits = used.edits
<1>0. ASSUME proc' = proc, Quiet PROVE LinesInv'
  BY <1>0, NoCopyStep
<1>1. CASE UNCHANGED setupVars
  BY <1>0, <1>1 DEF setupVars
<1>2. ASSUME NEW p \in Consoles, NEW kind \in Kinds, Run(p, kind) PROVE LinesInv'
  <2>1. PICK lines, step : proc' = [proc EXCEPT ![p] = [NoCommand EXCEPT !.kind = kind, !.at = step,
                                                                      !.lines = lines]]
                           /\ step \in {"unhook", "config"}
    BY <1>2 DEF Run, FirstStep
  <2>2. Quiet
    BY <1>2 DEF Run, Fields
  <2>3. /\ proc'[p].at \notin {"backup", "append", "remove"} /\ proc'[p].edits = 0
        /\ \A q \in Consoles \ {p} : proc'[q] = proc[q]
    BY <2>1 DEF Fields, NoCommand
  <2> QED BY <2>2, <2>3, NoCopyStep
<1>3. ASSUME NEW p \in Consoles, Kill(p) \/ LoadConfig(p) \/ ChangeConfig(p) \/ SaveConfig(p)
                               \/ EditConfig(p) \/ LoadSettings(p)
      PROVE  LinesInv'
  <2>1. Quiet
    BY <1>3 DEF Kill, LoadConfig, ChangeConfig, SaveConfig, EditConfig, LoadSettings
  <2>2. PICK step, conf : /\ Goes(p, step) \/ GoesWith(p, step, conf)
                          /\ step \notin {"backup", "append", "remove"}
    <3>1. CASE Kill(p)
      BY <3>1 DEF Kill
    <3>2. CASE LoadConfig(p) \/ LoadSettings(p)
      BY <3>2 DEF LoadConfig, LoadSettings
    <3>3. CASE SaveConfig(p) \/ EditConfig(p)
      BY <3>3 DEF SaveConfig, EditConfig
    <3>4. CASE ChangeConfig(p)
      <4>1. PICK new : Goes(p, "over") \/ Goes(p, "settings") \/ GoesWith(p, "save", new)
        BY <3>4 DEF ChangeConfig
      <4> QED BY <4>1
    <3> QED BY <1>3, <3>1, <3>2, <3>3, <3>4
  <2> QED BY <2>1, <2>2, GoesKeeps
<1>4. ASSUME NEW p \in Consoles, CheckConfig(p) \/ CreateConfig(p) PROVE LinesInv'
  <2>1. Quiet /\ (At(p, "config") \/ At(p, "create"))
    BY <1>4 DEF CheckConfig, CreateConfig
  <2>2. PICK step : Goes(p, step) /\ step \in {"create", Configured(p)}
    BY <1>4 DEF CheckConfig, CreateConfig
  <2>3. Configured(p) \in {"settings", "edit", "load", "over"}
    BY <2>1, ConfiguredIs DEF CommandTypes, Configuring, At
  <2> QED BY <2>1, <2>2, <2>3, GoesKeeps
<1>5. ASSUME NEW p \in Consoles, WriteSettings(p) \/ RemoveSettings(p) \/ RemoveVersion(p) \/ Purge(p)
      PROVE  LinesInv'
  <2>1. Quiet
    BY <1>5 DEF WriteSettings, RemoveSettings, RemoveVersion, Purge, Fields
  <2>2. PICK step : Goes(p, step) /\ step \notin {"backup", "append", "remove"}
    BY <1>5 DEF WriteSettings, RemoveSettings, RemoveVersion, Purge
  <2> QED BY <2>1, <2>2, GoesKeeps
<1>6. ASSUME NEW s \in Loaded, Prompt(s) \/ Source(s) \/ ReadVersion(s) \/ BindKey(s)
      PROVE  LinesInv'
  <2>1. proc' = proc /\ Quiet
    BY <1>6 DEF Prompt, Source, ReadVersion, BindKey, Fields
  <2> QED BY <1>0, <2>1
<1> HIDE DEF Quiet
<1> QED BY <1>1, <1>2, <1>3, <1>4, <1>5, <1>6, ZshrcStep, EditKeeps DEF SetupNext

\* The invariant of the file and of the copies of it is kept.
THEOREM LinesAreKept == SetupSpec => []LinesInv
<1>1. SetupInv => Fields /\ CommandTypes
  BY DEF SetupInv, SetupTypes, CommandTypes, Fields
<1> QED BY <1>1, SettingsAreKept, LinesBegin, LinesStep, PTL DEF SetupSpec

\* For any file, consoles and edits of the user: installs and uninstalls that overlap, fail
\* or are killed leave the user's lines in order, but for an edit made while a command held
\* an older copy, and one block at most.
THEOREM UsersLinesStay == SetupSpec => []UserLinesAreKept
<1>1. LinesInv => UserLinesAreKept
  <2>1. SUFFICES ASSUME LinesInv PROVE UserLinesAreKept
    OBVIOUS
  <2>2. zshrc.lines \in Seq(LineKinds) /\ Tidy(zshrc.lines) /\ users \in {Own(zshrc.lines), Lost}
    BY <2>1 DEF LinesInv
  <2> QED BY <2>2 DEF Tidy, UserLinesAreKept
<1> QED BY <1>1, LinesAreKept, PTL

-----------------------------------------------------------------------------
(***************************************************************************)
(* ShellPlugin for any texts and any number of requests, frames, breaks    *)
(* and changes of the user: typing is kept, and nobody waits in vain.      *)
(*                                                                         *)
(* The globals stay sound over every step.  A completion that is awaited   *)
(* is of the line as it is, unless the line was not typed (Current); a     *)
(* change of the user breaks that until the redraw that follows, which     *)
(* ends the completion.  Without a connection nothing is awaited (Silent); *)
(* a widget breaks that between its request and the failure to send it.    *)
(* A read keeps both because each of its frames does.                      *)
(***************************************************************************)

Globals == {"fd", "editing", "line", "typed", "completion", "lens", "chat", "status",
            "inserts", "clobbered"}

\* The shape of the globals, and what no helper ever disturbs.
Formed(sh) ==
  /\ DOMAIN sh = Globals /\ DOMAIN sh.chat = {"id", "text"}
  /\ ~sh.clobbered /\ sh.chat.text \subseteq {sh.chat.id}

\* An awaited completion is of the line of now, or the user has not typed it.
Current(sh) == sh.completion.id # 0 /\ sh.typed => sh.line = sh.completion.base

Silent(sh) ==
  ~sh.fd => /\ sh.completion = NoRequest /\ sh.lens = NoRequest
            /\ sh.chat = NoChat /\ sh.status = 0

Sound(sh) == Formed(sh) /\ Current(sh) /\ Silent(sh)

\* Frames on their way; a completion is of a request.
FrameKinds == {"COMPLETE", "LENS", "ANSWER", "ANSWER_DELTA", "ANSWER_DONE", "INSERT", "END"}
Frames ==
  {f \in [kind : FrameKinds, id : Nat, text : {NoText, "garbled", Suggested}, apply : BOOLEAN] :
     f.kind = "COMPLETE" => f.id # 0}

PluginInv ==
  /\ Sound(plugin)
  /\ wire \in Seq(Frames)
  /\ \A r \in owed : r.id \in Nat \ {0}
  /\ spent \in [requests : Nat, inserts : Nat, typing : Nat, breaks : Nat]

-----------------------------------------------------------------------------
(* Helpers.                                                                  *)

\* What ends a request changes nothing but requests and the message.
EndsOnly(after, sh) ==
  /\ DOMAIN after = DOMAIN sh
  /\ \A g \in {"fd", "editing", "line", "typed", "inserts", "clobbered"} : after[g] = sh[g]
  /\ after.completion \in {sh.completion, NoRequest}
  /\ after.lens \in {sh.lens, NoRequest} /\ after.chat \in {sh.chat, NoChat}
  /\ after.status \in {sh.status, 0}

LEMMA StatusEnds ==
  ASSUME NEW sh, NEW id, DOMAIN sh = Globals
  PROVE  EndsOnly(StatusEnd(sh, id), sh) /\ StatusEnd(sh, id).completion = sh.completion
         /\ StatusEnd(sh, id).lens = sh.lens /\ StatusEnd(sh, id).chat = sh.chat
  BY DEF StatusEnd, EndsOnly, Globals

LEMMA CompletionEnds ==
  ASSUME NEW sh, NEW id, DOMAIN sh = Globals
  PROVE  /\ EndsOnly(CompletionFinish(sh, id), sh)
         /\ id # 0 /\ id = sh.completion.id => CompletionFinish(sh, id).completion = NoRequest
  BY DEF CompletionFinish, StatusEnd, EndsOnly, Globals

LEMMA LensEnds ==
  ASSUME NEW sh, NEW id, DOMAIN sh = Globals
  PROVE  /\ EndsOnly(LensFinish(sh, id), sh)
         /\ id # 0 /\ id = sh.lens.id => LensFinish(sh, id).lens = NoRequest
  BY DEF LensFinish, StatusEnd, EndsOnly, Globals

LEMMA ChatEnds ==
  ASSUME NEW sh, DOMAIN sh = Globals
  PROVE  EndsOnly(ChatReset(sh), sh) /\ ChatReset(sh).chat = NoChat
  BY DEF ChatReset, StatusEnd, EndsOnly, Globals

LEMMA EndsKeep ==
  ASSUME NEW sh, NEW after, EndsOnly(after, sh)
  PROVE  /\ Formed(sh) => Formed(after)
         /\ Current(sh) => Current(after)
         /\ Silent(sh) => Silent(after)
<1>1. Formed(sh) => Formed(after)
  BY DEF EndsOnly, Formed, NoChat
<1>2. Current(sh) => Current(after)
  BY DEF EndsOnly, Current, NoRequest
<1>3. Silent(sh) => Silent(after)
  BY DEF EndsOnly, Silent
<1> QED BY <1>1, <1>2, <1>3

LEMMA FinishKeeps ==
  ASSUME NEW sh, NEW id, Sound(sh)
  PROVE  Sound(CompletionFinish(sh, id)) /\ Sound(LensFinish(sh, id))
  BY CompletionEnds, LensEnds, EndsKeep DEF Sound, Formed

LEMMA Closed ==
  ASSUME NEW sh, Formed(sh)
  PROVE  Sound(Close(sh)) /\ ~Close(sh).fd
  BY DEF Close, ChatReset, StatusEnd, Sound, Formed, Current, Silent, Globals, NoRequest, NoChat

-----------------------------------------------------------------------------
(* Frames.                                                                   *)

\* A suggestion that is applied is of the completion awaited, so nothing typed is lost.
LEMMA CompleteKeeps ==
  ASSUME NEW sh, NEW f \in Frames, f.kind = "COMPLETE", Sound(sh)
  PROVE  Sound(OnComplete(sh, f))
<1>1. CASE f.id # sh.completion.id
  BY <1>1 DEF OnComplete
<1>2. CASE f.id = sh.completion.id
  <2> DEFINE ended == CompletionFinish(sh, f.id)
             applied == ApplyCompletion(ended, sh.completion.base)
  <2>1. EndsOnly(ended, sh) /\ ended.completion = NoRequest /\ Sound(ended)
    BY <1>2, CompletionEnds, EndsKeep DEF Frames, Sound, Formed
  <2>2. sh.typed => sh.line = sh.completion.base
    BY <1>2 DEF Frames, Sound, Current
  <2>3. ended.typed = sh.typed /\ ended.line = sh.line
    BY <2>1 DEF EndsOnly
  <2>4. ~(ended.line # sh.completion.base /\ ended.typed)
    BY <2>2, <2>3
  <2> HIDE DEF ended
  <2>5. Sound(applied)
    BY <2>1, <2>4 DEF ApplyCompletion, Sound, Formed, Current, Silent, Globals, NoRequest
  <2> QED
    BY <1>2, <2>1, <2>5 DEF OnComplete, ended
<1> QED BY <1>1, <1>2

LEMMA InsertsKeep ==
  ASSUME NEW sh, Sound(sh)
  PROVE  Sound(ApplyInserts(sh))
  BY DEF ApplyInserts, Sound, Formed, Current, Silent, Globals

LEMMA InsertKeeps ==
  ASSUME NEW sh, NEW f, Sound(sh)
  PROVE  Sound(OnInsert(sh, f))
<1> DEFINE queued == [sh EXCEPT !.inserts = Append(@, f.text)]
<1>1. Sound(queued)
  BY DEF Sound, Formed, Current, Silent, Globals
<1>2. Sound(ApplyInserts(queued))
  BY <1>1, InsertsKeep
<1> QED BY <1>1, <1>2 DEF OnInsert

LEMMA DeltaKeeps ==
  ASSUME NEW sh, NEW f, Sound(sh)
  PROVE  Sound(OnDelta(sh, f))
<1>1. CASE sh.chat.id = 0 \/ f.id # sh.chat.id
  BY <1>1 DEF OnDelta
<1>2. CASE sh.chat.id # 0 /\ f.id = sh.chat.id
  <2>1. sh.fd
    BY <1>2 DEF Sound, Silent, NoChat
  <2> DEFINE told == [sh EXCEPT !.chat.text = @ \cup {f.id}]
  <2>2. Sound(told) /\ told.fd
    BY <1>2, <2>1 DEF Sound, Formed, Current, Silent, Globals
  <2>3. Sound([told EXCEPT !.status = f.id])
    BY <2>2 DEF Sound, Formed, Current, Silent, Globals
  <2> QED BY <1>2, <2>2, <2>3 DEF OnDelta
<1> QED BY <1>1, <1>2

LEMMA ResetKeeps ==
  ASSUME NEW sh, Sound(sh)
  PROVE  Sound(ChatReset(sh))
  BY ChatEnds, EndsKeep DEF Sound, Formed

LEMMA EndKeeps ==
  ASSUME NEW sh, NEW f, Sound(sh)
  PROVE  Sound(OnEnd(sh, f))
<1> DEFINE finished == CompletionFinish(sh, f.id)
           ended == LensFinish(finished, f.id)
<1>1. Sound(finished)
  BY CompletionEnds, EndsKeep DEF Sound, Formed
<1>2. Sound(ended)
  BY <1>1, LensEnds, EndsKeep DEF Sound, Formed
<1>3. Sound(ChatReset(ended))
  BY <1>2, ResetKeeps
<1> QED BY <1>2, <1>3 DEF OnEnd

LEMMA LineKeeps ==
  ASSUME NEW sh, NEW f \in Frames, Sound(sh)
  PROVE  Sound(HandleLine(sh, f))
<1>1. f.kind \in FrameKinds
  BY DEF Frames
<1>2. CASE f.kind = "COMPLETE"
  BY <1>2, CompleteKeeps DEF HandleLine
<1>3. CASE f.kind = "LENS"
  BY <1>3, LensEnds, EndsKeep DEF HandleLine, Sound, Formed
<1>4. CASE f.kind = "ANSWER"
  BY <1>4, ResetKeeps DEF HandleLine, OnAnswer
<1>5. CASE f.kind = "ANSWER_DELTA"
  BY <1>5, DeltaKeeps DEF HandleLine
<1>6. CASE f.kind = "ANSWER_DONE"
  BY <1>6, ResetKeeps DEF HandleLine, OnDone
<1>7. CASE f.kind = "INSERT"
  BY <1>7, InsertKeeps DEF HandleLine
<1>8. CASE f.kind = "END"
  BY <1>8, EndKeeps DEF HandleLine
<1> QED BY <1>1, <1>2, <1>3, <1>4, <1>5, <1>6, <1>7, <1>8 DEF FrameKinds

\* The frames of a read are handled one after the other: there is such a function, or
\* there would be a smallest number of frames without one.
LEMMA HandledExists ==
  ASSUME NEW sh, NEW frames \in Seq(Frames), NEW n \in 0..Len(frames)
  PROVE  \E g : g = [k \in 0..n |-> IF k = 0 THEN sh ELSE HandleLine(g[k - 1], frames[k])]
<1> DEFINE Is(g, m) == g = [k \in 0..m |-> IF k = 0 THEN sh ELSE HandleLine(g[k - 1], frames[k])]
           T == {m \in Nat : m <= Len(frames) /\ ~ \E g : Is(g, m)}
<1>0. n \in Nat /\ n <= Len(frames) /\ Len(frames) \in Nat
  OBVIOUS
<1> HIDE DEF Is
<1>1. SUFFICES ASSUME T # {} PROVE FALSE
  <2>1. T = {} => \E g : Is(g, n)
    BY <1>0
  <2> QED BY <1>1, <2>1 DEF Is
<1>2. PICK m \in T : \A y \in T : m <= y
  BY <1>1, SmallestNat
<1> USE DEF Is
<1>3. m # 0
  <2>1. Is([k \in 0..0 |-> sh], 0)
    OBVIOUS
  <2> QED BY <1>2, <2>1
<1> HIDE DEF Is
<1>4. PICK h : Is(h, m - 1)
  <2>1. m - 1 \in Nat /\ m - 1 <= Len(frames) /\ ~(m <= m - 1)
    BY <1>0, <1>2, <1>3
  <2>2. m - 1 \notin T
    BY <1>2, <2>1
  <2> QED BY <2>1, <2>2
<1> USE DEF Is
<1> DEFINE g == [k \in 0..m |-> IF k = m THEN HandleLine(h[m - 1], frames[m]) ELSE h[k]]
<1>5. \A k \in 0..m : g[k] = IF k = 0 THEN sh ELSE HandleLine(g[k - 1], frames[k])
  <2> SUFFICES ASSUME NEW k \in 0..m
               PROVE  g[k] = IF k = 0 THEN sh ELSE HandleLine(g[k - 1], frames[k])
    OBVIOUS
  <2>1. CASE k = m
    <3>1. g[k] = HandleLine(h[m - 1], frames[m]) /\ g[m - 1] = h[m - 1]
      BY <1>3, <2>1
    <3> QED BY <1>3, <2>1, <3>1
  <2>2. CASE k = 0
    <3>1. g[k] = h[0] /\ h[0] = sh
      BY <1>3, <1>4, <2>2
    <3> QED BY <2>2, <3>1
  <2>3. CASE k # 0 /\ k # m
    <3>1. g[k] = h[k] /\ g[k - 1] = h[k - 1]
      BY <2>3
    <3>2. k \in 0..(m - 1)
      BY <2>3
    <3>3. h[k] = HandleLine(h[k - 1], frames[k])
      BY <1>4, <2>3, <3>2
    <3> QED BY <2>3, <3>1, <3>3
  <2> QED BY <2>1, <2>2, <2>3
<1>6. Is(g, m)
  BY <1>5
<1> QED BY <1>2, <1>6

LEMMA HandledKeeps ==
  ASSUME NEW sh, NEW frames \in Seq(Frames), Sound(sh)
  PROVE  Sound(Handled(sh, frames))
<1> DEFINE n == Len(frames)
           Is(g) == g = [k \in 0..n |-> IF k = 0 THEN sh ELSE HandleLine(g[k - 1], frames[k])]
           after == CHOOSE g : Is(g)
           T == {k \in Nat : k <= n /\ ~Sound(after[k])}
<1>0. n \in Nat /\ n \in 0..n
  OBVIOUS
<1>1. Is(after)
  BY <1>0, HandledExists
<1>2. Handled(sh, frames) = after[n]
  BY DEF Handled
<1> HIDE DEF after
<1>3. SUFFICES ASSUME T # {} PROVE FALSE
  BY <1>0, <1>2, <1>3
<1>4. PICK k \in T : \A y \in T : k <= y
  BY <1>3, SmallestNat
<1>5. CASE k = 0
  <2>1. after[0] = sh
    BY <1>0, <1>1
  <2> QED BY <1>4, <1>5, <2>1
<1>6. CASE k # 0
  <2>1. after[k] = HandleLine(after[k - 1], frames[k])
    BY <1>0, <1>1, <1>4, <1>6
  <2>2. Sound(after[k - 1])
    BY <1>0, <1>4, <1>6
  <2>3. frames[k] \in Frames
    BY <1>4, <1>6
  <2> QED BY <1>4, <2>1, <2>2, <2>3, LineKeeps
<1> QED BY <1>5, <1>6

LEMMA ReadKeeps ==
  ASSUME wire \in Seq(Frames), NEW sh, Sound(sh), NEW n \in Nat \ {0}, n <= Len(wire)
  PROVE  Sound(Read(sh, n))
<1> DEFINE frames == SubSeq(wire, 1, n)
<1>1. frames \in Seq(Frames) /\ frames # <<>>
  OBVIOUS
<1>2. Garbled \in Frames
  BY DEF Garbled, Frames, FrameKinds
<1> HIDE DEF frames
<1>3. Tail(frames) \in Seq(Frames) /\ <<Garbled>> \o Tail(frames) \in Seq(Frames)
  BY <1>1, <1>2
<1>4. Joined(frames) \in Seq(Frames)
  BY <1>1, <1>3 DEF Joined
<1> QED BY <1>4, HandledKeeps DEF Read, frames

-----------------------------------------------------------------------------
(* Messages.                                                                 *)

LEMMA Outcomes ==
  ASSUME NEW sh, NEW said, NEW connection
  PROVE  /\ Outcome(sh, said, connection).globals = sh
         /\ Outcome(sh, said, connection).said = said
  BY DEF Outcome

LEMMA StillIs ==
  ASSUME NEW sh, NEW o \in Still(sh)
  PROVE  o.globals = sh
<1>1. o = Outcome(sh, "sent", "kept")
  BY DEF Still
<1> QED BY <1>1, Outcomes

\* A message that was sent leaves a connection.  One that was not has cost the connection,
\* and with it all requests, or there was none.
LEMMA Sent ==
  ASSUME NEW sh, Formed(sh), NEW o \in Send(sh)
  PROVE  \/ o.said = "sent" /\ o.globals = [sh EXCEPT !.fd = TRUE]
         \/ o.said = "unsent" /\ o.globals = Close(sh)
         \/ o.said = "unsent" /\ o.globals = sh /\ ~sh.fd
<1>1. \/ o = Outcome([sh EXCEPT !.fd = TRUE], "sent", "kept")
      \/ o = Outcome(Close(sh), "unsent", "lost")
      \/ o = Outcome(sh, "unsent", "kept") /\ ~sh.fd
  BY Zenon DEF Send
<1> QED BY <1>1, Outcomes

LEMMA Connected ==
  ASSUME NEW sh, Formed(sh)
  PROVE  /\ Formed([sh EXCEPT !.fd = TRUE]) /\ Silent([sh EXCEPT !.fd = TRUE])
         /\ Current(sh) => Current([sh EXCEPT !.fd = TRUE])
         /\ [sh EXCEPT !.fd = TRUE].completion = sh.completion
  BY DEF Formed, Silent, Current, Globals

LEMMA SendKeeps ==
  ASSUME NEW sh, Sound(sh), NEW o \in Send(sh)
  PROVE  Sound(o.globals)
<1>1. Formed(sh)
  BY DEF Sound
<1>2. Sound([sh EXCEPT !.fd = TRUE]) /\ Sound(Close(sh))
  BY <1>1, Connected, Closed DEF Sound
<1>3. o.globals \in {[sh EXCEPT !.fd = TRUE], Close(sh), sh}
  BY <1>1, Sent
<1> QED BY <1>2, <1>3

\* The redraw that follows a change ends what the change made stale.
LEMMA RedrawKeeps ==
  ASSUME NEW sh, Formed(sh), Silent(sh), NEW o \in Redraw(sh)
  PROVE  Sound(o.globals)
<1> DEFINE lensed(c) == IF c.lens.id # 0 /\ c.line # c.lens.base THEN LensFinish(c, c.lens.id) ELSE c
<1>1. ASSUME NEW c, Sound(c) PROVE Sound(lensed(c))
  BY <1>1, LensEnds, EndsKeep DEF Sound, Formed
<1>2. CASE sh.completion.id # 0 /\ sh.line # sh.completion.base
  <2>1. PICK a \in Send(sh) : o.globals = lensed(CompletionFinish(a.globals, sh.completion.id))
    <3>1. PICK a \in Send(sh) : \E b \in Still(lensed(CompletionFinish(a.globals, sh.completion.id))) :
            o = Outcome(b.globals, b.said, IF a.connection = "lost" THEN "lost" ELSE b.connection)
      BY <1>2, Zenon DEF Redraw, Then
    <3>2. \A b \in Still(lensed(CompletionFinish(a.globals, sh.completion.id))) :
            b.globals = lensed(CompletionFinish(a.globals, sh.completion.id))
      BY StillIs
    <3> HIDE DEF lensed
    <3> QED BY <3>1, <3>2, Outcomes
  <2>2. /\ Formed([sh EXCEPT !.fd = TRUE]) /\ Silent([sh EXCEPT !.fd = TRUE])
        /\ [sh EXCEPT !.fd = TRUE].completion = sh.completion
        /\ Formed(Close(sh)) /\ Silent(Close(sh)) /\ Close(sh).completion = NoRequest
    BY Connected, Closed DEF Sound, Silent
  <2>3. a.globals \in {[sh EXCEPT !.fd = TRUE], Close(sh), sh}
    BY Sent
  <2>4. /\ Formed(a.globals) /\ Silent(a.globals)
        /\ a.globals.completion \in {sh.completion, NoRequest}
    BY <2>2, <2>3
  <2> DEFINE finished == CompletionFinish(a.globals, sh.completion.id)
  <2>5. EndsOnly(finished, a.globals) /\ finished.completion = NoRequest
    BY <1>2, <2>4, CompletionEnds DEF Formed, EndsOnly, NoRequest
  <2>6. Sound(finished)
    BY <2>4, <2>5, EndsKeep DEF Sound, Current, NoRequest
  <2> HIDE DEF finished, lensed
  <2> QED BY <1>1, <2>1, <2>6 DEF finished
<1>3. CASE ~(sh.completion.id # 0 /\ sh.line # sh.completion.base)
  <2>1. Sound(sh)
    BY <1>3 DEF Sound, Current
  <2>2. o.globals = lensed(sh)
    <3>1. o \in Still(lensed(sh))
      BY <1>3, Zenon DEF Redraw
    <3> QED BY <3>1, StillIs
  <2> QED BY <1>1, <2>1, <2>2
<1> QED BY <1>2, <1>3

-----------------------------------------------------------------------------
(* Steps.                                                                    *)

LEMMA Becoming ==
  ASSUME wire \in Seq(Frames), \A r \in owed : r.id \in Nat \ {0},
         NEW after, NEW request, \A r \in request : r.id \in Nat \ {0},
         Becomes(after, request)
  PROVE  plugin' = after.globals /\ wire' \in Seq(Frames) /\ \A r \in owed' : r.id \in Nat \ {0}
  BY DEF Becomes

LEMMA Spent ==
  ASSUME NEW what \in {"requests", "typing"}, Spend(what),
         spent \in [requests : Nat, inserts : Nat, typing : Nat, breaks : Nat]
  PROVE  spent' \in [requests : Nat, inserts : Nat, typing : Nat, breaks : Nat]
<1> DEFINE lost == plugin.fd /\ ~plugin'.fd
           once == [spent EXCEPT ![what] = @ + 1]
<1>1. spent' = [once EXCEPT !.breaks = IF lost THEN @ + 1 ELSE @]
  BY Zenon DEF Spend
<1>2. once \in [requests : Nat, inserts : Nat, typing : Nat, breaks : Nat]
  OBVIOUS
<1> HIDE DEF lost, once
<1> QED BY <1>1, <1>2

LEMMA TypeKeeps ==
  ASSUME PluginInv, NEW text, Type(text)
  PROVE  PluginInv'
<1> DEFINE typed == [plugin EXCEPT !.line = text, !.typed = TRUE]
<1>1. PICK after \in Redraw(typed) : Becomes(after, {})
  BY DEF Type
<1>2. Formed(typed) /\ Silent(typed)
  BY DEF PluginInv, Sound, Formed, Silent, Globals
<1>3. Sound(after.globals)
  BY <1>2, RedrawKeeps
<1>4. plugin' = after.globals /\ wire' \in Seq(Frames) /\ \A r \in owed' : r.id \in Nat \ {0}
  BY <1>1, Becoming DEF PluginInv
<1>5. spent' \in [requests : Nat, inserts : Nat, typing : Nat, breaks : Nat]
  BY Spent DEF Type, PluginInv
<1> QED BY <1>3, <1>4, <1>5 DEF PluginInv

LEMMA NewIdIsNew == PluginInv => NewId \in Nat \ {0}
  BY DEF PluginInv, NewId

\* A completion is cancelled, and another asked for.
LEMMA CompleteWidgetKeeps ==
  ASSUME PluginInv, CompleteWidget
  PROVE  PluginInv'
<1> DEFINE old == plugin.completion.id
           cancelled == IF old = 0 THEN Still(plugin)
                        ELSE Then(Send(plugin), LAMBDA a : Still(CompletionFinish(a.globals, old)))
           asks(sh) == [sh EXCEPT !.completion = [id |-> NewId, base |-> sh.line]]
           told(b) == IF b.said = "sent" THEN [b.globals EXCEPT !.status = NewId]
                      ELSE CompletionFinish(b.globals, NewId)
           asked == Then(cancelled, LAMBDA a :
                      {Outcome(told(b), b.said, b.connection) : b \in Send(asks(a.globals))})
<1>1. PICK after \in asked : Becomes(after, {[id |-> NewId, kind |-> "completion"]})
  BY DEF CompleteWidget
<1> HIDE DEF asked, cancelled
<1>2. PICK a \in cancelled : \E b \in Send(asks(a.globals)) : after.globals = told(b)
  <2>1. PICK a \in cancelled :
          \E c \in {Outcome(told(b), b.said, b.connection) : b \in Send(asks(a.globals))} :
            after = Outcome(c.globals, c.said, IF a.connection = "lost" THEN "lost" ELSE c.connection)
    BY Zenon DEF Then, asked
  <2>2. \A c \in {Outcome(told(b), b.said, b.connection) : b \in Send(asks(a.globals))} :
          \E b \in Send(asks(a.globals)) : c.globals = told(b)
    <3> HIDE DEF told, asks
    <3>1. SUFFICES ASSUME NEW b \in Send(asks(a.globals))
                   PROVE  Outcome(told(b), b.said, b.connection).globals = told(b)
      BY Zenon
    <3> QED BY Outcomes
  <2> HIDE DEF told, asks
  <2> QED BY <2>1, <2>2, Outcomes
<1>3. PICK b \in Send(asks(a.globals)) : after.globals = told(b)
  BY <1>2
<1>4. Sound(a.globals)
  <2>1. CASE old = 0
    <3>1. a.globals = plugin
      BY <2>1, StillIs DEF cancelled
    <3> QED BY <3>1 DEF PluginInv
  <2>2. CASE old # 0
    <3>1. PICK c \in Send(plugin) : a.globals = CompletionFinish(c.globals, old)
      <4>1. PICK c \in Send(plugin) : \E d \in Still(CompletionFinish(c.globals, old)) :
              a = Outcome(d.globals, d.said, IF c.connection = "lost" THEN "lost" ELSE d.connection)
        BY <2>2, Zenon DEF Then, cancelled
      <4>2. \A d \in Still(CompletionFinish(c.globals, old)) :
              d.globals = CompletionFinish(c.globals, old)
        BY StillIs
      <4> HIDE DEF old
      <4> QED BY <4>1, <4>2, Outcomes
    <3>2. Sound(c.globals)
      <4>1. Sound(plugin)
        BY DEF PluginInv
      <4> QED BY <4>1, SendKeeps
    <3>3. Sound(CompletionFinish(c.globals, old))
      BY <3>2, FinishKeeps
    <3> QED BY <3>1, <3>3
  <2> QED BY <2>1, <2>2
<1> DEFINE asking == asks(a.globals)
<1>5. Formed(asking) /\ Current(asking)
  BY <1>4 DEF Sound, Formed, Current, Globals
<1>6. /\ asking.completion.id = NewId /\ NewId # 0 /\ asking.fd = a.globals.fd
      /\ asking.lens = a.globals.lens /\ asking.chat = a.globals.chat
      /\ asking.status = a.globals.status
  BY <1>4, NewIdIsNew DEF Sound, Formed, Globals
<1> HIDE DEF asking
<1>7. Sound(told(b))
  <2>1. CASE b.said = "sent" /\ b.globals = [asking EXCEPT !.fd = TRUE]
    <3> DEFINE linked == [asking EXCEPT !.fd = TRUE]
    <3>1. Formed(linked) /\ Current(linked) /\ linked.fd
      BY <1>5, Connected DEF Formed, Globals
    <3> HIDE DEF linked
    <3>2. Sound([linked EXCEPT !.status = NewId])
      BY <3>1 DEF Sound, Formed, Current, Silent, Globals
    <3> QED BY <2>1, <3>2 DEF linked
  <2>2. CASE b.said = "unsent" /\ b.globals = Close(asking)
    <3>1. Sound(b.globals)
      BY <2>2, <1>5, Closed
    <3> QED BY <2>2, <3>1, CompletionEnds, EndsKeep DEF Sound, Formed
  <2>3. CASE b.said = "unsent" /\ b.globals = asking /\ ~asking.fd
    <3> DEFINE ended == CompletionFinish(asking, NewId)
    <3>1. EndsOnly(ended, asking) /\ ended.completion = NoRequest
      BY <1>5, <1>6, CompletionEnds DEF Formed
    <3>2. Formed(ended) /\ Current(ended)
      BY <1>5, <3>1, EndsKeep
    <3>3. a.globals.lens = NoRequest /\ a.globals.chat = NoChat /\ a.globals.status = 0
      BY <1>4, <1>6, <2>3 DEF Sound, Silent
    <3>4. ended.lens = NoRequest /\ ended.chat = NoChat /\ ended.status = 0
      BY <1>6, <3>1, <3>3 DEF EndsOnly
    <3>5. Sound(ended)
      BY <3>1, <3>2, <3>4 DEF Sound, Silent
    <3> QED BY <2>3, <3>5
  <2> QED BY <1>5, <2>1, <2>2, <2>3, Sent DEF asking
<1>8. plugin' = after.globals /\ wire' \in Seq(Frames) /\ \A r \in owed' : r.id \in Nat \ {0}
  <2>1. \A r \in {[id |-> NewId, kind |-> "completion"]} : r.id \in Nat \ {0}
    BY NewIdIsNew, \A k : [id |-> NewId, kind |-> k].id = NewId
  <2> QED BY <1>1, <2>1, Becoming DEF PluginInv
<1>9. spent' \in [requests : Nat, inserts : Nat, typing : Nat, breaks : Nat]
  BY Spent DEF CompleteWidget, PluginInv
<1> QED BY <1>3, <1>7, <1>8, <1>9 DEF PluginInv

LEMMA RiskLensKeeps ==
  ASSUME PluginInv, RiskLensWidget
  PROVE  PluginInv'
<1> DEFINE finished == LensFinish(plugin, plugin.lens.id)
           asks == [finished EXCEPT !.lens = [id |-> NewId, base |-> plugin.line]]
           told(b) == IF b.said = "sent" THEN [b.globals EXCEPT !.status = NewId]
                      ELSE LensFinish(b.globals, NewId)
<1>1. PICK after \in {Outcome(told(b), b.said, b.connection) : b \in Send(asks)} :
        Becomes(after, {[id |-> NewId, kind |-> "lens"]})
  BY DEF RiskLensWidget
<1>2. PICK b \in Send(asks) : after.globals = told(b)
  <2> HIDE DEF told, asks
  <2> QED BY Outcomes
<1>3. Sound(finished)
  BY LensEnds, EndsKeep DEF PluginInv, Sound, Formed
<1> HIDE DEF finished
<1> DEFINE asking == asks
<1>5. Formed(asking) /\ Current(asking)
  BY <1>3 DEF Sound, Formed, Current, Globals
<1>6. /\ asking.lens.id = NewId /\ NewId # 0 /\ asking.fd = finished.fd
      /\ asking.completion = finished.completion /\ asking.chat = finished.chat
      /\ asking.status = finished.status
  BY <1>3, NewIdIsNew DEF Sound, Formed, Globals
<1> HIDE DEF asking
<1>7. Sound(told(b))
  <2>1. CASE b.said = "sent" /\ b.globals = [asking EXCEPT !.fd = TRUE]
    <3> DEFINE linked == [asking EXCEPT !.fd = TRUE]
    <3>1. Formed(linked) /\ Current(linked) /\ linked.fd
      BY <1>5, Connected DEF Formed, Globals
    <3> HIDE DEF linked
    <3>2. Sound([linked EXCEPT !.status = NewId])
      BY <3>1 DEF Sound, Formed, Current, Silent, Globals
    <3> QED BY <2>1, <3>2 DEF linked
  <2>2. CASE b.said = "unsent" /\ b.globals = Close(asking)
    <3>1. Sound(b.globals)
      BY <2>2, <1>5, Closed
    <3> QED BY <2>2, <3>1, LensEnds, EndsKeep DEF Sound, Formed
  <2>3. CASE b.said = "unsent" /\ b.globals = asking /\ ~asking.fd
    <3> DEFINE ended == LensFinish(asking, NewId)
    <3>1. EndsOnly(ended, asking) /\ ended.lens = NoRequest
      BY <1>5, <1>6, LensEnds DEF Formed
    <3>2. Formed(ended) /\ Current(ended)
      BY <1>5, <3>1, EndsKeep
    <3>3. finished.completion = NoRequest /\ finished.chat = NoChat /\ finished.status = 0
      BY <1>3, <1>6, <2>3 DEF Sound, Silent
    <3>4. ended.completion = NoRequest /\ ended.chat = NoChat /\ ended.status = 0
      BY <1>6, <3>1, <3>3 DEF EndsOnly
    <3>5. Sound(ended)
      BY <3>1, <3>2, <3>4 DEF Sound, Silent
    <3> QED BY <2>3, <3>5
  <2> QED BY <1>5, <2>1, <2>2, <2>3, Sent DEF asking
<1>8. plugin' = after.globals /\ wire' \in Seq(Frames) /\ \A r \in owed' : r.id \in Nat \ {0}
  <2>1. \A r \in {[id |-> NewId, kind |-> "lens"]} : r.id \in Nat \ {0}
    BY NewIdIsNew, \A k : [id |-> NewId, kind |-> k].id = NewId
  <2> QED BY <1>1, <2>1, Becoming DEF PluginInv
<1>9. spent' \in [requests : Nat, inserts : Nat, typing : Nat, breaks : Nat]
  BY Spent DEF RiskLensWidget, PluginInv
<1> QED BY <1>2, <1>7, <1>8, <1>9 DEF PluginInv

\* A question: the chat before is over, and a request that cannot be sent ends at once.
LEMMA ChatKeeps ==
  ASSUME PluginInv, ChatWidget
  PROVE  PluginInv'
<1> DEFINE cancelled == IF plugin.chat.id = 0 THEN Still(plugin) ELSE Send(plugin)
           told(b) == IF b.said = "sent"
                      THEN [StatusEnd(b.globals, NewId) EXCEPT !.line = NoText, !.typed = FALSE]
                      ELSE ChatReset(b.globals)
           asked == Then(cancelled, LAMBDA a :
                      {Outcome(told(b), b.said, b.connection) : b \in Send(BeginChat(a.globals))})
           request(sent, after) == IF sent.said = "sent" /\ after.globals.chat.id = NewId
                                   THEN {[id |-> NewId, kind |-> "chat"]} ELSE {}
<1>1. PICK sent \in asked : \E after \in Then({sent}, LAMBDA a : Redraw(a.globals)) :
                               Becomes(after, request(sent, after))
  BY DEF ChatWidget
<1> HIDE DEF asked, cancelled
<1>2. PICK a \in cancelled : \E b \in Send(BeginChat(a.globals)) : sent.globals = told(b)
  <2>1. PICK a \in cancelled :
          \E c \in {Outcome(told(b), b.said, b.connection) : b \in Send(BeginChat(a.globals))} :
            sent = Outcome(c.globals, c.said, IF a.connection = "lost" THEN "lost" ELSE c.connection)
    BY Zenon DEF Then, asked
  <2>2. \A c \in {Outcome(told(b), b.said, b.connection) : b \in Send(BeginChat(a.globals))} :
          \E b \in Send(BeginChat(a.globals)) : c.globals = told(b)
    <3> HIDE DEF told
    <3>1. SUFFICES ASSUME NEW b \in Send(BeginChat(a.globals))
                   PROVE  Outcome(told(b), b.said, b.connection).globals = told(b)
      BY Zenon
    <3> QED BY Outcomes
  <2> HIDE DEF told
  <2> QED BY <2>1, <2>2, Outcomes
<1>3. PICK b \in Send(BeginChat(a.globals)) : sent.globals = told(b)
  BY <1>2
<1>4. Sound(a.globals)
  <2>1. Sound(plugin)
    BY DEF PluginInv
  <2>2. CASE plugin.chat.id = 0
    <3>1. a.globals = plugin
      BY <2>2, StillIs DEF cancelled
    <3> QED BY <2>1, <3>1
  <2>3. CASE plugin.chat.id # 0
    BY <2>1, <2>3, SendKeeps DEF cancelled
  <2> QED BY <2>2, <2>3
<1> DEFINE reset == ChatReset(a.globals)
           asking == BeginChat(a.globals)
<1>5. Sound(reset)
  BY <1>4, ResetKeeps
<1>6. asking = [reset EXCEPT !.chat = [NoChat EXCEPT !.id = NewId]]
  BY DEF BeginChat
<1> HIDE DEF reset, asking
<1>7. /\ Formed(asking) /\ Current(asking) /\ asking.fd = reset.fd
      /\ asking.completion = reset.completion /\ asking.lens = reset.lens
      /\ asking.status = reset.status
  BY <1>5, <1>6 DEF Sound, Formed, Current, NoChat, Globals
<1>8. Sound(told(b))
  <2>1. CASE b.said = "sent" /\ b.globals = [asking EXCEPT !.fd = TRUE]
    <3> DEFINE linked == [asking EXCEPT !.fd = TRUE]
    <3>1. Formed(linked) /\ linked.fd
      BY <1>7, Connected DEF Formed, Globals
    <3> HIDE DEF linked
    <3> DEFINE ended == StatusEnd(linked, NewId)
    <3>2. Formed(ended) /\ ended.fd
      BY <3>1, StatusEnds, EndsKeep DEF Formed, EndsOnly
    <3> HIDE DEF ended
    <3>3. Sound([ended EXCEPT !.line = NoText, !.typed = FALSE])
      BY <3>2 DEF Sound, Formed, Current, Silent, Globals
    <3> QED BY <2>1, <3>3 DEF linked, ended
  <2>2. CASE b.said = "unsent" /\ b.globals = Close(asking)
    <3>1. Sound(b.globals)
      BY <2>2, <1>7, Closed
    <3> QED BY <2>2, <3>1, ResetKeeps
  <2>3. CASE b.said = "unsent" /\ b.globals = asking /\ ~asking.fd
    <3> DEFINE ended == ChatReset(asking)
    <3>1. EndsOnly(ended, asking) /\ ended.chat = NoChat
      BY <1>7, ChatEnds DEF Formed
    <3>2. Formed(ended) /\ Current(ended)
      BY <1>7, <3>1, EndsKeep
    <3>3. asking.completion = NoRequest /\ asking.lens = NoRequest /\ asking.status = 0
      BY <1>5, <1>7, <2>3 DEF Sound, Silent
    <3>4. ended.completion = NoRequest /\ ended.lens = NoRequest /\ ended.status = 0
      BY <3>1, <3>3 DEF EndsOnly
    <3>5. Sound(ended)
      BY <3>1, <3>2, <3>4 DEF Sound, Silent
    <3> QED BY <2>3, <3>5
  <2> QED BY <1>7, <2>1, <2>2, <2>3, Sent DEF asking
<1>9. PICK after \in Then({sent}, LAMBDA x : Redraw(x.globals)) : Becomes(after, request(sent, after))
  BY <1>1
<1>10. Sound(after.globals)
  <2>1. PICK o \in Redraw(sent.globals) : after.globals = o.globals
    <3>1. PICK o \in Redraw(sent.globals) :
            after = Outcome(o.globals, o.said, IF sent.connection = "lost" THEN "lost" ELSE o.connection)
      BY Zenon DEF Then
    <3> QED BY <3>1, Outcomes
  <2>2. Formed(sent.globals) /\ Silent(sent.globals)
    BY <1>3, <1>8 DEF Sound
  <2> QED BY <2>1, <2>2, RedrawKeeps
<1>11. plugin' = after.globals /\ wire' \in Seq(Frames) /\ \A r \in owed' : r.id \in Nat \ {0}
  <2>1. \A r \in request(sent, after) : r.id \in Nat \ {0}
    BY NewIdIsNew, \A k : [id |-> NewId, kind |-> k].id = NewId
  <2> HIDE DEF request
  <2> QED BY <1>9, <2>1, Becoming DEF PluginInv
<1>12. spent' \in [requests : Nat, inserts : Nat, typing : Nat, breaks : Nat]
  BY Spent DEF ChatWidget, PluginInv
<1> QED BY <1>10, <1>11, <1>12 DEF PluginInv

LEMMA PreexecKeeps ==
  ASSUME PluginInv, Preexec
  PROVE  PluginInv'
<1> DEFINE run == [plugin EXCEPT !.editing = FALSE, !.line = NoText, !.typed = FALSE]
<1>1. PICK after \in Send(run) : Becomes(after, {})
  BY DEF Preexec
<1>2. Sound(run)
  BY DEF PluginInv, Sound, Formed, Current, Silent, Globals
<1>3. Sound(after.globals)
  BY <1>2, SendKeeps
<1>4. plugin' = after.globals /\ wire' \in Seq(Frames) /\ \A r \in owed' : r.id \in Nat \ {0}
  BY <1>1, Becoming DEF PluginInv
<1>5. spent' \in [requests : Nat, inserts : Nat, typing : Nat, breaks : Nat]
  BY Spent DEF Preexec, PluginInv
<1> QED BY <1>3, <1>4, <1>5 DEF PluginInv

\* What is read leaves the rest of the frames.
LEMMA RestIsLeft ==
  ASSUME wire \in Seq(Frames), NEW n \in Nat, NEW cut, n <= Len(wire), LeftOver(n, cut)
  PROVE  wire' \in Seq(Frames)
  BY DEF LeftOver

LEMMA PromptKeeps ==
  ASSUME PluginInv, NEW n \in Nat, NEW cut \in BOOLEAN, PromptAgain(n, cut)
  PROVE  PluginInv'
<1> DEFINE drained == IF n = 0 THEN plugin ELSE Read(plugin, n)
           line(sh) == ApplyInserts([sh EXCEPT !.editing = TRUE])
           reported == Then(Send(drained), LAMBDA a :
                        {Outcome(line(b.globals), b.said, b.connection) : b \in Send(a.globals)})
<1>1. PICK after \in Then(reported, LAMBDA a : Redraw(a.globals)) :
        /\ plugin' = after.globals
        /\ IF after.connection = "lost" THEN wire' = <<>> /\ owed' = {} /\ half' = Stale(wire)
           ELSE LeftOver(n, cut) /\ UNCHANGED owed
  BY DEF PromptAgain
<1> HIDE DEF reported
<1>2. PICK f \in reported : \E o \in Redraw(f.globals) : after.globals = o.globals
  <2>1. PICK f \in reported : \E o \in Redraw(f.globals) :
          after = Outcome(o.globals, o.said, IF f.connection = "lost" THEN "lost" ELSE o.connection)
    BY Zenon DEF Then
  <2> QED BY <2>1, Outcomes
<1>3. PICK a \in Send(drained) : \E b \in Send(a.globals) : f.globals = line(b.globals)
  <2>1. PICK a \in Send(drained) :
          \E c \in {Outcome(line(b.globals), b.said, b.connection) : b \in Send(a.globals)} :
            f = Outcome(c.globals, c.said, IF a.connection = "lost" THEN "lost" ELSE c.connection)
    BY Zenon DEF Then, reported
  <2>2. \A c \in {Outcome(line(b.globals), b.said, b.connection) : b \in Send(a.globals)} :
          \E b \in Send(a.globals) : c.globals = line(b.globals)
    <3> HIDE DEF line
    <3>1. SUFFICES ASSUME NEW b \in Send(a.globals)
                   PROVE  Outcome(line(b.globals), b.said, b.connection).globals = line(b.globals)
      BY Zenon
    <3> QED BY Outcomes
  <2> HIDE DEF line
  <2> QED BY <2>1, <2>2, Outcomes
<1>4. n <= Len(wire) \/ n = 0
  BY DEF PromptAgain, Reads
<1>5. Sound(drained)
  BY <1>4, ReadKeeps DEF PluginInv
<1> HIDE DEF drained
<1>6. PICK b \in Send(a.globals) : f.globals = line(b.globals)
  BY <1>3
<1>7. Sound(b.globals)
  <2>1. Sound(a.globals)
    BY <1>5, SendKeeps
  <2> QED BY <2>1, SendKeeps
<1>8. Sound(f.globals)
  <2> DEFINE starting == [b.globals EXCEPT !.editing = TRUE]
  <2>1. Sound(starting)
    BY <1>7 DEF Sound, Formed, Current, Silent, Globals
  <2> HIDE DEF starting
  <2>2. Sound(ApplyInserts(starting))
    BY <2>1, InsertsKeep
  <2> QED BY <1>6, <2>2 DEF starting
<1>9. Sound(after.globals)
  BY <1>2, <1>8, RedrawKeeps DEF Sound
<1>10. wire' \in Seq(Frames) /\ \A r \in owed' : r.id \in Nat \ {0}
  <2>1. CASE after.connection = "lost"
    BY <1>1, <2>1
  <2>2. CASE after.connection # "lost"
    <3>1. n <= Len(wire)
      BY <1>4 DEF PluginInv
    <3> QED BY <1>1, <2>2, <3>1, RestIsLeft DEF PluginInv
  <2> QED BY <2>1, <2>2
<1>11. spent' \in [requests : Nat, inserts : Nat, typing : Nat, breaks : Nat]
  <2> DEFINE lost == plugin.fd /\ ~plugin'.fd
  <2>1. spent' = [spent EXCEPT !.breaks = IF lost THEN @ + 1 ELSE @]
    BY Zenon DEF PromptAgain
  <2> HIDE DEF lost
  <2> QED BY <2>1 DEF PluginInv
<1> QED BY <1>1, <1>9, <1>10, <1>11 DEF PluginInv

LEMMA SocketKeeps ==
  ASSUME PluginInv, NEW n \in Nat, NEW cut \in BOOLEAN, SocketReady(n, cut)
  PROVE  PluginInv'
<1>1. n <= Len(wire)
  BY DEF SocketReady, Reads
<1>2. Sound(plugin')
  BY <1>1, ReadKeeps DEF SocketReady, PluginInv
<1>3. wire' \in Seq(Frames)
  BY <1>1, RestIsLeft DEF SocketReady, PluginInv
<1> QED BY <1>2, <1>3 DEF SocketReady, PluginInv

LEMMA CloseKeeps ==
  ASSUME PluginInv, SocketEnds \/ CloseSocket
  PROVE  PluginInv'
<1>1. plugin' = Close(plugin) /\ wire' = <<>> /\ owed' = {} /\ spent' = [spent EXCEPT !.breaks = @ + 1]
  BY DEF SocketEnds, CloseSocket
<1>2. Sound(Close(plugin))
  BY Closed DEF PluginInv, Sound
<1> QED BY <1>1, <1>2 DEF PluginInv

LEMMA FramesAre ==
  ASSUME NEW kind \in FrameKinds, NEW id \in Nat, kind = "COMPLETE" => id # 0, NEW apply \in BOOLEAN
  PROVE  /\ Frame(kind, id) \in Frames
         /\ [Frame(kind, id) EXCEPT !.apply = apply] \in Frames
         /\ kind = "INSERT" => [Frame(kind, id) EXCEPT !.text = Suggested] \in Frames
  BY DEF Frame, Frames, FrameKinds

LEMMA DaemonKeeps ==
  ASSUME PluginInv, Insert \/ \E r \in owed : Answer(r) \/ AnswerPart(r)
  PROVE  PluginInv'
<1>1. plugin' = plugin /\ owed' \subseteq owed
  BY DEF Insert, Answer, AnswerPart
<1>2. \E f \in Frames : wire' = Append(wire, f)
  <2>1. CASE Insert
    BY <2>1, FramesAre DEF Insert, FrameKinds
  <2>2. ASSUME NEW r \in owed, Answer(r) PROVE \E f \in Frames : wire' = Append(wire, f)
    <3>1. PICK last \in {"COMPLETE", "LENS", "ANSWER", "ANSWER_DONE", "END"}, apply \in BOOLEAN :
            wire' = Append(wire, [Frame(last, r.id) EXCEPT !.apply = apply])
      BY <2>2 DEF Answer
    <3>2. r.id \in Nat \ {0} /\ last \in FrameKinds
      BY DEF PluginInv, FrameKinds
    <3> QED BY <3>1, <3>2, FramesAre
  <2>3. ASSUME NEW r \in owed, AnswerPart(r) PROVE \E f \in Frames : wire' = Append(wire, f)
    <3>1. r.id \in Nat \ {0} /\ "ANSWER_DELTA" \in FrameKinds
      BY DEF PluginInv, FrameKinds
    <3> QED BY <2>3, <3>1, FramesAre DEF AnswerPart
  <2> QED BY <2>1, <2>2, <2>3
<1>3. spent' \in [requests : Nat, inserts : Nat, typing : Nat, breaks : Nat]
  BY DEF PluginInv, Insert, Answer, AnswerPart
<1> QED BY <1>1, <1>2, <1>3 DEF PluginInv

LEMMA PluginBegins == PluginInit => PluginInv
  BY DEF PluginInit, PluginInv, Sound, Formed, Current, Silent, Globals, NoRequest, NoChat

LEMMA PluginStep == PluginInv /\ [PluginNext]_pluginVars => PluginInv'
<1> SUFFICES ASSUME PluginInv, [PluginNext]_pluginVars PROVE PluginInv'
  OBVIOUS
<1>1. CASE \E n \in 0..MaxFrames, cut \in BOOLEAN : SocketReady(n, cut)
  BY <1>1, SocketKeeps
<1>2. CASE \E n \in 0..MaxFrames, cut \in BOOLEAN : PromptAgain(n, cut)
  BY <1>2, PromptKeeps
<1>3. CASE \E text \in Texts : Type(text)
  BY <1>3, TypeKeeps
<1>4. CASE Insert \/ \E r \in owed : Answer(r) \/ AnswerPart(r)
  BY <1>4, DaemonKeeps
<1>5. CASE SocketEnds \/ CloseSocket
  BY <1>5, CloseKeeps
<1>6. CASE CompleteWidget
  BY <1>6, CompleteWidgetKeeps
<1>7. CASE RiskLensWidget
  BY <1>7, RiskLensKeeps
<1>8. CASE ChatWidget
  BY <1>8, ChatKeeps
<1>9. CASE Preexec
  BY <1>9, PreexecKeeps
<1>10. CASE UNCHANGED pluginVars
  BY <1>10 DEF PluginInv, pluginVars
<1> QED
  BY <1>1, <1>2, <1>3, <1>4, <1>5, <1>6, <1>7, <1>8, <1>9, <1>10 DEF PluginNext

\* The globals of the shell are sound after every step, whatever is typed, asked, answered,
\* cut or lost.
THEOREM GlobalsAreSound == PluginSpec => []PluginInv
  BY PluginBegins, PluginStep, PTL DEF PluginSpec

\* No completion takes away what was typed after it was asked for.
THEOREM TypingStays == PluginSpec => []TypingIsKept
<1>1. PluginInv => TypingIsKept
  BY DEF PluginInv, Sound, Formed, TypingIsKept
<1> QED BY GlobalsAreSound, <1>1, PTL

\* A shell without a connection waits for nothing, and the answer collected for a chat is
\* that of this chat.
THEOREM QuestionsAreAnswered == PluginSpec => []QuestionsGetTheirAnswers
<1>1. PluginInv => QuestionsGetTheirAnswers
  BY DEF PluginInv, Sound, Formed, Silent, QuestionsGetTheirAnswers, NobodyWaitsInVain,
         AnswerIsOfItsChat
<1> QED BY GlobalsAreSound, <1>1, PTL
=============================================================================

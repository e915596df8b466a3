-------------------------- MODULE IpcClientProofs --------------------------
(***************************************************************************)
(* IpcClient for any set of calls and any limit of a frame: no call gets    *)
(* the answer of another one, a call that is over has no entry, and of a    *)
(* frame no more than the limit is read.                                    *)
(*                                                                         *)
(* A call that is over has no entry because it either takes its entry out   *)
(* or had an answer, and whoever answers takes it out: so an entry means    *)
(* that its call is under way and has no answer yet.  That again needs that *)
(* nothing is ever put into a channel before its call has its entry.        *)
(***************************************************************************)
EXTENDS IpcClient, TLAPS

Awaiting == {"inserted", "writing", "failed", "waiting", "late"}

EntryInv ==
  /\ \A c \in pending : call[c].at \in Awaiting /\ call[c].got = "none"
  /\ \A c \in Calls : call[c].at \in {"unmade", "checked"} => call[c].got = "none"
  /\ part <= MaxFrame

IInv == TypeOK /\ EntryInv

-----------------------------------------------------------------------------
(* The operators of the model                                              *)

\* A call moves to another phase; the others, and its channel, are left alone.
LEMMA GoesOn ==
  ASSUME TypeOK, NEW c \in Calls, NEW phase, Goes(c, phase)
  PROVE  /\ DOMAIN call' = Calls
         /\ \A d \in Calls \ {c} : call'[d] = call[d]
         /\ call'[c] = [at |-> phase, got |-> call[c].got, result |-> call[c].result]
BY DEF TypeOK, CallType, Goes

LEMMA EndsWith ==
  ASSUME TypeOK, NEW c \in Calls, NEW result, Ends(c, result)
  PROVE  /\ DOMAIN call' = Calls
         /\ \A d \in Calls \ {c} : call'[d] = call[d]
         /\ call'[c] = [at |-> "over", got |-> call[c].got, result |-> result]
BY DEF TypeOK, CallType, Ends

\* Dropping channels tells those who wait, and nobody else.
LEMMA DropsOnly ==
  ASSUME TypeOK, NEW cs \in SUBSET Calls, call' = Dropped(call, cs)
  PROVE  /\ DOMAIN call' = Calls
         /\ \A c \in Calls : /\ call'[c].at = call[c].at /\ call'[c].result = call[c].result
                             /\ call'[c].got \in {call[c].got, "dropped"}
                             /\ c \notin cs => call'[c] = call[c]
                             /\ call'[c] \in CallType(c)
BY SMTT(30) DEF TypeOK, CallType, Dropped

LEMMA HeadAndTail ==
  ASSUME NEW S, NEW seq \in Seq(S), seq # <<>>
  PROVE  Head(seq) \in S /\ Tail(seq) \in Seq(S)
OBVIOUS

-----------------------------------------------------------------------------

LEMMA InitHolds == Init => IInv
BY IpcClientAssumption
DEF Init, IInv, TypeOK, CallType, EntryInv, Phases, FrameKinds, Awaiting

\* A step of call c that leaves the reader's side alone.
LEMMA CallKeeps ==
  ASSUME IInv, NEW c \in Calls, NEW phase \in Phases,
         NEW result \in {"none", "closed", "error", "timeout", c},
         DOMAIN call' = Calls, \A d \in Calls \ {c} : call'[d] = call[d],
         call'[c] = [at |-> phase, got |-> call[c].got, result |-> result],
         pending' \subseteq pending \cup {c},
         c \in pending' => phase \in Awaiting /\ call[c].got = "none",
         phase \notin {"unmade", "checked"} \/ call[c].got = "none",
         writer' \in {writer, c, Nobody}, UNCHANGED <<part, inbox>>, outbox' \in Seq(Calls)
  PROVE  IInv'
<1>1. call'[c] \in CallType(c)
  BY DEF IInv, TypeOK, CallType
<1>2. TypeOK'
  BY <1>1 DEF IInv, TypeOK
<1>3. EntryInv'
  <2>1. call'[c].at = phase /\ call'[c].got = call[c].got
    OBVIOUS
  <2>2. \A d \in Calls : d \in pending' => call'[d].at \in Awaiting /\ call'[d].got = "none"
    BY <2>1 DEF IInv, EntryInv
  <2>3. \A d \in Calls : call'[d].at \in {"unmade", "checked"} => call'[d].got = "none"
    BY <2>1 DEF IInv, EntryInv
  <2>4. QED BY <2>2, <2>3, <1>2 DEF IInv, TypeOK, EntryInv
<1>4. QED BY <1>2, <1>3 DEF IInv

LEMMA CallStep ==
  ASSUME IInv, NEW c \in Calls,
         \/ Begin(c) \/ Insert(c) \/ LockWriter(c) \/ Write(c) \/ Fail(c) \/ Answered(c)
         \/ TimeOut(c) \/ Withdraw(c)
  PROVE  IInv'
<1> USE DEF At, Phases, Awaiting
<1>1. /\ IInv /\ TypeOK /\ outbox \in Seq(Calls)
      /\ call[c].result \in {"none", "closed", "error", "timeout", c}
      /\ call[c].got \in {"none", "dropped", c}
      /\ c \in pending => call[c].at \in Awaiting /\ call[c].got = "none"
      /\ call[c].at \in {"unmade", "checked"} => call[c].got = "none"
  BY DEF IInv, TypeOK, CallType, EntryInv
<1>2. CASE Begin(c)
  <2>1. CASE client.closed
    BY <1>1, <1>2, <2>1, EndsWith, CallKeeps, ZenonT(30) DEF Begin
  <2>2. CASE ~ client.closed
    BY <1>1, <1>2, <2>2, GoesOn, CallKeeps, ZenonT(30) DEF Begin
  <2>3. QED BY <2>1, <2>2
<1>3. CASE Insert(c)
  BY <1>1, <1>3, GoesOn, CallKeeps, ZenonT(30) DEF Insert
<1>4. CASE LockWriter(c)
  <2>1. /\ Goes(c, "writing") /\ call[c].at = "inserted" /\ writer' = c
        /\ UNCHANGED <<pending, part, inbox, outbox>>
    BY <1>4 DEF LockWriter
  <2>2. /\ DOMAIN call' = Calls /\ \A d \in Calls \ {c} : call'[d] = call[d]
        /\ call'[c] = [at |-> "writing", got |-> call[c].got, result |-> call[c].result]
    BY <1>1, <2>1, GoesOn
  <2>3. QED BY <1>1, <2>1, <2>2, CallKeeps
<1>5. CASE Write(c)
  <2>1. outbox' \in Seq(Calls)
    BY <1>1, <1>5 DEF Write
  <2>2. Goes(c, "waiting") \/ Goes(c, "failed")
    BY <1>5 DEF Write
  <2>3. call[c].at = "writing" /\ writer' = Nobody /\ UNCHANGED <<pending, part, inbox>>
    BY <1>5 DEF Write
  <2>4. QED BY <1>1, <2>1, <2>2, <2>3, GoesOn, CallKeeps, ZenonT(30)
<1>6. CASE Fail(c)
  BY <1>1, <1>6, EndsWith, CallKeeps DEF Fail
<1>7. CASE Answered(c)
  <2>1. PICK result \in {"closed", c} : Ends(c, result)
    BY <1>1, <1>7 DEF Answered
  <2>2. c \notin pending /\ UNCHANGED <<pending, writer, part, inbox, outbox>>
    BY <1>1, <1>7 DEF Answered
  <2>3. /\ DOMAIN call' = Calls /\ \A d \in Calls \ {c} : call'[d] = call[d]
        /\ call'[c] = [at |-> "over", got |-> call[c].got, result |-> result]
    BY <1>1, <2>1, EndsWith
  <2>4. QED BY <1>1, <2>2, <2>3, CallKeeps
<1>8. CASE TimeOut(c)
  BY <1>1, <1>8, GoesOn, CallKeeps, ZenonT(30) DEF TimeOut
<1>9. CASE Withdraw(c)
  BY <1>1, <1>9, EndsWith, CallKeeps DEF Withdraw
<1>10. QED BY <1>2, <1>3, <1>4, <1>5, <1>6, <1>7, <1>8, <1>9

\* The reader hands a response to the call of its id and takes the entry out with it.
LEMMA HandleStep ==
  ASSUME IInv, NEW frame \in FrameType, Handle(frame)
  PROVE  /\ pending' \subseteq pending /\ DOMAIN call' = Calls
         /\ \A c \in Calls : /\ call'[c].at = call[c].at /\ call'[c] \in CallType(c)
                             /\ c \in pending' \/ c \notin pending => call'[c] = call[c]
<1> USE DEF IInv, TypeOK
<1>1. CASE frame.kind = "response" /\ frame.of \in pending
  <2> DEFINE got == IF At(frame.of, "late") THEN call[frame.of].got ELSE frame.of
  <2>1. pending' = pending \ {frame.of} /\ call' = [call EXCEPT ![frame.of].got = got]
    BY <1>1 DEF Handle
  <2>2. DOMAIN call' = Calls /\ \A c \in Calls \ {frame.of} : call'[c] = call[c]
    BY <2>1
  <2>3. /\ call'[frame.of].at = call[frame.of].at
        /\ call'[frame.of] \in CallType(frame.of)
    BY <1>1, <2>1 DEF CallType
  <2>4. QED BY <1>1, <2>1, <2>2, <2>3
<1>2. CASE ~ (frame.kind = "response" /\ frame.of \in pending)
  BY <1>2 DEF Handle
<1>3. QED BY <1>1, <1>2

\* Entries are taken out, and no call moves.
LEMMA EntriesLeave ==
  ASSUME IInv, pending' \subseteq pending, DOMAIN call' = Calls,
         \A c \in Calls : /\ call'[c].at = call[c].at /\ call'[c] \in CallType(c)
                          /\ c \in pending' \/ c \notin pending => call'[c] = call[c],
         writer' = writer, part' \in 0..MaxFrame,
         inbox' \in Seq(FrameType), outbox' = outbox
  PROVE  IInv'
<1>1. part' \in Nat /\ part' <= MaxFrame
  BY IpcClientAssumption
<1>2. TypeOK'
  BY <1>1 DEF IInv, TypeOK
<1>3. EntryInv'
  <2>1. \A c \in Calls : call[c].at \in {"unmade", "checked"} => c \notin pending
    BY DEF IInv, EntryInv, Awaiting
  <2>2. \A c \in pending' : call'[c].at \in Awaiting /\ call'[c].got = "none"
    BY DEF IInv, TypeOK, EntryInv
  <2>3. \A c \in Calls : call'[c].at \in {"unmade", "checked"} => call'[c].got = "none"
    BY <2>1 DEF IInv, EntryInv
  <2>4. QED BY <1>1, <2>2, <2>3 DEF EntryInv
<1>4. QED BY <1>2, <1>3 DEF IInv

LEMMA PendingCleared ==
  ASSUME IInv, call' = Dropped(call, pending), pending' = {},
         UNCHANGED <<writer, part, inbox, outbox>>
  PROVE  IInv'
<1>1. TypeOK /\ pending \in SUBSET Calls /\ part \in 0..MaxFrame /\ inbox \in Seq(FrameType)
  BY IpcClientAssumption DEF IInv, TypeOK, EntryInv
<1>2. /\ DOMAIN call' = Calls
      /\ \A c \in Calls : /\ call'[c].at = call[c].at /\ call'[c] \in CallType(c)
                          /\ c \notin pending => call'[c] = call[c]
  BY <1>1, DropsOnly
<1>3. QED BY <1>1, <1>2, EntriesLeave

LEMMA ReaderStep ==
  ASSUME IInv, Read \/ ReadEnd \/ SetClosed \/ ClearPending
  PROVE  IInv'
<1>1. CASE Read
  <2> DEFINE frame == Head(inbox)
  <2>1. frame \in FrameType /\ Tail(inbox) \in Seq(FrameType)
    BY <1>1, HeadAndTail DEF Read, IInv, TypeOK
  <2>2. part \in Nat /\ part <= MaxFrame /\ frame.size \in Nat
    BY <2>1 DEF IInv, TypeOK, EntryInv, FrameType
  <2>3. PICK n \in part + 1..frame.size + 1 :
          IF TooLong(frame.size, n, n = frame.size + 1)
          THEN UNCHANGED <<call, pending, part, inbox>>
          ELSE IF n = frame.size + 1
               THEN Handle(frame) /\ part' = 0 /\ inbox' = Tail(inbox)
               ELSE part' = n /\ UNCHANGED <<call, pending, inbox>>
    BY <1>1 DEF Read
  <2>4. UNCHANGED <<writer, outbox>>
    BY <1>1 DEF Read
  <2> HIDE DEF frame
  <2>5. CASE TooLong(frame.size, n, n = frame.size + 1)
    BY <2>3, <2>4, <2>5 DEF IInv, TypeOK, EntryInv
  <2>6. CASE ~ TooLong(frame.size, n, n = frame.size + 1) /\ n = frame.size + 1
    <3>1. Handle(frame) /\ part' = 0 /\ inbox' = Tail(inbox)
      BY <2>3, <2>6
    <3>2. QED BY <2>1, <2>4, <3>1, HandleStep, EntriesLeave, IpcClientAssumption
  <2>7. CASE ~ TooLong(frame.size, n, n = frame.size + 1) /\ n # frame.size + 1
    <3>1. part' = n /\ n \in Nat /\ n <= MaxFrame /\ UNCHANGED <<call, pending, inbox>>
      BY <2>2, <2>3, <2>7, IpcClientAssumption DEF TooLong
    <3>2. QED BY <2>4, <3>1 DEF IInv, TypeOK, EntryInv
  <2>8. QED BY <2>5, <2>6, <2>7
<1>2. CASE ReadEnd \/ SetClosed
  BY <1>2 DEF ReadEnd, SetClosed, IInv, TypeOK, EntryInv
<1>3. CASE ClearPending
  BY <1>3, PendingCleared DEF ClearPending
<1>4. QED BY <1>1, <1>2, <1>3

LEMMA OwnerStep ==
  ASSUME IInv, BeginClose \/ ShutWriter \/ DropHandle \/ AbortReader
  PROVE  IInv'
<1>1. CASE BeginClose \/ DropHandle \/ AbortReader
  BY <1>1 DEF BeginClose, DropHandle, AbortReader, IInv, TypeOK, EntryInv
<1>2. CASE ShutWriter
  BY <1>2, PendingCleared DEF ShutWriter
<1>3. QED BY <1>1, <1>2

\* What the daemon sends are frames, and what it has answered is no longer asked.
LEMMA DaemonStep ==
  ASSUME IInv, (\E i \in DOMAIN outbox : Serve(i)) \/ Noise \/ HangUp
  PROVE  IInv'
<1>1. /\ inbox' \in Seq(FrameType) /\ outbox' \in Seq(Calls)
      /\ UNCHANGED <<call, pending, writer, part>>
  <2>1. inbox \in Seq(FrameType) /\ outbox \in Seq(Calls)
    BY DEF IInv, TypeOK
  <2>2. ASSUME NEW i \in DOMAIN outbox, Serve(i)
        PROVE  inbox' \in Seq(FrameType) /\ outbox' \in Seq(Calls)
    <3>1. /\ SubSeq(outbox, 1, i - 1) \in Seq(Calls)
          /\ SubSeq(outbox, i + 1, Len(outbox)) \in Seq(Calls)
      BY <2>1
    <3>2. outbox' \in Seq(Calls)
      BY <2>2, <3>1, SMTT(30) DEF Serve, RemoveAt
    <3>3. \A size \in {1, MaxFrame} : Frame("response", outbox[i], size) \in FrameType
      BY <2>1, IpcClientAssumption DEF FrameType, FrameKinds, Frame
    <3>4. QED BY <2>1, <2>2, <3>2, <3>3 DEF Serve
  <2>3. CASE Noise
    <3>1. \A kind \in {"event", "empty", "request", "garbage"}, size \in Sizes :
            Frame(kind, Nobody, size) \in FrameType
      BY IpcClientAssumption DEF FrameType, FrameKinds, Frame, Sizes
    <3>2. QED BY <2>1, <2>3, <3>1 DEF Noise
  <2>4. CASE HangUp
    BY <2>1, <2>4 DEF HangUp
  <2>5. UNCHANGED <<call, pending, writer, part>>
    BY DEF Serve, Noise, HangUp
  <2>6. QED BY <2>2, <2>3, <2>4, <2>5
<1>2. QED BY <1>1 DEF IInv, TypeOK, EntryInv

LEMMA NextHolds == IInv /\ [Next]_vars => IInv'
<1>1. ASSUME IInv, UNCHANGED vars PROVE IInv'
  BY <1>1 DEF IInv, TypeOK, EntryInv, vars
<1>2. QED BY <1>1, CallStep, ReaderStep, OwnerStep, DaemonStep DEF Next

\* The inductive invariant, with the types of the client, holds in every reachable state.
THEOREM EntriesAreKept == Spec => []IInv
BY InitHolds, NextHolds, PTL DEF Spec

\* For any number of calls: none is given another one's answer, none that is over has an
\* entry a later response could find, and no frame is read past the limit (client.rs,
\* NdjsonReader::recv).
THEOREM CallsStayApart == Spec => []CallsAreKeptApart
<1>1. IInv => CallsAreKeptApart
  BY DEF IInv, TypeOK, CallType, EntryInv, CallsAreKeptApart, At, Awaiting
<1>2. QED BY <1>1, EntriesAreKept, PTL
=============================================================================

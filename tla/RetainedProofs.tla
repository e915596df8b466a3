---------------------------- MODULE RetainedProofs ----------------------------
(***************************************************************************)
(* CommandHistory for any limits, any commands and any number of requests:  *)
(* the context stays within its limits and keeps the command recorded last, *)
(* what was in flight when its session's data was erased is never recorded, *)
(* and probes and screen tails describe the command they were taken for.    *)
(*                                                                         *)
(* That nothing erased comes back rests on the markers: a command in flight *)
(* at an erasure has its marker until its finish frame is taken, and it has *)
(* one such frame at most, because the shell draws each identifier once and *)
(* writes the frame when the command leaves the prompt.  That the latest    *)
(* command survives every trim rests on each record alone being within the  *)
(* limit, which BoundRecord sees to.                                        *)
(***************************************************************************)
EXTENDS CommandHistory, EnvironmentDrift, TLAPS, WellFoundedInduction, FiniteSetTheorems, SequenceTheorems

Texts  == Nat \cup {None}
Record == [id : Commands, cmd : Nat, out : Texts, err : Texts, tail : Commands \cup {None}]
Started  == [kind : {"started"}, id : Commands]
Finished == [kind : {"finished"}, id : Commands, code : {0, 1}, frame : Finishes]
Job == [id : Commands, stage : {"capture", "probe"}, stale : BOOLEAN]

Shapes ==
  /\ running \in Commands \cup {None} /\ asked \in BOOLEAN
  /\ drawn \subseteq Commands /\ started \subseteq Commands /\ discarded \subseteq Commands
  /\ inbox \in Seq(Started \cup Finished)
  /\ records \in Seq(Record)
  /\ success \in [id : Commands, git : Commands \cup {None}] \cup {None}
  /\ probes \subseteq Commands /\ jobs \subseteq Job
  /\ since \in Seq(Commands) /\ dropped \subseteq Commands
  /\ checkpoint \in Checkpoint \cup {None}

\* Every record is within the limits on its own, and a tail is its own.
Bounded(seq) ==
  \A i \in DOMAIN seq :
    /\ LengthOf(seq[i].out) + LengthOf(seq[i].err) <= MaxOutput
    /\ RecordChars(seq[i]) <= MaxChars
    /\ seq[i].tail \in {None, seq[i].id}

\* The commands whose finish frame waits to be taken.
Finishing == {inbox[i].id : i \in {j \in DOMAIN inbox : inbox[j].kind = "finished"}}

\* A command finishes once, after it was drawn.
FinishesOnce ==
  /\ running # None => running \in drawn \ Finishing
  /\ \A i, j \in DOMAIN inbox :
       inbox[i].kind = "finished" /\ inbox[j].kind = "finished" /\ inbox[i].id = inbox[j].id => i = j
  /\ \A i \in DOMAIN inbox : inbox[i].id \in drawn
  /\ started \subseteq drawn

MarkersHold ==
  \A c \in dropped :
    c \in drawn /\ c \notin Ids(records) /\ (c \in discarded \/ c \notin Finishing \cup {running})

LatestIsKept ==
  /\ checkpoint = None => since = <<>>
  /\ since # <<>> => LastId(records) = Last(since)

WithinLimits == Len(records) <= MaxCommands /\ TotalChars(records) <= MaxChars

SuccessIsItsOwn == success # None => success.git \in {None, success.id}

RetainedInv ==
  /\ Bounded(records) /\ FinishesOnce /\ MarkersHold /\ LatestIsKept /\ WithinLimits
  /\ SuccessIsItsOwn

IInv == Shapes /\ RetainedInv

-----------------------------------------------------------------------------
(* Lengths and records                                                     *)

LEMMA Lengths ==
  /\ \A a, b \in Nat : Lesser(a, b) \in Nat /\ Lesser(a, b) <= a /\ Lesser(a, b) <= b
  /\ \A a, b \in Nat : Minus(a, b) \in Nat /\ Minus(a, b) <= a
  /\ \A a, b \in Nat : b <= a => Minus(a, b) + b = a
BY DEF Lesser, Minus

LEMMA TextLengths ==
  /\ \A t \in Texts : LengthOf(t) \in Nat
  /\ \A t \in Texts, limit \in Nat :
       /\ TruncateTail(t, limit) \in Texts
       /\ LengthOf(TruncateTail(t, limit)) <= limit
       /\ LengthOf(TruncateTail(t, limit)) <= LengthOf(t)
<1>1. \A t \in Texts : (t = None /\ LengthOf(t) = 0) \/ (t \in Nat /\ t # None /\ LengthOf(t) = t)
  BY HistoryAssumption DEF LengthOf, Texts
<1>2. ASSUME NEW t \in Texts, NEW limit \in Nat
      PROVE  /\ TruncateTail(t, limit) \in Texts
             /\ LengthOf(TruncateTail(t, limit)) <= limit
             /\ LengthOf(TruncateTail(t, limit)) <= LengthOf(t)
  <2>1. CASE t = None
    BY <1>1, <2>1, HistoryAssumption DEF TruncateTail, Texts
  <2>2. CASE t \in Nat /\ t # None
    <3>1. TruncateTail(t, limit) = Lesser(t, limit)
      BY <2>2 DEF TruncateTail
    <3>2. Lesser(t, limit) \in Nat /\ Lesser(t, limit) # None
      <4>1. Lesser(t, limit) \in Nat
        BY <2>2, Lengths
      <4>2. QED BY <4>1, HistoryAssumption
    <3>3. LengthOf(Lesser(t, limit)) = Lesser(t, limit) /\ LengthOf(t) = t
      BY <2>2, <3>2 DEF LengthOf
    <3>4. QED BY <2>2, <3>1, <3>2, <3>3, Lengths DEF Texts
  <2>3. QED BY <1>1, <2>1, <2>2
<1>3. QED BY <1>1, <1>2

LEMMA RecordLengths ==
  ASSUME NEW r \in Record
  PROVE  RecordChars(r) \in Nat
<1>1. r.cmd \in Nat /\ LengthOf(r.out) \in Nat /\ LengthOf(r.err) \in Nat /\ CwdChars \in Nat
  BY TextLengths, HistoryAssumption DEF Record
<1>2. QED BY <1>1 DEF RecordChars

\* A bounded record is within the limits, and the same command's.
LEMMA RecordIsBounded ==
  ASSUME NEW r \in Record, LengthOf(r.out) + LengthOf(r.err) <= MaxOutput
  PROVE  /\ BoundRecord(r) \in Record
         /\ BoundRecord(r).id = r.id /\ BoundRecord(r).tail = r.tail
         /\ LengthOf(BoundRecord(r).out) + LengthOf(BoundRecord(r).err) <= MaxOutput
         /\ RecordChars(BoundRecord(r)) <= MaxChars
<1> DEFINE cmd  == Lesser(r.cmd, Minus(MaxChars, CwdChars))
           rest == Minus(MaxChars, CwdChars + cmd)
           err  == TruncateTail(r.err, rest)
           room == Minus(rest, LengthOf(err))
           out  == TruncateTail(r.out, room)
<1>1. BoundRecord(r) = [r EXCEPT !.cmd = cmd, !.err = err, !.out = out]
  BY DEF BoundRecord
<1>2. MaxChars \in Nat /\ CwdChars \in Nat /\ CwdChars <= MaxChars /\ MaxOutput \in Nat
  BY HistoryAssumption
<1>3. r.cmd \in Nat /\ r.err \in Texts /\ r.out \in Texts
  BY DEF Record
<1>4. cmd \in Nat /\ CwdChars + cmd <= MaxChars
  <2>1. Minus(MaxChars, CwdChars) \in Nat /\ Minus(MaxChars, CwdChars) + CwdChars = MaxChars
    BY <1>2, Lengths
  <2>2. cmd \in Nat /\ cmd <= Minus(MaxChars, CwdChars)
    BY <1>3, <2>1, Lengths
  <2>3. QED BY <1>2, <2>1, <2>2
<1>5. rest \in Nat /\ rest + CwdChars + cmd = MaxChars
  BY <1>2, <1>4, Lengths
<1> HIDE DEF cmd, rest
<1>6. err \in Texts /\ LengthOf(err) \in Nat /\ LengthOf(err) <= rest /\ LengthOf(err) <= LengthOf(r.err)
  BY <1>3, <1>5, TextLengths
<1>7. room \in Nat /\ room + LengthOf(err) = rest
  BY <1>5, <1>6, Lengths
<1> HIDE DEF err, room
<1>8. out \in Texts /\ LengthOf(out) \in Nat /\ LengthOf(out) <= room /\ LengthOf(out) <= LengthOf(r.out)
  BY <1>3, <1>7, TextLengths
<1> HIDE DEF out
<1>9. BoundRecord(r) = [id |-> r.id, cmd |-> cmd, out |-> out, err |-> err, tail |-> r.tail]
  BY <1>1 DEF Record
<1>10. BoundRecord(r) \in Record
  BY <1>4, <1>6, <1>8, <1>9 DEF Record
<1>11. LengthOf(out) + LengthOf(err) <= MaxOutput
  <2>1. LengthOf(r.out) \in Nat /\ LengthOf(r.err) \in Nat
    BY <1>3, TextLengths
  <2>2. QED BY <1>2, <1>6, <1>8, <2>1
<1>12. cmd + CwdChars + LengthOf(out) + LengthOf(err) <= MaxChars
  BY <1>2, <1>4, <1>5, <1>6, <1>7, <1>8
<1>13. QED BY <1>9, <1>10, <1>11, <1>12 DEF RecordChars

-----------------------------------------------------------------------------
(* The characters of a context: what the fold sums over none and over one.   *)

Sums(seq, iter) ==
  iter = [s \in SUBSET DOMAIN seq |->
            IF s = {} THEN 0
            ELSE RecordChars(seq[CHOOSE x \in s : TRUE]) + iter[s \ {CHOOSE x \in s : TRUE}]]

LEMMA TotalIsSum ==
  ASSUME NEW seq, NEW it, Sums(seq, it)
  PROVE  \E iter : Sums(seq, iter) /\ TotalChars(seq) = iter[DOMAIN seq]
<1> DEFINE chosen == CHOOSE iter : Sums(seq, iter)
<1>1. Sums(seq, chosen)
  OBVIOUS
<1>2. TotalChars(seq) = chosen[DOMAIN seq]
  BY DEF TotalChars, FoldSeq, FoldFunction, FoldFunctionOnSet, MapThenFoldSet, Sums
<1>3. QED BY <1>1, <1>2

LEMMA EmptyTotal == TotalChars(<<>>) = 0
<1> DEFINE it == [s \in SUBSET DOMAIN <<>> |-> 0]
<1>1. DOMAIN <<>> = {}
  OBVIOUS
<1>2. \A s \in SUBSET DOMAIN <<>> : s = {}
  BY <1>1
<1>3. Sums(<<>>, it)
  BY <1>2 DEF Sums
<1>4. PICK iter : Sums(<<>>, iter) /\ TotalChars(<<>>) = iter[DOMAIN <<>>]
  BY <1>3, TotalIsSum
<1>5. QED BY <1>1, <1>4 DEF Sums

LEMMA SingleTotal ==
  ASSUME NEW r, RecordChars(r) \in Nat
  PROVE  TotalChars(<<r>>) = RecordChars(r)
<1> DEFINE it == [s \in SUBSET {1} |-> IF s = {} THEN 0 ELSE RecordChars(r)]
<1>1. DOMAIN <<r>> = {1} /\ <<r>>[1] = r
  OBVIOUS
<1>2. \A s \in SUBSET {1} : s # {} => s = {1} /\ (CHOOSE x \in s : TRUE) = 1
  <2>1. (CHOOSE x \in {1} : TRUE) = 1
    OBVIOUS
  <2>2. QED BY <2>1
<1>3. Sums(<<r>>, it)
  BY <1>1, <1>2 DEF Sums
<1>4. PICK iter : Sums(<<r>>, iter) /\ TotalChars(<<r>>) = iter[DOMAIN <<r>>]
  BY <1>3, TotalIsSum
<1>5. iter[{1}] = RecordChars(r) + iter[{}] /\ iter[{}] = 0
  BY <1>1, <1>2, <1>4 DEF Sums
<1>6. QED BY <1>1, <1>4, <1>5

-----------------------------------------------------------------------------
(* Trimming                                                                *)

LEMMA SmallestNat ==
  ASSUME NEW T \in SUBSET Nat, T # {}
  PROVE  \E x \in T : \A y \in T : x <= y
<1> DEFINE R == OpToRel(<, Nat)
<1>1. \A x, y \in Nat : y < x => <<y, x>> \in R
  BY DEF OpToRel
<1>2. IsWellFoundedOn(R, Nat)
  BY NatLessThanWellFounded
<1> HIDE DEF R
<1>3. PICK x \in T : \A y \in T : ~ (<<y, x>> \in R)
  BY <1>2, WFMin
<1>4. \A y \in T : ~ (y < x)
  BY <1>1, <1>3
<1>5. QED BY <1>4

\* There is a longest suffix within both limits, and it has the last record.
LEMMA TrimIsSuffix ==
  ASSUME NEW seq \in Seq(Record), Bounded(seq)
  PROVE  \E n \in 0..Len(seq) :
           /\ TrimContext(seq) = SubSeq(seq, n + 1, Len(seq))
           /\ seq # <<>> => n < Len(seq)
           /\ Len(seq) - n <= MaxCommands
           /\ TotalChars(SubSeq(seq, n + 1, Len(seq))) <= MaxChars
<1> DEFINE Fits(n) == /\ Len(seq) - n <= MaxCommands
                      /\ TotalChars(SubSeq(seq, n + 1, Len(seq))) <= MaxChars
           First(n) == n \in 0..Len(seq) /\ Fits(n) /\ \A m \in 0..n - 1 : ~ Fits(m)
<1>1. Fits(Len(seq))
  <2>1. Len(seq) \in Nat /\ Len(seq) - Len(seq) = 0 /\ MaxCommands \in Nat /\ MaxChars \in Nat
    BY HistoryAssumption
  <2>2. SubSeq(seq, Len(seq) + 1, Len(seq)) = <<>>
    BY <2>1
  <2>3. Len(seq) - Len(seq) <= MaxCommands
    BY <2>1
  <2>4. TotalChars(SubSeq(seq, Len(seq) + 1, Len(seq))) <= MaxChars
    <3>1. TotalChars(SubSeq(seq, Len(seq) + 1, Len(seq))) = 0
      BY <2>2, EmptyTotal
    <3>2. QED BY <2>1, <3>1
  <2>5. QED BY <2>3, <2>4
<1>2. ASSUME seq # <<>>
      PROVE  Len(seq) - 1 \in 0..Len(seq) /\ Fits(Len(seq) - 1)
  <2>1. Len(seq) \in Nat \ {0} /\ Len(seq) \in DOMAIN seq /\ seq[Len(seq)] \in Record
    BY <1>2
  <2>2. (Len(seq) - 1) + 1 = Len(seq) /\ Len(seq) - (Len(seq) - 1) = 1
    BY <2>1
  <2>3. SubSeq(seq, Len(seq), Len(seq)) = <<seq[Len(seq)]>>
    <3> DEFINE newest == SubSeq(seq, Len(seq), Len(seq))
    <3>1. newest \in Seq(Record) /\ Len(newest) = 1 /\ newest[1] = seq[Len(seq)]
      BY <2>1
    <3> HIDE DEF newest
    <3>2. newest = <<newest[1]>>
      BY <3>1
    <3>3. QED BY <3>1, <3>2 DEF newest
  <2>4. TotalChars(<<seq[Len(seq)]>>) = RecordChars(seq[Len(seq)])
    BY <2>1, RecordLengths, SingleTotal
  <2>5. RecordChars(seq[Len(seq)]) <= MaxChars
    BY <2>1 DEF Bounded
  <2>6. 1 <= MaxCommands
    BY HistoryAssumption
  <2>7. Len(seq) - (Len(seq) - 1) <= MaxCommands
    BY <2>2, <2>6
  <2>8. TotalChars(SubSeq(seq, (Len(seq) - 1) + 1, Len(seq))) <= MaxChars
    BY <2>2, <2>3, <2>4, <2>5
  <2>9. QED BY <2>1, <2>7, <2>8
<1>3. \E n : First(n)
  <2> DEFINE T == {n \in 0..Len(seq) : Fits(n)}
  <2>1. T \in SUBSET Nat /\ T # {}
    <3>1. Len(seq) \in 0..Len(seq) /\ 0..Len(seq) \subseteq Nat
      OBVIOUS
    <3> HIDE DEF Fits
    <3>2. QED BY <1>1, <3>1
  <2> HIDE DEF Fits
  <2>2. PICK n \in T : \A m \in T : n <= m
    <3> HIDE DEF T
    <3>1. QED BY <2>1, SmallestNat
  <2>3. \A m \in 0..n - 1 : m \in 0..Len(seq) /\ ~ (n <= m)
    BY <2>1, <2>2
  <2>4. QED BY <2>2, <2>3
<1> DEFINE chosen == CHOOSE n \in 0..Len(seq) : Fits(n) /\ \A m \in 0..n - 1 : ~ Fits(m)
<1>4. TrimContext(seq) = SubSeq(seq, chosen + 1, Len(seq))
  BY DEF TrimContext
<1> HIDE DEF Fits
<1>5. First(chosen)
  BY <1>3
<1> HIDE DEF chosen
<1>6. seq # <<>> => chosen < Len(seq)
  <2> SUFFICES ASSUME seq # <<>>, ~ (chosen < Len(seq))
               PROVE  FALSE
    OBVIOUS
  <2>1. chosen \in 0..Len(seq)
    BY <1>5
  <2>2. Len(seq) \in Nat \ {0} /\ Len(seq) - 1 \in 0..chosen - 1
    BY <2>1
  <2>3. QED BY <1>2, <1>5, <2>2
<1>7. QED BY <1>4, <1>5, <1>6 DEF Fits

\* What a trimmed context has.
LEMMA Trimmed ==
  ASSUME NEW seq \in Seq(Record), Bounded(seq)
  PROVE  /\ TrimContext(seq) \in Seq(Record) /\ Bounded(TrimContext(seq))
         /\ Ids(TrimContext(seq)) \subseteq Ids(seq)
         /\ LastId(TrimContext(seq)) = LastId(seq)
         /\ Len(TrimContext(seq)) <= MaxCommands
         /\ TotalChars(TrimContext(seq)) <= MaxChars
<1>1. PICK n \in 0..Len(seq) :
        /\ TrimContext(seq) = SubSeq(seq, n + 1, Len(seq))
        /\ seq # <<>> => n < Len(seq)
        /\ Len(seq) - n <= MaxCommands
        /\ TotalChars(SubSeq(seq, n + 1, Len(seq))) <= MaxChars
  BY TrimIsSuffix
<1> DEFINE kept == TrimContext(seq)
<1>2. /\ kept \in Seq(Record) /\ Len(kept) = Len(seq) - n
      /\ \A i \in DOMAIN kept : n + i \in DOMAIN seq /\ kept[i] = seq[n + i]
  BY <1>1
<1> HIDE DEF kept
<1>3. Bounded(kept)
  BY <1>2 DEF Bounded
<1>4. Ids(kept) \subseteq Ids(seq)
  BY <1>2 DEF Ids
<1>5. LastId(kept) = LastId(seq)
  <2>1. CASE seq = <<>>
    BY <1>1, <1>2, <2>1 DEF LastId
  <2>2. CASE seq # <<>>
    <3>1. Len(seq) - n \in DOMAIN kept /\ kept # <<>>
      BY <1>1, <1>2, <2>2
    <3>2. kept[Len(kept)] = seq[Len(seq)]
      BY <1>2, <3>1
    <3>3. QED BY <2>2, <3>1, <3>2 DEF LastId, Last
  <2>3. QED BY <2>1, <2>2
<1>6. QED BY <1>1, <1>2, <1>3, <1>4, <1>5 DEF kept

LEMMA AppendedElements ==
  ASSUME NEW S, NEW seq \in Seq(S), NEW e \in S
  PROVE  /\ Append(seq, e) \in Seq(S) /\ Append(seq, e) # <<>>
         /\ Append(seq, e)[Len(Append(seq, e))] = e
         /\ \A i \in DOMAIN Append(seq, e) :
              \/ i \in DOMAIN seq /\ Append(seq, e)[i] = seq[i]
              \/ i = Len(seq) + 1 /\ Append(seq, e)[i] = e
<1>1. /\ Append(seq, e) \in Seq(S) /\ Len(Append(seq, e)) = Len(seq) + 1
      /\ Append(seq, e)[Len(seq) + 1] = e /\ Append(seq, e) # <<>>
      /\ \A i \in DOMAIN seq : Append(seq, e)[i] = seq[i]
  OBVIOUS
<1>2. ASSUME NEW i \in DOMAIN Append(seq, e)
      PROVE  i \in DOMAIN seq \/ i = Len(seq) + 1
  BY <1>1
<1>3. QED BY <1>1, <1>2

LEMMA Appended ==
  ASSUME NEW seq \in Seq(Record), Bounded(seq), NEW r \in Record, Bounded(<<r>>)
  PROVE  /\ Append(seq, r) \in Seq(Record) /\ Bounded(Append(seq, r))
         /\ Ids(Append(seq, r)) \subseteq Ids(seq) \cup {r.id}
         /\ LastId(Append(seq, r)) = r.id
<1> DEFINE longer == Append(seq, r)
<1>1. /\ longer \in Seq(Record) /\ longer # <<>> /\ longer[Len(longer)] = r
      /\ \A i \in DOMAIN longer : (i \in DOMAIN seq /\ longer[i] = seq[i]) \/ longer[i] = r
  BY AppendedElements
<1>2. 1 \in DOMAIN <<r>> /\ <<r>>[1] = r
  OBVIOUS
<1> HIDE DEF longer
<1>3. Bounded(longer)
  BY <1>1, <1>2 DEF Bounded
<1>4. Ids(longer) \subseteq Ids(seq) \cup {r.id}
  BY <1>1 DEF Ids
<1>5. LastId(longer) = r.id
  BY <1>1 DEF LastId, Last
<1>6. QED BY <1>1, <1>3, <1>4, <1>5 DEF longer

SameIds(a, b) == Len(a) = Len(b) /\ \A i \in DOMAIN b : a[i].id = b[i].id

\* A record that is replaced by one of the same command changes no identifier.
LEMMA Replaced ==
  ASSUME NEW seq \in Seq(Record), Bounded(seq), NEW k \in DOMAIN seq,
         NEW r \in Record, r.id = seq[k].id, Bounded(<<r>>)
  PROVE  /\ [seq EXCEPT ![k] = r] \in Seq(Record) /\ Bounded([seq EXCEPT ![k] = r])
         /\ Ids([seq EXCEPT ![k] = r]) \subseteq Ids(seq)
         /\ LastId([seq EXCEPT ![k] = r]) = LastId(seq)
         /\ SameIds([seq EXCEPT ![k] = r], seq)
<1> DEFINE changed == [seq EXCEPT ![k] = r]
<1>1. /\ changed \in Seq(Record) /\ Len(changed) = Len(seq) /\ DOMAIN changed = DOMAIN seq
      /\ changed # <<>> /\ seq # <<>> /\ Len(seq) \in DOMAIN seq
      /\ \A i \in DOMAIN seq : changed[i] = IF i = k THEN r ELSE seq[i]
  OBVIOUS
<1>2. 1 \in DOMAIN <<r>> /\ <<r>>[1] = r
  OBVIOUS
<1> HIDE DEF changed
<1>3. \A i \in DOMAIN seq : changed[i].id = seq[i].id
  BY <1>1
<1>4. Bounded(changed)
  BY <1>1, <1>2 DEF Bounded
<1>5. Ids(changed) \subseteq Ids(seq)
  BY <1>1, <1>3 DEF Ids
<1>6. LastId(changed) = LastId(seq)
  BY <1>1, <1>3 DEF LastId, Last
<1>7. SameIds(changed, seq)
  BY <1>1, <1>3 DEF SameIds
<1>8. QED BY <1>1, <1>4, <1>5, <1>6, <1>7 DEF changed

LEMMA BoundedIsBounded ==
  ASSUME NEW r \in Record, LengthOf(r.out) + LengthOf(r.err) <= MaxOutput, r.tail \in {None, r.id}
  PROVE  Bounded(<<BoundRecord(r)>>)
<1>1. DOMAIN <<BoundRecord(r)>> = {1} /\ <<BoundRecord(r)>>[1] = BoundRecord(r)
  OBVIOUS
<1>2. QED BY <1>1, RecordIsBounded DEF Bounded

-----------------------------------------------------------------------------
(* The frames in the socket                                                *)

\* A frame that is taken leaves the others; a finish that is taken was the only one.
LEMMA Taken ==
  ASSUME Shapes, FinishesOnce, inbox # <<>>, inbox' = Tail(inbox)
  PROVE  /\ Head(inbox) \in Started \cup Finished /\ Head(inbox).id \in drawn
         /\ inbox' \in Seq(Started \cup Finished) /\ Finishing' \subseteq Finishing
         /\ Head(inbox).kind = "finished" =>
              Head(inbox).id \in Finishing /\ Head(inbox).id \notin Finishing'
         /\ \A i, j \in DOMAIN inbox' :
              inbox'[i].kind = "finished" /\ inbox'[j].kind = "finished" /\ inbox'[i].id = inbox'[j].id
              => i = j
         /\ \A i \in DOMAIN inbox' : inbox'[i].id \in drawn
<1>1. /\ inbox' \in Seq(Started \cup Finished) /\ Len(inbox') = Len(inbox) - 1
      /\ 1 \in DOMAIN inbox /\ Head(inbox) = inbox[1] /\ inbox[1] \in Started \cup Finished
  BY DEF Shapes
<1>2. \A i \in DOMAIN inbox' : i \in Nat /\ i + 1 \in DOMAIN inbox /\ inbox'[i] = inbox[i + 1] /\ i + 1 # 1
  BY <1>1 DEF Shapes
<1>3. Finishing' \subseteq Finishing
  BY <1>2 DEF Finishing
<1>4. ASSUME Head(inbox).kind = "finished"
      PROVE  Head(inbox).id \in Finishing /\ Head(inbox).id \notin Finishing'
  BY <1>1, <1>2, <1>4 DEF Finishing, FinishesOnce
<1>5. ASSUME NEW i \in DOMAIN inbox', NEW j \in DOMAIN inbox',
             inbox'[i].kind = "finished", inbox'[j].kind = "finished", inbox'[i].id = inbox'[j].id
      PROVE  i = j
  <2>1. i + 1 = j + 1
    BY <1>2, <1>5 DEF FinishesOnce
  <2>2. QED BY <1>2, <2>1
<1>6. \A i \in DOMAIN inbox' : inbox'[i].id \in drawn
  BY <1>2 DEF FinishesOnce
<1>7. Head(inbox).id \in drawn
  BY <1>1 DEF FinishesOnce
<1>8. QED BY <1>1, <1>3, <1>4, <1>5, <1>6, <1>7

\* A frame that is written comes behind the others.
LEMMA Written ==
  ASSUME Shapes, FinishesOnce, NEW frame \in Started \cup Finished, frame.id \in drawn',
         drawn \subseteq drawn', frame.kind = "finished" => frame.id \notin Finishing,
         Deliver(frame)
  PROVE  /\ inbox' \in Seq(Started \cup Finished)
         /\ Finishing' \subseteq
              Finishing \cup (IF frame.kind = "finished" THEN {frame.id} ELSE {})
         /\ \A i, j \in DOMAIN inbox' :
              inbox'[i].kind = "finished" /\ inbox'[j].kind = "finished" /\ inbox'[i].id = inbox'[j].id
              => i = j
         /\ \A i \in DOMAIN inbox' : inbox'[i].id \in drawn'
<1>1. CASE UNCHANGED inbox
  BY <1>1 DEF Shapes, FinishesOnce, Finishing
<1>2. CASE inbox' = Append(inbox, frame)
  <2>1. /\ inbox' \in Seq(Started \cup Finished)
        /\ \A i \in DOMAIN inbox' : \/ i \in DOMAIN inbox /\ inbox'[i] = inbox[i]
                                    \/ i = Len(inbox) + 1 /\ inbox'[i] = frame
    <3> DEFINE Frames == Started \cup Finished
               longer == Append(inbox, frame)
    <3>1. inbox \in Seq(Frames) /\ frame \in Frames
      BY DEF Shapes
    <3> HIDE DEF Frames
    <3>2. /\ longer \in Seq(Frames)
          /\ \A i \in DOMAIN longer : \/ i \in DOMAIN inbox /\ longer[i] = inbox[i]
                                      \/ i = Len(inbox) + 1 /\ longer[i] = frame
      BY <3>1, AppendedElements
    <3> HIDE DEF longer
    <3>3. inbox' = longer
      BY <1>2 DEF longer
    <3>4. QED BY <3>2, <3>3 DEF Frames
  <2>2. \A i \in DOMAIN inbox : inbox[i].kind = "finished" => inbox[i].id \in Finishing
    BY DEF Finishing
  <2>3. Finishing' \subseteq Finishing \cup (IF frame.kind = "finished" THEN {frame.id} ELSE {})
    BY <2>1 DEF Finishing
  <2>4. ASSUME NEW i \in DOMAIN inbox', NEW j \in DOMAIN inbox',
               inbox'[i].kind = "finished", inbox'[j].kind = "finished", inbox'[i].id = inbox'[j].id
        PROVE  i = j
    BY <2>1, <2>2, <2>4 DEF FinishesOnce
  <2>5. \A i \in DOMAIN inbox' : inbox'[i].id \in drawn'
    BY <2>1 DEF FinishesOnce
  <2>6. QED BY <2>1, <2>3, <2>4, <2>5
<1>3. QED BY <1>1, <1>2 DEF Deliver

-----------------------------------------------------------------------------
(* The invariant: initially and step by step                               *)

LEMMA InitHolds == Init => IInv
<1> SUFFICES ASSUME Init PROVE IInv
  OBVIOUS
<1>1. Shapes
  <2>1. \A S : <<>> \in Seq(S)
    OBVIOUS
  <2>2. QED BY <2>1 DEF Init, Shapes
<1>2. Len(<<>>) = 0 /\ DOMAIN <<>> = {} /\ 0 <= MaxCommands /\ 0 <= MaxChars
  BY HistoryAssumption
<1>3. RetainedInv
  BY <1>2, EmptyTotal DEF Init, RetainedInv, Bounded, FinishesOnce, MarkersHold, LatestIsKept,
     WithinLimits, SuccessIsItsOwn
<1>4. QED BY <1>1, <1>3 DEF IInv

\* A step that records nothing: what is recorded stays in order.
LEMMA NothingRecorded ==
  ASSUME RetainedInv, UNCHANGED <<records, success, checkpoint, since>>
  PROVE  /\ Bounded(records)' /\ LatestIsKept' /\ WithinLimits' /\ SuccessIsItsOwn'
         /\ Ids(records') = Ids(records)
BY DEF RetainedInv, Bounded, LatestIsKept, WithinLimits, SuccessIsItsOwn, Ids

LEMMA PreexecKeeps ==
  ASSUME IInv, Preexec
  PROVE  IInv'
<1>1. PICK c \in Commands \ drawn :
        /\ running = None /\ running' = c /\ drawn' = drawn \cup {c}
        /\ Deliver([kind |-> "started", id |-> c])
  BY DEF Preexec
<1>2. /\ asked' = FALSE
      /\ UNCHANGED <<started, discarded, records, success, checkpoint, probes, jobs, since, dropped>>
  BY DEF Preexec, history, ghosts
<1>3. Shapes /\ FinishesOnce
  BY DEF IInv, RetainedInv
<1> DEFINE frame == [kind |-> "started", id |-> c]
<1>4. frame \in Started \cup Finished /\ frame.kind # "finished" /\ frame.id = c
  BY DEF Started
<1>5. /\ inbox' \in Seq(Started \cup Finished) /\ Finishing' \subseteq Finishing
      /\ \A i, j \in DOMAIN inbox' :
           inbox'[i].kind = "finished" /\ inbox'[j].kind = "finished" /\ inbox'[i].id = inbox'[j].id
           => i = j
      /\ \A i \in DOMAIN inbox' : inbox'[i].id \in drawn'
  <2> HIDE DEF frame
  <2>1. Deliver(frame)
    BY <1>1 DEF frame
  <2>2. QED BY <1>1, <1>3, <1>4, <2>1, Written
<1>6. Shapes'
  BY <1>1, <1>2, <1>3, <1>5 DEF Shapes
<1>7. \A x \in Finishing : x \in drawn
  BY <1>3 DEF Finishing, FinishesOnce
<1>8. FinishesOnce'
  BY <1>1, <1>2, <1>3, <1>5, <1>7 DEF FinishesOnce
<1>9. MarkersHold'
  BY <1>1, <1>2, <1>5 DEF IInv, RetainedInv, MarkersHold, Ids
<1>10. QED BY <1>2, <1>6, <1>8, <1>9, NothingRecorded DEF IInv, RetainedInv

LEMMA PrecmdKeeps ==
  ASSUME IInv, Precmd
  PROVE  IInv'
<1>1. PICK code \in {0, 1}, f \in Finishes :
        Deliver([kind |-> "finished", id |-> running, code |-> code, frame |-> f])
  BY DEF Precmd
<1>2. /\ running # None /\ running' = None /\ asked' = FALSE
      /\ UNCHANGED <<drawn, started, discarded, records, success, checkpoint, probes, jobs, since,
                     dropped>>
  BY DEF Precmd, history, ghosts
<1>3. Shapes /\ FinishesOnce /\ running \in drawn /\ running \notin Finishing /\ running \in Commands
  BY <1>2 DEF IInv, RetainedInv, FinishesOnce, Shapes
<1> DEFINE frame == [kind |-> "finished", id |-> running, code |-> code, frame |-> f]
<1>4. frame \in Started \cup Finished /\ frame.kind = "finished" /\ frame.id = running
  BY <1>3 DEF Finished
<1>5. /\ inbox' \in Seq(Started \cup Finished) /\ Finishing' \subseteq Finishing \cup {running}
      /\ \A i, j \in DOMAIN inbox' :
           inbox'[i].kind = "finished" /\ inbox'[j].kind = "finished" /\ inbox'[i].id = inbox'[j].id
           => i = j
      /\ \A i \in DOMAIN inbox' : inbox'[i].id \in drawn'
  <2> HIDE DEF frame
  <2>1. Deliver(frame)
    BY <1>1 DEF frame
  <2>2. QED BY <1>2, <1>3, <1>4, <2>1, Written
<1>6. Shapes'
  BY <1>2, <1>3, <1>5 DEF Shapes
<1>7. FinishesOnce'
  BY <1>2, <1>3, <1>5 DEF FinishesOnce
<1>8. MarkersHold'
  BY <1>2, <1>5, HistoryAssumption DEF IInv, RetainedInv, MarkersHold, Ids, Shapes
<1>9. QED BY <1>2, <1>6, <1>7, <1>8, NothingRecorded DEF IInv, RetainedInv

LEMMA StartKeeps ==
  ASSUME IInv, StartCommand
  PROVE  IInv'
<1>1. /\ inbox # <<>> /\ inbox' = Tail(inbox) /\ started' = started \cup {Head(inbox).id}
      /\ UNCHANGED <<running, asked, drawn, discarded, records, success, checkpoint, probes, jobs,
                     since, dropped>>
  BY DEF StartCommand, prompt, ghosts
<1>2. Shapes /\ FinishesOnce
  BY DEF IInv, RetainedInv
<1>3. /\ Head(inbox).id \in drawn /\ inbox' \in Seq(Started \cup Finished)
      /\ Finishing' \subseteq Finishing
      /\ \A i, j \in DOMAIN inbox' :
           inbox'[i].kind = "finished" /\ inbox'[j].kind = "finished" /\ inbox'[i].id = inbox'[j].id
           => i = j
      /\ \A i \in DOMAIN inbox' : inbox'[i].id \in drawn
  BY <1>1, <1>2, Taken
<1>4. Shapes'
  BY <1>1, <1>2, <1>3 DEF Shapes
<1>5. FinishesOnce'
  BY <1>1, <1>2, <1>3 DEF FinishesOnce
<1>6. MarkersHold'
  BY <1>1, <1>3 DEF IInv, RetainedInv, MarkersHold, Ids
<1>7. QED BY <1>1, <1>4, <1>5, <1>6, NothingRecorded DEF IInv, RetainedInv

\* The marker goes with the only finish frame of its command.
LEMMA DiscardKeeps ==
  ASSUME IInv, FinishDiscarded
  PROVE  IInv'
<1>1. /\ inbox # <<>> /\ inbox' = Tail(inbox) /\ Head(inbox).kind = "finished"
      /\ discarded' = discarded \ {Head(inbox).id}
      /\ UNCHANGED <<running, asked, drawn, started, records, success, checkpoint, probes, jobs,
                     since, dropped>>
  BY DEF FinishDiscarded, prompt, ghosts
<1>2. Shapes /\ FinishesOnce
  BY DEF IInv, RetainedInv
<1>3. /\ inbox' \in Seq(Started \cup Finished) /\ Finishing' \subseteq Finishing
      /\ Head(inbox).id \in Finishing \ Finishing' /\ Head(inbox).id \in drawn
      /\ \A i, j \in DOMAIN inbox' :
           inbox'[i].kind = "finished" /\ inbox'[j].kind = "finished" /\ inbox'[i].id = inbox'[j].id
           => i = j
      /\ \A i \in DOMAIN inbox' : inbox'[i].id \in drawn
  BY <1>1, <1>2, Taken
<1>4. Shapes'
  BY <1>1, <1>2, <1>3 DEF Shapes
<1>5. FinishesOnce'
  BY <1>1, <1>2, <1>3 DEF FinishesOnce
<1>6. Head(inbox).id # running
  BY <1>2, <1>3, HistoryAssumption DEF FinishesOnce, Shapes
<1>7. MarkersHold'
  BY <1>1, <1>3, <1>6 DEF IInv, RetainedInv, MarkersHold, Ids
<1>8. QED BY <1>1, <1>4, <1>5, <1>7, NothingRecorded DEF IInv, RetainedInv

LEMMA UnknownKeeps ==
  ASSUME IInv, FinishUnknown
  PROVE  IInv'
<1>1. /\ inbox # <<>> /\ inbox' = Tail(inbox)
      /\ UNCHANGED <<running, asked, drawn, started, discarded, records, success, checkpoint,
                     probes, jobs, since, dropped>>
  BY DEF FinishUnknown, prompt, history, ghosts
<1>2. Shapes /\ FinishesOnce
  BY DEF IInv, RetainedInv
<1>3. /\ inbox' \in Seq(Started \cup Finished) /\ Finishing' \subseteq Finishing
      /\ \A i, j \in DOMAIN inbox' :
           inbox'[i].kind = "finished" /\ inbox'[j].kind = "finished" /\ inbox'[i].id = inbox'[j].id
           => i = j
      /\ \A i \in DOMAIN inbox' : inbox'[i].id \in drawn
  BY <1>1, <1>2, Taken
<1>4. Shapes'
  BY <1>1, <1>2, <1>3 DEF Shapes
<1>5. FinishesOnce'
  BY <1>1, <1>2, <1>3 DEF FinishesOnce
<1>6. MarkersHold'
  BY <1>1, <1>3 DEF IInv, RetainedInv, MarkersHold, Ids
<1>7. QED BY <1>1, <1>4, <1>5, <1>6, NothingRecorded DEF IInv, RetainedInv

\* What a finished command's record holds is within the limit of one command.
LEMMA RecordOfFinish ==
  ASSUME NEW c \in Commands, NEW f \in Finishes
  PROVE  LET err == TruncateTail(f.err, MaxOutput)
             out == TruncateTail(f.out, StdoutBudget(err))
             r == [id |-> c, cmd |-> Lesser(CommandChars, MaxOutput), out |-> out, err |-> err,
                   tail |-> None]
         IN /\ BoundRecord(r) \in Record /\ BoundRecord(r).id = c
            /\ Bounded(<<BoundRecord(r)>>)
<1> DEFINE err == TruncateTail(f.err, MaxOutput)
           out == TruncateTail(f.out, StdoutBudget(err))
           r == [id |-> c, cmd |-> Lesser(CommandChars, MaxOutput), out |-> out, err |-> err,
                 tail |-> None]
<1>1. f.err \in Texts /\ f.out \in Texts /\ MaxOutput \in Nat /\ CommandChars \in Nat
  BY HistoryAssumption DEF Texts
<1>2. err \in Texts /\ LengthOf(err) \in Nat /\ LengthOf(err) <= MaxOutput
  BY <1>1, TextLengths
<1>3. StdoutBudget(err) \in Nat /\ StdoutBudget(err) + LengthOf(err) = MaxOutput
  <2> HIDE DEF err
  <2>1. QED BY <1>1, <1>2, Lengths DEF StdoutBudget
<1>4. out \in Texts /\ LengthOf(out) \in Nat /\ LengthOf(out) <= StdoutBudget(err)
  <2> HIDE DEF err
  <2>1. QED BY <1>1, <1>3, TextLengths
<1>5. Lesser(CommandChars, MaxOutput) \in Nat
  BY <1>1, Lengths
<1> HIDE DEF err, out
<1>6. r \in Record /\ r.id = c /\ r.tail \in {None, r.id}
  BY <1>2, <1>4, <1>5 DEF Record
<1>7. LengthOf(r.out) + LengthOf(r.err) <= MaxOutput
  BY <1>1, <1>2, <1>3, <1>4
<1> HIDE DEF r
<1>8. BoundRecord(r) \in Record /\ BoundRecord(r).id = c /\ Bounded(<<BoundRecord(r)>>)
  BY <1>6, <1>7, RecordIsBounded, BoundedIsBounded
<1>9. QED BY <1>8 DEF r, out, err

\* What a finish adds to the context before it is trimmed.
LEMMA FinishAppends ==
  ASSUME IInv, FinishCommand
  PROVE  \E r \in Record : /\ r.id = Head(inbox).id /\ Bounded(<<r>>)
                           /\ records' = TrimContext(Append(records, r))
<1> DEFINE c == Head(inbox).id
           f == Head(inbox).frame
           err == TruncateTail(f.err, MaxOutput)
           out == TruncateTail(f.out, StdoutBudget(err))
           r == BoundRecord([id |-> c, cmd |-> Lesser(CommandChars, MaxOutput), out |-> out,
                             err |-> err, tail |-> None])
<1>1. /\ inbox # <<>> /\ inbox' = Tail(inbox) /\ Head(inbox).kind = "finished"
      /\ records' = TrimContext(Append(records, r))
  BY DEF FinishCommand
<1>2. Head(inbox) \in Started \cup Finished
  BY <1>1, Taken DEF IInv, RetainedInv
<1>3. c \in Commands /\ f \in Finishes
  BY <1>1, <1>2 DEF Started, Finished
<1> HIDE DEF c, f
<1>4. r \in Record /\ r.id = c /\ Bounded(<<r>>)
  BY <1>3, RecordOfFinish
<1> HIDE DEF r
<1>5. QED BY <1>1, <1>4 DEF c

\* The finish of a command that is not marked: its record comes last.
LEMMA FinishKeeps ==
  ASSUME IInv, FinishCommand
  PROVE  IInv'
<1> DEFINE c == Head(inbox).id
<1>1. /\ inbox # <<>> /\ inbox' = Tail(inbox) /\ Head(inbox).kind = "finished"
      /\ c \notin discarded /\ started' = started \ {c}
      /\ since' = IF checkpoint = None THEN since ELSE Append(since, c)
      /\ UNCHANGED <<running, asked, drawn, discarded, checkpoint, dropped>>
  BY DEF FinishCommand, prompt
<1>2. \/ success' = [id |-> c, git |-> None] /\ probes' = probes \cup {c} /\ jobs' = jobs
      \/ \E stage \in {"capture", "probe"} :
           /\ jobs' = jobs \cup {[id |-> c, stale |-> FALSE, stage |-> stage]}
           /\ success' = success /\ probes' = probes
  BY DEF FinishCommand
<1>3. Shapes /\ FinishesOnce
  BY DEF IInv, RetainedInv
<1>4. /\ Head(inbox) \in Started \cup Finished
      /\ inbox' \in Seq(Started \cup Finished) /\ Finishing' \subseteq Finishing
      /\ c \in Finishing \ Finishing' /\ c \in drawn
      /\ \A i, j \in DOMAIN inbox' :
           inbox'[i].kind = "finished" /\ inbox'[j].kind = "finished" /\ inbox'[i].id = inbox'[j].id
           => i = j
      /\ \A i \in DOMAIN inbox' : inbox'[i].id \in drawn
  BY <1>1, <1>3, Taken
<1>5. c \in Commands
  BY <1>1, <1>4 DEF Started, Finished
<1>6. PICK r \in Record : r.id = c /\ Bounded(<<r>>) /\ records' = TrimContext(Append(records, r))
  BY FinishAppends
<1> HIDE DEF c
<1>7. records \in Seq(Record) /\ Bounded(records)
  BY DEF IInv, RetainedInv, Shapes
<1> DEFINE longer == Append(records, r)
<1>8. /\ longer \in Seq(Record) /\ Bounded(longer) /\ Ids(longer) \subseteq Ids(records) \cup {c}
      /\ LastId(longer) = c
  BY <1>6, <1>7, Appended
<1> HIDE DEF longer
<1>9. /\ records' \in Seq(Record) /\ Bounded(records)' /\ WithinLimits'
      /\ Ids(records') \subseteq Ids(records) \cup {c} /\ LastId(records') = c
  <2>1. records' = TrimContext(longer)
    BY <1>6 DEF longer
  <2>2. QED BY <1>8, <2>1, Trimmed DEF WithinLimits, Bounded
<1>10. since' \in Seq(Commands) /\ LatestIsKept'
  <2>1. since \in Seq(Commands)
    BY <1>3 DEF Shapes
  <2>2. CASE checkpoint = None
    BY <1>1, <2>1, <2>2 DEF IInv, RetainedInv, LatestIsKept
  <2>3. CASE checkpoint # None
    <3>1. since' = Append(since, c)
      BY <1>1, <2>3
    <3>2. since' \in Seq(Commands) /\ Last(since') = c
      BY <1>5, <2>1, <3>1 DEF Last
    <3>3. QED BY <1>1, <1>9, <2>3, <3>2 DEF LatestIsKept
  <2>4. QED BY <2>2, <2>3
<1>11. success' \in [id : Commands, git : Commands \cup {None}] \cup {None} /\ SuccessIsItsOwn'
  BY <1>2, <1>3, <1>5 DEF Shapes, IInv, RetainedInv, SuccessIsItsOwn
<1>12. probes' \subseteq Commands /\ jobs' \subseteq Job
  <2>1. probes \subseteq Commands /\ jobs \subseteq Job
    BY <1>3 DEF Shapes
  <2>2. \A stage \in {"capture", "probe"} : [id |-> c, stale |-> FALSE, stage |-> stage] \in Job
    BY <1>5 DEF Job
  <2>3. QED BY <1>2, <1>5, <2>1, <2>2
<1>13. Shapes'
  BY <1>1, <1>3, <1>4, <1>9, <1>10, <1>11, <1>12 DEF Shapes
<1>14. FinishesOnce'
  BY <1>1, <1>3, <1>4 DEF FinishesOnce
<1>15. MarkersHold'
  <2>1. MarkersHold
    BY DEF IInv, RetainedInv
  <2>2. c \notin dropped
    BY <1>1, <1>4, <2>1 DEF MarkersHold, c
  <2>3. QED BY <1>1, <1>4, <1>9, <2>1, <2>2 DEF MarkersHold
<1>16. QED BY <1>9, <1>10, <1>11, <1>13, <1>14, <1>15 DEF IInv, RetainedInv

\* A step that takes and writes no frame and erases nothing.
LEMMA FramesStay ==
  ASSUME RetainedInv, Ids(records') \subseteq Ids(records),
         UNCHANGED <<running, drawn, inbox, started, discarded, dropped>>
  PROVE  FinishesOnce' /\ MarkersHold'
<1>1. FinishesOnce'
  BY DEF RetainedInv, FinishesOnce, Finishing
<1>2. Finishing' = Finishing
  BY DEF Finishing
<1>3. QED BY <1>1, <1>2 DEF RetainedInv, MarkersHold

LEMMA ProbeKeeps ==
  ASSUME IInv, NEW c \in Commands, RecordSuccessGit(c)
  PROVE  IInv'
<1>1. /\ probes' = probes \ {c}
      /\ success' = IF Describes(c) THEN [success EXCEPT !.git = c] ELSE success
      /\ UNCHANGED <<running, asked, drawn, inbox, started, discarded, records, checkpoint, jobs,
                     since, dropped>>
  BY DEF RecordSuccessGit, prompt, ghosts
<1>2. success' \in [id : Commands, git : Commands \cup {None}] \cup {None} /\ SuccessIsItsOwn'
  BY <1>1 DEF IInv, Shapes, RetainedInv, SuccessIsItsOwn, Describes
<1>3. Shapes'
  BY <1>1, <1>2 DEF IInv, Shapes
<1>4. FinishesOnce' /\ MarkersHold'
  BY <1>1, FramesStay DEF IInv
<1>5. Bounded(records)' /\ LatestIsKept' /\ WithinLimits'
  BY <1>1 DEF IInv, RetainedInv, Bounded, LatestIsKept, WithinLimits
<1>6. QED BY <1>2, <1>3, <1>4, <1>5 DEF IInv, RetainedInv

\* A screen tail changes no identifier; the context is trimmed again.
LEMMA TailsOwn ==
  ASSUME IInv, NEW j \in jobs, NEW tail \in Tails, RecordScreenTail(j, tail)
  PROVE  \/ records' = records
         \/ \E changed \in Seq(Record) :
              /\ Bounded(changed) /\ SameIds(changed, records)
              /\ Ids(changed) \subseteq Ids(records) /\ LastId(changed) = LastId(records)
              /\ records' = TrimContext(changed)
<1>1. \/ records' = records
      \/ \E k \in DOMAIN records :
           /\ records[k].id = j.id /\ tail # None
           /\ ~ (LengthOf(records[k].out) + LengthOf(records[k].err) > 0)
           /\ records' = Attach(k, j.id, tail)
  <2> DEFINE at == {i \in DOMAIN records : records[i].id = j.id}
             newest == CHOOSE k \in at : \A n \in at : n <= k
  <2>1. records' = IF tail = None \/ at = {} THEN records
                   ELSE IF LengthOf(records[newest].out) + LengthOf(records[newest].err) > 0
                        THEN records ELSE Attach(newest, j.id, tail)
    BY DEF RecordScreenTail
  <2>2. at # {} => newest \in at
    <3> SUFFICES ASSUME at # {} PROVE \E k \in at : \A n \in at : n <= k
      OBVIOUS
    <3>1. at \subseteq 1..Len(records) /\ Len(records) \in Nat
      BY DEF IInv, Shapes
    <3> DEFINE distances == {d \in 0..Len(records) : Len(records) - d \in at}
    <3>2. distances \in SUBSET Nat /\ distances # {}
      <4>1. PICK k \in at : TRUE
        OBVIOUS
      <4> HIDE DEF at
      <4>2. Len(records) - k \in distances
        BY <3>1, <4>1
      <4>3. QED BY <4>2
    <3> HIDE DEF at
    <3>3. PICK d \in distances : \A e \in distances : d <= e
      <4> HIDE DEF distances
      <4>1. QED BY <3>2, SmallestNat
    <3>4. ASSUME NEW n \in at
          PROVE  n <= Len(records) - d
      <4>1. Len(records) - n \in distances
        BY <3>1, <3>4
      <4>2. d <= Len(records) - n /\ d \in Nat /\ n \in Nat
        BY <3>1, <3>2, <3>3, <4>1
      <4>3. QED BY <3>1, <4>2
    <3>5. QED BY <3>3, <3>4
  <2> HIDE DEF newest
  <2>3. QED BY <2>1, <2>2
<1>2. records \in Seq(Record) /\ Bounded(records) /\ j \in Job
  BY DEF IInv, RetainedInv, Shapes
<1>3. ASSUME NEW k \in DOMAIN records,
             records[k].id = j.id, tail # None,
             ~ (LengthOf(records[k].out) + LengthOf(records[k].err) > 0),
             records' = Attach(k, j.id, tail)
      PROVE  \E changed \in Seq(Record) :
               /\ Bounded(changed) /\ SameIds(changed, records)
               /\ Ids(changed) \subseteq Ids(records) /\ LastId(changed) = LastId(records)
               /\ records' = TrimContext(changed)
  <2> DEFINE own == [records[k] EXCEPT !.err = TruncateTail(tail, MaxOutput), !.tail = j.id]
             r == BoundRecord(own)
  <2>1. records[k] \in Record /\ MaxOutput \in Nat /\ tail \in Texts /\ records[k].out \in Texts
    <3>1. records[k] \in Record
      BY <1>2
    <3>2. records[k].out \in Texts
      BY <3>1 DEF Record
    <3>3. QED BY <3>1, <3>2, HistoryAssumption DEF Texts
  <2>2. TruncateTail(tail, MaxOutput) \in Texts /\ LengthOf(TruncateTail(tail, MaxOutput)) <= MaxOutput
    BY <2>1, TextLengths
  <2>3. own \in Record /\ own.id = j.id /\ own.tail = j.id /\ own.out = records[k].out
        /\ own.err = TruncateTail(tail, MaxOutput)
    BY <1>2, <1>3, <2>1, <2>2 DEF Record, Job
  <2>4. LengthOf(own.out) + LengthOf(own.err) <= MaxOutput
    <3>1. LengthOf(records[k].out) \in Nat /\ LengthOf(records[k].err) \in Nat
          /\ LengthOf(own.err) \in Nat
      BY <2>1, <2>3, TextLengths DEF Record
    <3>2. LengthOf(records[k].out) = 0
      BY <1>3, <3>1
    <3>3. QED BY <2>1, <2>2, <2>3, <3>1, <3>2
  <2> HIDE DEF own
  <2>5. r \in Record /\ r.id = records[k].id /\ Bounded(<<r>>)
    BY <1>3, <2>3, <2>4, RecordIsBounded, BoundedIsBounded
  <2>6. records' = TrimContext([records EXCEPT ![k] = r])
    BY <1>3 DEF Attach, WithTail, own
  <2> HIDE DEF r
  <2> DEFINE changed == [records EXCEPT ![k] = r]
  <2>7. /\ changed \in Seq(Record) /\ Bounded(changed) /\ Ids(changed) \subseteq Ids(records)
        /\ LastId(changed) = LastId(records) /\ SameIds(changed, records)
    BY <1>2, <2>5, Replaced
  <2> HIDE DEF changed
  <2>8. QED BY <2>6, <2>7 DEF changed
<1>4. QED BY <1>1, <1>3

LEMMA TailKeeps ==
  ASSUME IInv, NEW j \in jobs, NEW tail \in Tails, RecordScreenTail(j, tail)
  PROVE  IInv'
<1>1. /\ jobs' = (jobs \ {j}) \cup {[j EXCEPT !.stage = "probe"]}
      /\ UNCHANGED <<running, asked, drawn, inbox, started, discarded, success, checkpoint, probes,
                     since, dropped>>
  BY DEF RecordScreenTail, prompt, ghosts
<1>2. records \in Seq(Record) /\ Bounded(records) /\ LatestIsKept /\ WithinLimits
  BY DEF IInv, RetainedInv, Shapes
<1>4. /\ records' \in Seq(Record) /\ Bounded(records)' /\ WithinLimits'
      /\ Ids(records') \subseteq Ids(records) /\ LastId(records') = LastId(records)
  <2>1. CASE records' = records
    BY <1>2, <2>1 DEF Bounded, WithinLimits
  <2>2. ASSUME NEW changed \in Seq(Record), Bounded(changed), records' = TrimContext(changed),
               Ids(changed) \subseteq Ids(records), LastId(changed) = LastId(records)
        PROVE  /\ records' \in Seq(Record) /\ Bounded(records)' /\ WithinLimits'
               /\ Ids(records') \subseteq Ids(records) /\ LastId(records') = LastId(records)
    <3>1. /\ TrimContext(changed) \in Seq(Record) /\ Bounded(TrimContext(changed))
          /\ Ids(TrimContext(changed)) \subseteq Ids(changed)
          /\ LastId(TrimContext(changed)) = LastId(changed)
          /\ Len(TrimContext(changed)) <= MaxCommands /\ TotalChars(TrimContext(changed)) <= MaxChars
      BY <2>2, Trimmed
    <3>2. Bounded(records)'
      BY <2>2, <3>1 DEF Bounded
    <3>3. QED BY <2>2, <3>1, <3>2 DEF WithinLimits
  <2>3. QED BY <2>1, <2>2, TailsOwn
<1>5. jobs' \subseteq Job
  BY <1>1 DEF IInv, Shapes, Job
<1>6. Shapes'
  BY <1>1, <1>4, <1>5 DEF IInv, Shapes
<1>7. FinishesOnce' /\ MarkersHold'
  BY <1>1, <1>4, FramesStay DEF IInv
<1>8. LatestIsKept'
  BY <1>1, <1>2, <1>4 DEF LatestIsKept
<1>9. SuccessIsItsOwn'
  BY <1>1 DEF IInv, RetainedInv, SuccessIsItsOwn
<1>10. QED BY <1>4, <1>6, <1>7, <1>8, <1>9 DEF IInv, RetainedInv

LEMMA AnalyzeKeeps ==
  ASSUME IInv, NEW j \in jobs, Analyze(j)
  PROVE  IInv'
<1>1. /\ jobs' = jobs \ {j}
      /\ UNCHANGED <<running, asked, drawn, inbox, started, discarded, records, success, checkpoint,
                     probes, since, dropped>>
  BY DEF Analyze, prompt, history, marks
<1>2. Shapes'
  BY <1>1 DEF IInv, Shapes
<1>3. FinishesOnce' /\ MarkersHold'
  <2>1. Ids(records') \subseteq Ids(records)
    BY <1>1
  <2>2. QED BY <1>1, <2>1, FramesStay DEF IInv
<1>4. QED BY <1>1, <1>2, <1>3, NothingRecorded DEF IInv, RetainedInv

LEMMA Boundaries ==
  ASSUME Shapes
  PROVE  SoleStarted \in Identifier /\ LastId(records) \in Identifier
<1>1. SoleStarted \in Identifier
  <2>1. CASE Cardinality(started) = 1
    <3>1. started # {}
      BY <2>1, FS_EmptySet
    <3>2. QED BY <3>1 DEF SoleStarted, Identifier, Shapes
  <2>2. QED BY <2>1 DEF SoleStarted, Identifier
<1>2. LastId(records) \in Identifier
  <2>1. records # <<>> => Last(records) \in Record
    BY DEF Shapes, Last
  <2>2. QED BY <2>1 DEF LastId, Identifier, Record
<1>3. QED BY <1>1, <1>2

LEMMA CheckpointKeeps ==
  ASSUME IInv, CheckpointRequest
  PROVE  IInv'
<1>1. /\ asked' \in BOOLEAN
      /\ UNCHANGED <<running, drawn, inbox, started, discarded, records, success, probes, jobs,
                     dropped>>
  BY DEF CheckpointRequest, StartCheckpoint, ResolveCheckpoint, ClearCheckpoint, Asks, IInv, Shapes
<1>2. /\ checkpoint' \in Checkpoint \cup {None} /\ since' \in Seq(Commands)
      /\ since' = <<>> \/ (since' = since /\ checkpoint' # None)
  <2>1. CASE StartCheckpoint
    <3>1. SoleStarted \in Identifier /\ LastId(records) \in Identifier
      BY Boundaries DEF IInv
    <3>2. checkpoint' \in Checkpoint
      BY <2>1, <3>1 DEF StartCheckpoint, Checkpoint, Identifier
    <3>3. since' = <<>> /\ <<>> \in Seq(Commands)
      BY <2>1 DEF StartCheckpoint
    <3>4. QED BY <3>2, <3>3
  <2>2. CASE ResolveCheckpoint
    <3>1. SoleStarted \in Identifier /\ LastId(records) \in Identifier
      BY Boundaries DEF IInv
    <3>2. checkpoint \in Checkpoint
      BY <2>2 DEF ResolveCheckpoint, IInv, Shapes
    <3>3. checkpoint' \in Checkpoint
      BY <2>2, <3>1, <3>2 DEF ResolveCheckpoint, Checkpoint
    <3>4. QED BY <2>2, <3>3, HistoryAssumption DEF ResolveCheckpoint, IInv, Shapes
  <2>3. CASE ClearCheckpoint
    <3>1. since' = <<>> /\ <<>> \in Seq(Commands) /\ checkpoint' = None
      BY <2>3 DEF ClearCheckpoint
    <3>2. QED BY <3>1
  <2>4. QED BY <2>1, <2>2, <2>3 DEF CheckpointRequest
<1>3. Shapes'
  BY <1>1, <1>2 DEF IInv, Shapes
<1>4. FinishesOnce' /\ MarkersHold'
  <2>1. Ids(records') \subseteq Ids(records)
    BY <1>1
  <2>2. QED BY <1>1, <2>1, FramesStay DEF IInv
<1>5. LatestIsKept'
  BY <1>1, <1>2 DEF IInv, RetainedInv, LatestIsKept
<1>6. Bounded(records)' /\ WithinLimits' /\ SuccessIsItsOwn'
  BY <1>1 DEF IInv, RetainedInv, Bounded, WithinLimits, SuccessIsItsOwn
<1>7. QED BY <1>3, <1>4, <1>5, <1>6 DEF IInv, RetainedInv

\* The erasure marks what is in flight before it empties the rest.
LEMMA ClearKeeps ==
  ASSUME IInv, NEW inFlight \in BOOLEAN, ClearSessionData(inFlight)
  PROVE  IInv'
<1>1. /\ asked' \in BOOLEAN
      /\ discarded' = IF inFlight THEN discarded \cup started ELSE discarded
      /\ started' = {} /\ records' = <<>> /\ checkpoint' = None /\ success' = None /\ since' = <<>>
      /\ jobs' = {[j EXCEPT !.stale = TRUE] : j \in jobs}
      /\ dropped' = IF inFlight THEN dropped \cup started ELSE dropped
      /\ UNCHANGED <<running, drawn, inbox, probes>>
  BY DEF ClearSessionData, Asks, Markers, IInv, Shapes
<1>2. DOMAIN <<>> = {} /\ Len(<<>>) = 0 /\ \A S : <<>> \in Seq(S)
  OBVIOUS
<1>3. jobs' \subseteq Job
  BY <1>1 DEF IInv, Shapes, Job
<1>4. Shapes'
  BY <1>1, <1>2, <1>3 DEF IInv, Shapes
<1>5. FinishesOnce'
  BY <1>1 DEF IInv, RetainedInv, FinishesOnce, Finishing
<1>6. MarkersHold'
  <2>1. Finishing' = Finishing /\ Ids(records') = {}
    BY <1>1, <1>2 DEF Finishing, Ids
  <2>2. started \subseteq drawn
    BY DEF IInv, RetainedInv, FinishesOnce
  <2>3. QED BY <1>1, <2>1, <2>2 DEF IInv, RetainedInv, MarkersHold
<1>7. Bounded(records)' /\ LatestIsKept' /\ WithinLimits' /\ SuccessIsItsOwn'
  BY <1>1, <1>2, EmptyTotal, HistoryAssumption
     DEF Bounded, LatestIsKept, WithinLimits, SuccessIsItsOwn
<1>8. QED BY <1>4, <1>5, <1>6, <1>7 DEF IInv, RetainedInv

LEMMA StepHolds == IInv /\ [Next]_vars => IInv'
<1> SUFFICES ASSUME IInv, [Next]_vars PROVE IInv'
  OBVIOUS
<1>1. CASE ShellSteps
  BY <1>1, PreexecKeeps, PrecmdKeeps DEF ShellSteps
<1>2. CASE FrameSteps
  BY <1>2, StartKeeps, DiscardKeeps, UnknownKeeps, FinishKeeps DEF FrameSteps
<1>3. ASSUME NEW c \in Commands, RecordSuccessGit(c)
      PROVE  IInv'
  BY <1>3, ProbeKeeps
<1>4. ASSUME NEW j \in jobs, NEW tail \in Tails, RecordScreenTail(j, tail)
      PROVE  IInv'
  BY <1>4, TailKeeps
<1>5. ASSUME NEW j \in jobs, Analyze(j)
      PROVE  IInv'
  BY <1>5, AnalyzeKeeps
<1>6. CASE CheckpointRequest
  BY <1>6, CheckpointKeeps
<1>7. CASE DataRequest
  BY <1>7, ClearKeeps DEF DataRequest
<1>8. CASE UNCHANGED vars
  <2>1. Shapes' /\ Ids(records') \subseteq Ids(records)
    BY <1>8 DEF vars, IInv, Shapes
  <2>2. FinishesOnce' /\ MarkersHold'
    BY <1>8, <2>1, FramesStay DEF vars, IInv
  <2>3. QED BY <1>8, <2>1, <2>2, NothingRecorded DEF vars, IInv, RetainedInv
<1>9. QED BY <1>1, <1>2, <1>3, <1>4, <1>5, <1>6, <1>7, <1>8 DEF Next

-----------------------------------------------------------------------------
(* The theorems                                                            *)

\* The markers hold and the context is within its limits in every reachable state.
THEOREM MarkersAreKept == Spec => []IInv
BY InitHolds, StepHolds, PTL DEF Spec

\* Of a session no more is retained than its limits allow, the command recorded last is
\* always retained, and nothing that was in flight at an erasure is ever recorded.
THEOREM RetainedIsAllowed == Spec => []OnlyWhatMayBeIsRetained
<1>1. IInv => OnlyWhatMayBeIsRetained
  <2> SUFFICES ASSUME IInv PROVE OnlyWhatMayBeIsRetained
    OBVIOUS
  <2>1. ASSUME NEW i \in DOMAIN records
        PROVE  /\ records[i].id \in Commands /\ records[i].tail \in Commands \cup {None}
               /\ LengthOf(records[i].out) + LengthOf(records[i].err) \in 0..MaxOutput
    <3>1. records[i] \in Record
      BY DEF IInv, Shapes
    <3>2. LengthOf(records[i].out) \in Nat /\ LengthOf(records[i].err) \in Nat
      BY <3>1, TextLengths DEF Record
    <3>3. LengthOf(records[i].out) + LengthOf(records[i].err) <= MaxOutput
      BY DEF IInv, RetainedInv, Bounded
    <3>4. QED BY <3>1, <3>2, <3>3, HistoryAssumption DEF Record
  <2>2. TypeOK
    BY <2>1 DEF IInv, Shapes, TypeOK, Job
  <2>3. ContextIsBounded /\ ErasedStaysErased
    BY DEF IInv, RetainedInv, WithinLimits, LatestIsKept, MarkersHold, ContextIsBounded,
       ErasedStaysErased
  <2>4. QED BY <2>2, <2>3 DEF OnlyWhatMayBeIsRetained
<1>2. QED BY <1>1, MarkersAreKept, PTL

\* Probes and screen tails describe the command they were taken for.
THEOREM ProbesAreTrue == Spec => []ProbesDescribeTheirCommand
<1>1. IInv => ProbesDescribeTheirCommand
  BY DEF IInv, RetainedInv, SuccessIsItsOwn, Bounded, ProbesDescribeTheirCommand
<1>2. QED BY <1>1, MarkersAreKept, PTL

-----------------------------------------------------------------------------
(***************************************************************************)
(* The span of a checkpoint. The ghost `since` lists what was recorded     *)
(* since the checkpoint was set, `until` how many of it when it was        *)
(* resolved. The capsule finds the ends of the span by identifiers that    *)
(* may be trimmed, of a CLI run or of no record at all. The invariant says *)
(* that the records end with `since`, or with the end of it (Aligned);     *)
(* that a command is recorded once, and only when no frame can bring it    *)
(* any more (RecordedOnce); and where the runs of the CLI that set and     *)
(* resolved the checkpoint stand, before they are recorded, after they     *)
(* were, or when they never will be (Boundary).                            *)
(***************************************************************************)

\* Commands drawn that no finish frame can bring any more.
Over == drawn \ (Finishing \cup {running})

Recorded == Ids(records) \cup ToSet(since)
Starting == {inbox[i].id : i \in {j \in DOMAIN inbox : inbox[j].kind = "started"}}

NoIdTwice(seq) == \A i, j \in DOMAIN seq : seq[i].id = seq[j].id => i = j

\* The start of a command comes before its finish.
FramesInOrder ==
  \A i, j \in DOMAIN inbox :
    inbox[i].kind = "finished" /\ inbox[j].kind = "started" /\ inbox[i].id = inbox[j].id => j < i

RecordedOnce ==
  /\ Recorded \subseteq Over \ (started \cup Starting)
  /\ NoIdTwice(records) /\ FramesInOrder
  /\ \A i, j \in DOMAIN since : since[i] = since[j] => i = j

\* The records end with what was recorded since the checkpoint, or with the end of it; before
\* it comes the command that was the latest when the checkpoint was set.
Aligned(seq) ==
  /\ \A i \in DOMAIN seq :
       i > Len(seq) - Len(since) => seq[i].id = since[i - (Len(seq) - Len(since))]
  /\ Len(seq) > Len(since) => seq[Len(seq) - Len(since)].id = checkpoint.after

\* The command c, which was under way when n others had been recorded, runs the CLI and was
\* the next to be recorded, is about to be, or is none that will ever be.
Boundary(c, n) ==
  \/ c \in (Over \ Recorded) \cup {None}
  \/ c \in Controls /\ Len(since) = n /\ inbox = <<>> /\ running = c
  \/ c \in Controls /\ Len(since) = n /\ inbox # <<>>
       /\ Head(inbox).kind = "finished" /\ Head(inbox).id = c
  \/ c \in Controls /\ n + 1 \in DOMAIN since /\ since[n + 1] = c

SpanInv ==
  checkpoint # None =>
    /\ Aligned(records)
    /\ checkpoint.after \in (Over \ ToSet(since)) \cup {None}
    /\ since = <<>> => LastId(records) = checkpoint.after
    /\ checkpoint.resolved =>
         /\ until \in 0..Len(since)
         /\ checkpoint.before = IF until = 0 THEN checkpoint.after ELSE since[until]
    /\ ~ checkpoint.resolved => until = None
    /\ ~ apart => /\ Boundary(checkpoint.start, 0)
                  /\ checkpoint.resolved => Boundary(checkpoint.resolution, until)

LEMMA Place ==
  ASSUME NEW seq, NoIdTwice(seq), NEW c
  PROVE  /\ c \notin Ids(seq) => PlaceOf(c, seq) = 0
         /\ \A i \in DOMAIN seq : seq[i].id = c => PlaceOf(c, seq) = i
<1>1. c \notin Ids(seq) => PlaceOf(c, seq) = 0
  BY DEF PlaceOf
<1>2. ASSUME NEW i \in DOMAIN seq, seq[i].id = c
      PROVE  PlaceOf(c, seq) = i
  <2>1. c \in Ids(seq)
    BY <1>2 DEF Ids
  <2>2. \A j \in DOMAIN seq : seq[j].id = c => j = i
    BY <1>2 DEF NoIdTwice
  <2>3. (CHOOSE j \in DOMAIN seq : seq[j].id = c) = i
    BY <1>2, <2>2
  <2>4. QED BY <2>1, <2>3 DEF PlaceOf
<1>3. QED BY <1>1, <1>2

IsEndOf(t, seq) ==
  \E n \in 0..Len(seq) : Len(t) = Len(seq) - n /\ \A i \in DOMAIN t : t[i] = seq[n + i]

LEMMA TrimmedIsSuffix ==
  ASSUME NEW seq \in Seq(Record), Bounded(seq)
  PROVE  TrimContext(seq) \in Seq(Record) /\ IsEndOf(TrimContext(seq), seq)
<1>1. PICK n \in 0..Len(seq) : TrimContext(seq) = SubSeq(seq, n + 1, Len(seq))
  BY TrimIsSuffix
<1>2. QED BY <1>1 DEF IsEndOf

\* What holds of a context holds of its end.
LEMMA SuffixIsAligned ==
  ASSUME NEW seq \in Seq(Record), NEW t \in Seq(Record), since \in Seq(Commands),
         NoIdTwice(seq), IsEndOf(t, seq)
  PROVE  /\ NoIdTwice(t) /\ Ids(t) \subseteq Ids(seq)
         /\ Aligned(seq) => Aligned(t)
<1>1. PICK n \in 0..Len(seq) : Len(t) = Len(seq) - n /\ \A i \in DOMAIN t : t[i] = seq[n + i]
  BY DEF IsEndOf
<1>2. /\ Len(seq) \in Nat /\ DOMAIN seq = 1..Len(seq) /\ Len(since) \in Nat
      /\ Len(t) \in Nat /\ DOMAIN t = 1..Len(t)
  OBVIOUS
<1>3. \A i \in DOMAIN t : n + i \in DOMAIN seq
  BY <1>1, <1>2
<1>4. NoIdTwice(t)
  <2>1. ASSUME NEW i \in DOMAIN t, NEW j \in DOMAIN t, t[i].id = t[j].id
        PROVE  i = j
    <3>1. n + i = n + j
      BY <1>1, <1>3, <2>1 DEF NoIdTwice
    <3>2. QED BY <1>2, <3>1
  <2>2. QED BY <2>1 DEF NoIdTwice
<1>5. Ids(t) \subseteq Ids(seq)
  BY <1>1, <1>3 DEF Ids
<1>6. ASSUME Aligned(seq)
      PROVE  Aligned(t)
  <2>1. ASSUME NEW i \in DOMAIN t, i > Len(t) - Len(since)
        PROVE  t[i].id = since[i - (Len(t) - Len(since))]
    <3>1. n + i > Len(seq) - Len(since) /\ (n + i) - (Len(seq) - Len(since)) = i - (Len(t) - Len(since))
      BY <1>1, <1>2, <2>1
    <3>2. seq[n + i].id = since[(n + i) - (Len(seq) - Len(since))]
      BY <1>3, <1>6, <3>1 DEF Aligned
    <3>3. QED BY <1>1, <3>1, <3>2
  <2>2. ASSUME Len(t) > Len(since)
        PROVE  t[Len(t) - Len(since)].id = checkpoint.after
    <3>1. /\ Len(t) - Len(since) \in DOMAIN t /\ Len(seq) > Len(since)
          /\ n + (Len(t) - Len(since)) = Len(seq) - Len(since)
      BY <1>1, <1>2, <2>2
    <3>2. t[Len(t) - Len(since)] = seq[Len(seq) - Len(since)]
      BY <1>1, <3>1
    <3>3. QED BY <1>6, <3>1, <3>2 DEF Aligned
  <2>3. QED BY <2>1, <2>2 DEF Aligned
<1>7. QED BY <1>4, <1>5, <1>6

\* Of an aligned end of the context, the span is what was recorded since the checkpoint and
\* before its resolution, but for the commands that ran the CLI.
LEMMA SpanIsWhatWasRecorded ==
  ASSUME Shapes, RecordedOnce, SpanInv, checkpoint # None, ~ apart,
         NEW seq \in Seq(Record), NoIdTwice(seq), Aligned(seq), Ids(seq) \subseteq Ids(records),
         NEW u \in 0..Len(since), u = IF until = None THEN Len(since) ELSE until
  PROVE  /\ SpanStart(seq) \in 0..Len(seq) /\ SpanEnd(seq) \in 0..Len(seq)
         /\ \A i \in DOMAIN seq : seq[i].id \notin Controls =>
              (SpanStart(seq) < i /\ i <= SpanEnd(seq) <=> seq[i].id \in {since[j] : j \in 1..u})
<1> DEFINE k == Len(since)
           d == Len(seq) - k
<1>1. /\ k \in Nat /\ Len(seq) \in Nat /\ d \in Int /\ DOMAIN seq = 1..Len(seq) /\ DOMAIN since = 1..k
      /\ since \in Seq(Commands) /\ Len(seq) = d + k /\ u \in 0..k
  BY DEF Shapes
<1>2. /\ \A i \in DOMAIN seq : i > d => seq[i].id = since[i - d]
      /\ d > 0 => seq[d].id = checkpoint.after
  BY DEF Aligned
<1>3. \A i, j \in 1..k : since[i] = since[j] => i = j
  BY <1>1 DEF RecordedOnce
<1> HIDE DEF k, d
<1>4. \A j \in 1..k : d + j >= 1 => d + j \in DOMAIN seq /\ seq[d + j].id = since[j]
  <2> SUFFICES ASSUME NEW j \in 1..k, d + j >= 1
               PROVE  d + j \in DOMAIN seq /\ seq[d + j].id = since[j]
    OBVIOUS
  <2>1. d + j \in DOMAIN seq /\ d + j > d /\ (d + j) - d = j
    BY <1>1
  <2>2. QED BY <1>2, <2>1
\* Where what was recorded since is.
<1>5. ASSUME NEW i \in DOMAIN seq, NEW j \in 1..k, seq[i].id = since[j]
      PROVE  i = d + j
  <2>1. CASE i > d
    <3>1. i - d \in 1..k /\ since[i - d] = since[j]
      BY <1>1, <1>2, <1>5, <2>1
    <3>2. i - d = j
      BY <1>3, <3>1
    <3>3. QED BY <1>1, <3>2
  <2>2. CASE ~ (i > d)
    <3>1. d + j >= 1
      BY <1>1, <2>2
    <3>2. seq[i].id = seq[d + j].id /\ d + j \in DOMAIN seq
      BY <1>4, <1>5, <3>1
    <3>3. QED BY <3>2 DEF NoIdTwice
  <2>3. QED BY <2>1, <2>2
\* A command recorded before some of it, and after none, is not in the context.
<1>6. ASSUME NEW j \in 1..k, ~ (d + j >= 1)
      PROVE  since[j] \notin Ids(seq)
  <2> SUFFICES ASSUME NEW i \in DOMAIN seq, seq[i].id = since[j]
               PROVE  FALSE
    BY DEF Ids
  <2>1. i = d + j
    BY <1>5
  <2>2. QED BY <1>1, <1>6, <2>1
<1>7. PlaceOf(checkpoint.after, seq) = IF d > 0 THEN d ELSE 0
  <2>1. CASE d > 0
    <3>1. d \in DOMAIN seq
      BY <1>1, <2>1
    <3>2. QED BY <1>2, <2>1, <3>1, Place
  <2>2. CASE ~ (d > 0)
    <3>1. checkpoint.after \notin Ids(seq)
      <4> SUFFICES ASSUME NEW i \in DOMAIN seq, seq[i].id = checkpoint.after
                   PROVE  FALSE
        BY DEF Ids
      <4>1. i - d \in 1..k /\ seq[i].id = since[i - d] /\ since[i - d] \in ToSet(since)
        <5>1. i - d \in 1..k /\ i > d
          BY <1>1, <2>2
        <5>2. seq[i].id = since[i - d]
          BY <1>2, <5>1
        <5>3. QED BY <1>1, <5>1, <5>2 DEF ToSet
      <4>2. seq[i].id \in Commands
        <5>1. seq[i] \in Record
          OBVIOUS
        <5>2. QED BY <5>1 DEF Record
      <4>3. QED BY <4>1, <4>2, HistoryAssumption DEF SpanInv
    <3>2. QED BY <2>2, <3>1, Place
  <2>3. QED BY <2>1, <2>2
\* Of the commands at the boundaries, the one that is in the context was recorded next.
<1>8. ASSUME NEW c, NEW n \in 0..k, Boundary(c, n), c \in Ids(seq)
      PROVE  n + 1 \in 1..k /\ since[n + 1] = c /\ c \in Controls
  <2>1. c \in Ids(records) /\ c \in Recorded
    BY <1>8 DEF Recorded
  <2>2. c \in Over /\ c \notin Finishing /\ c # running
    BY <2>1 DEF RecordedOnce, Over
  <2>3. c # None
    <3>1. PICK i \in DOMAIN seq : seq[i].id = c
      BY <1>8 DEF Ids
    <3>2. seq[i] \in Record
      OBVIOUS
    <3>3. QED BY <3>1, <3>2, HistoryAssumption DEF Record
  <2>4. ~ (inbox # <<>> /\ Head(inbox).kind = "finished" /\ Head(inbox).id = c)
    <3>1. inbox # <<>> => 1 \in DOMAIN inbox /\ Head(inbox) = inbox[1]
      BY DEF Shapes
    <3>2. QED BY <2>2, <3>1 DEF Finishing
  <2>5. QED BY <1>1, <1>8, <2>1, <2>2, <2>3, <2>4 DEF Boundary, k
<1>9. ASSUME NEW c, NEW n \in 0..k, Boundary(c, n)
      PROVE  \/ PlaceOf(c, seq) = 0
             \/ d + n + 1 \in DOMAIN seq /\ PlaceOf(c, seq) = d + n + 1
                /\ seq[d + n + 1].id \in Controls
  <2>1. CASE c \in Ids(seq)
    <3>1. n + 1 \in 1..k /\ since[n + 1] = c /\ c \in Controls
      BY <1>8, <1>9, <2>1
    <3>2. PICK i \in DOMAIN seq : seq[i].id = c
      BY <2>1 DEF Ids
    <3>3. i = d + (n + 1)
      BY <1>5, <3>1, <3>2
    <3>4. i = d + n + 1
      BY <1>1, <3>3
    <3>5. PlaceOf(c, seq) = i
      BY <3>2, Place
    <3>6. QED BY <3>1, <3>2, <3>4, <3>5
  <2>2. CASE c \notin Ids(seq)
    BY <2>2, Place
  <2>3. QED BY <2>1, <2>2
<1>10. /\ Boundary(checkpoint.start, 0)
       /\ checkpoint.resolved => /\ Boundary(checkpoint.resolution, until) /\ until \in 0..k
                                 /\ checkpoint.before = IF until = 0 THEN checkpoint.after ELSE since[until]
       /\ ~ checkpoint.resolved => until = None
  BY DEF SpanInv, k
<1>11. until \in Nat => until # None
  BY HistoryAssumption
\* The start
<1>12. /\ SpanStart(seq) \in 0..Len(seq)
       /\ \A i \in DOMAIN seq : seq[i].id \notin Controls => (SpanStart(seq) < i <=> d < i)
  <2>1. 0 \in 0..k
    BY <1>1
  <2>2. CASE PlaceOf(checkpoint.start, seq) = 0
    <3>1. SpanStart(seq) = IF d > 0 THEN d ELSE 0
      BY <1>7, <2>2 DEF SpanStart
    <3>2. QED BY <1>1, <3>1
  <2>3. CASE /\ d + 0 + 1 \in DOMAIN seq /\ PlaceOf(checkpoint.start, seq) = d + 0 + 1
             /\ seq[d + 0 + 1].id \in Controls
    <3>1. SpanStart(seq) = d + 1 /\ d + 1 \in DOMAIN seq /\ seq[d + 1].id \in Controls
      BY <1>1, <2>3 DEF SpanStart
    <3>2. ASSUME NEW i \in DOMAIN seq, seq[i].id \notin Controls
          PROVE  d + 1 < i <=> d < i
      <4>1. i # d + 1
        BY <3>1, <3>2
      <4>2. QED BY <1>1, <4>1
    <3>3. QED BY <1>1, <3>1, <3>2
  <2>4. QED BY <1>9, <1>10, <2>1, <2>2, <2>3
\* The end
<1>13. /\ SpanEnd(seq) \in 0..Len(seq)
       /\ \A i \in DOMAIN seq : seq[i].id \notin Controls => (i <= SpanEnd(seq) <=> i <= d + u)
  <2>1. CASE ~ checkpoint.resolved
    <3>1. SpanEnd(seq) = Len(seq) /\ u = k
      BY <1>10, <2>1 DEF SpanEnd, k
    <3>2. QED BY <1>1, <3>1
  <2>2. CASE checkpoint.resolved /\ PlaceOf(checkpoint.resolution, seq) # 0
    <3>1. u = until
      BY <1>10, <1>11, <2>2
    <3>2. /\ d + u + 1 \in DOMAIN seq /\ PlaceOf(checkpoint.resolution, seq) = d + u + 1
          /\ seq[d + u + 1].id \in Controls
      BY <1>9, <1>10, <2>2, <3>1
    <3>3. SpanEnd(seq) = (d + u + 1) - 1 /\ (d + u + 1) - 1 = d + u
      BY <1>1, <2>2, <3>2 DEF SpanEnd
    <3>4. QED BY <1>1, <3>2, <3>3
  <2>3. CASE checkpoint.resolved /\ PlaceOf(checkpoint.resolution, seq) = 0
    <3>1. u = until
      BY <1>10, <1>11, <2>3
    <3>2. SpanEnd(seq) = PlaceOf(checkpoint.before, seq)
      BY <2>3 DEF SpanEnd
    <3>3. CASE u = 0
      <4>1. SpanEnd(seq) = IF d > 0 THEN d ELSE 0
        BY <1>7, <1>10, <2>3, <3>1, <3>2, <3>3
      <4>2. QED BY <1>1, <3>3, <4>1
    <3>4. CASE u # 0
      <4>1. u \in 1..k /\ checkpoint.before = since[u]
        BY <1>1, <1>10, <2>3, <3>1, <3>4
      <4>2. CASE d + u >= 1
        <5>1. d + u \in DOMAIN seq /\ SpanEnd(seq) = d + u
          BY <1>4, <3>2, <4>1, <4>2, Place
        <5>2. QED BY <1>1, <5>1
      <4>3. CASE ~ (d + u >= 1)
        <5>1. SpanEnd(seq) = 0
          BY <1>6, <3>2, <4>1, <4>3, Place
        <5>2. QED BY <1>1, <4>1, <4>3, <5>1
      <4>4. QED BY <4>2, <4>3
    <3>5. QED BY <3>3, <3>4
  <2>4. QED BY <2>1, <2>2, <2>3
<1>14. ASSUME NEW i \in DOMAIN seq
       PROVE  d < i /\ i <= d + u <=> seq[i].id \in {since[j] : j \in 1..u}
  <2>1. ASSUME d < i, i <= d + u
        PROVE  seq[i].id \in {since[j] : j \in 1..u}
    <3>1. i - d \in 1..u /\ seq[i].id = since[i - d]
      BY <1>1, <1>2, <2>1
    <3>2. QED BY <3>1
  <2>2. ASSUME NEW j \in 1..u, seq[i].id = since[j]
        PROVE  d < i /\ i <= d + u
    <3>1. j \in 1..k
      BY <1>1
    <3>2. i = d + j
      BY <1>5, <2>2, <3>1
    <3>3. QED BY <1>1, <3>1, <3>2
  <2>3. QED BY <2>1, <2>2
<1>15. QED BY <1>12, <1>13, <1>14

-----------------------------------------------------------------------------
(* The span is kept                                                        *)

\* What no step but a finish that is recorded changes of the span.
LEMMA BoundariesStay ==
  ASSUME Shapes, FinishesOnce, RecordedOnce, UNCHANGED since,
         Ids(records') \subseteq Ids(records), Over \subseteq Over',
         \/ UNCHANGED <<inbox, running>>
         \/ inbox # <<>> /\ inbox' # <<>> /\ Head(inbox') = Head(inbox)
         \/ inbox = <<>> /\ inbox' # <<>> /\ running # None /\ Head(inbox').kind = "finished"
              /\ Head(inbox').id = running
         \/ inbox = <<>> /\ running = None
         \/ inbox = <<>> /\ inbox' = <<>> /\ running \in Over'
         \/ inbox # <<>> /\ Head(inbox).kind = "started"
         \/ inbox # <<>> /\ Head(inbox).id \in Over',
         NEW c \in Identifier, NEW n, Boundary(c, n)
  PROVE  Boundary(c, n)'
<1>1. Recorded' \subseteq Recorded /\ Recorded \subseteq Over
  BY DEF Recorded, RecordedOnce
<1>2. CASE c \in (Over \ Recorded) \cup {None}
  BY <1>1, <1>2 DEF Boundary
<1>3. CASE c \in Controls /\ n + 1 \in DOMAIN since /\ since[n + 1] = c
  BY <1>3 DEF Boundary
<1>4. CASE c \in Controls /\ Len(since) = n /\ inbox = <<>> /\ running = c
  <2>1. c # None /\ c \notin Recorded
    BY <1>1, <1>4, HistoryAssumption DEF Over
  <2>2. QED BY <1>1, <1>4, <2>1 DEF Boundary
<1>5. CASE /\ c \in Controls /\ Len(since) = n /\ inbox # <<>>
           /\ Head(inbox).kind = "finished" /\ Head(inbox).id = c
  <2>1. c \in Finishing
    <3>1. 1 \in DOMAIN inbox /\ Head(inbox) = inbox[1]
      BY <1>5 DEF Shapes
    <3>2. QED BY <1>5, <3>1 DEF Finishing
  <2>2. c \notin Recorded
    BY <1>1, <2>1 DEF Over
  <2>3. c # running
    BY <1>5, <2>1, HistoryAssumption DEF FinishesOnce
  <2>4. QED BY <1>1, <1>5, <2>2, <2>3 DEF Boundary
<1>6. QED BY <1>2, <1>3, <1>4, <1>5 DEF Boundary

\* Such a step keeps the span, if the records stay aligned.
LEMMA SpanStays ==
  ASSUME Shapes, SpanInv, UNCHANGED <<since, checkpoint, until, apart>>,
         checkpoint # None => Aligned(records)' /\ LastId(records') = LastId(records),
         Over \subseteq Over',
         \A c \in Identifier : \A n : Boundary(c, n) => Boundary(c, n)'
  PROVE  SpanInv'
<1> SUFFICES ASSUME checkpoint # None PROVE SpanInv'
  BY DEF SpanInv
<1>1. checkpoint \in Checkpoint /\ checkpoint.start \in Identifier /\ checkpoint.resolution \in Identifier
  BY DEF Shapes, Checkpoint
<1>2. checkpoint.after \in (Over' \ ToSet(since)) \cup {None}
  BY DEF SpanInv
<1>3. ~ apart => /\ Boundary(checkpoint.start, 0)'
                 /\ checkpoint.resolved => Boundary(checkpoint.resolution, until)'
  BY <1>1 DEF SpanInv
<1>4. QED BY <1>2, <1>3 DEF SpanInv

\* Taking a frame, and writing one.
LEMMA TakenInOrder ==
  ASSUME Shapes, FinishesOnce, FramesInOrder, inbox # <<>>, inbox' = Tail(inbox)
  PROVE  /\ FramesInOrder' /\ Starting' \subseteq Starting
         /\ Head(inbox).kind = "started" => Head(inbox).id \in Starting
         /\ Head(inbox).kind = "finished" => Head(inbox).id \notin Starting
<1>1. /\ inbox' \in Seq(Started \cup Finished) /\ Len(inbox') = Len(inbox) - 1
      /\ 1 \in DOMAIN inbox /\ Head(inbox) = inbox[1]
  BY DEF Shapes
<1>2. \A i \in DOMAIN inbox' : i \in Nat /\ i + 1 \in DOMAIN inbox /\ inbox'[i] = inbox[i + 1]
  BY <1>1 DEF Shapes
<1>3. ASSUME NEW i \in DOMAIN inbox', NEW j \in DOMAIN inbox',
             inbox'[i].kind = "finished", inbox'[j].kind = "started", inbox'[i].id = inbox'[j].id
      PROVE  j < i
  <2>1. j + 1 < i + 1
    BY <1>2, <1>3 DEF FramesInOrder
  <2>2. QED BY <1>2, <2>1
<1>4. Starting' \subseteq Starting
  BY <1>2 DEF Starting
<1>5. ASSUME Head(inbox).kind = "finished", Head(inbox).id \in Starting
      PROVE  FALSE
  <2>1. PICK j \in DOMAIN inbox : inbox[j].kind = "started" /\ inbox[j].id = Head(inbox).id
    BY <1>5 DEF Starting
  <2>2. j < 1
    BY <1>1, <1>5, <2>1 DEF FramesInOrder
  <2>3. j \in 1..Len(inbox)
    BY DEF Shapes
  <2>4. QED BY <2>2, <2>3
<1>6. Head(inbox).kind = "started" => Head(inbox).id \in Starting
  BY <1>1 DEF Starting
<1>7. QED BY <1>3, <1>4, <1>5, <1>6 DEF FramesInOrder

LEMMA WrittenInOrder ==
  ASSUME Shapes, FinishesOnce, FramesInOrder, NEW frame \in Started \cup Finished,
         frame.kind = "started" => frame.id \notin drawn, Deliver(frame)
  PROVE  /\ FramesInOrder'
         /\ Starting' \subseteq Starting \cup (IF frame.kind = "started" THEN {frame.id} ELSE {})
         /\ \/ UNCHANGED inbox
            \/ inbox' # <<>> /\ Head(inbox') = IF inbox = <<>> THEN frame ELSE Head(inbox)
<1>1. CASE UNCHANGED inbox
  BY <1>1 DEF FramesInOrder, Starting
<1>2. CASE inbox' = Append(inbox, frame)
  <2>1. /\ \A i \in DOMAIN inbox' : \/ i \in DOMAIN inbox /\ inbox'[i] = inbox[i]
                                    \/ i = Len(inbox) + 1 /\ inbox'[i] = frame
        /\ inbox' # <<>> /\ Head(inbox') = IF inbox = <<>> THEN frame ELSE Head(inbox)
        /\ DOMAIN inbox = 1..Len(inbox) /\ Len(inbox) \in Nat
    <3> DEFINE Frames == Started \cup Finished
               longer == Append(inbox, frame)
    <3>1. inbox \in Seq(Frames) /\ frame \in Frames
      BY DEF Shapes
    <3> HIDE DEF Frames
    <3>2. /\ longer \in Seq(Frames) /\ longer # <<>>
          /\ \A i \in DOMAIN longer : \/ i \in DOMAIN inbox /\ longer[i] = inbox[i]
                                      \/ i = Len(inbox) + 1 /\ longer[i] = frame
      BY <3>1, AppendedElements
    <3>3. Head(longer) = IF inbox = <<>> THEN frame ELSE Head(inbox)
      BY <3>1
    <3>4. DOMAIN inbox = 1..Len(inbox) /\ Len(inbox) \in Nat
      BY <3>1
    <3> HIDE DEF longer
    <3>5. inbox' = longer
      BY <1>2 DEF longer
    <3>6. QED BY <3>2, <3>3, <3>4, <3>5
  <2>2. \A i \in DOMAIN inbox : inbox[i].id \in drawn
    BY DEF FinishesOnce
  <2>3. ASSUME NEW i \in DOMAIN inbox', NEW j \in DOMAIN inbox',
               inbox'[i].kind = "finished", inbox'[j].kind = "started", inbox'[i].id = inbox'[j].id
        PROVE  j < i
    <3>1. j \in DOMAIN inbox /\ inbox'[j] = inbox[j]
      <4>1. CASE i \in DOMAIN inbox /\ inbox'[i] = inbox[i]
        BY <2>1, <2>2, <2>3, <4>1
      <4>2. CASE inbox'[i] = frame
        BY <2>1, <2>3, <4>2
      <4>3. QED BY <2>1, <4>1, <4>2
    <3>2. CASE i \in DOMAIN inbox /\ inbox'[i] = inbox[i]
      BY <2>3, <3>1, <3>2 DEF FramesInOrder
    <3>3. CASE i = Len(inbox) + 1
      BY <2>1, <3>1, <3>3
    <3>4. QED BY <2>1, <3>2, <3>3
  <2>4. Starting' \subseteq Starting \cup (IF frame.kind = "started" THEN {frame.id} ELSE {})
    BY <2>1 DEF Starting
  <2>5. QED BY <2>1, <2>3, <2>4 DEF FramesInOrder
<1>3. QED BY <1>1, <1>2 DEF Deliver

\* Steps of the shell.
LEMMA ShellKeepsSpan ==
  ASSUME IInv, RecordedOnce, SpanInv, ShellSteps
  PROVE  RecordedOnce' /\ SpanInv'
<1>1. /\ Shapes /\ FinishesOnce
      /\ UNCHANGED <<started, records, checkpoint, since, until, apart>>
  BY DEF IInv, RetainedInv, ShellSteps, Preexec, Precmd, history, ghosts
<1>2. /\ Over \subseteq Over' /\ FramesInOrder' /\ Recorded \cap Starting' = {}
      /\ \/ UNCHANGED <<inbox, running>>
         \/ inbox # <<>> /\ inbox' # <<>> /\ Head(inbox') = Head(inbox)
         \/ inbox = <<>> /\ inbox' # <<>> /\ running # None /\ Head(inbox').kind = "finished"
              /\ Head(inbox').id = running
         \/ inbox = <<>> /\ running = None
         \/ inbox = <<>> /\ inbox' = <<>> /\ running \in Over'
  <2>1. CASE Preexec
    <3>1. PICK c \in Commands \ drawn :
            /\ running = None /\ running' = c /\ drawn' = drawn \cup {c}
            /\ Deliver([kind |-> "started", id |-> c])
      BY <2>1 DEF Preexec
    <3> DEFINE frame == [kind |-> "started", id |-> c]
    <3>2. frame \in Started \cup Finished /\ frame.kind = "started" /\ frame.id = c
      BY DEF Started
    <3>3. Deliver(frame)
      BY <3>1
    <3> HIDE DEF frame
    <3>4. Finishing' \subseteq Finishing
      BY <1>1, <3>1, <3>2, <3>3, Written
    <3>5. FramesInOrder' /\ Starting' \subseteq Starting \cup {c}
          /\ (UNCHANGED inbox \/ (inbox' # <<>> /\ (inbox # <<>> => Head(inbox') = Head(inbox))))
      BY <1>1, <3>1, <3>2, <3>3, WrittenInOrder DEF RecordedOnce
    <3>6. Over \subseteq Over' /\ Recorded \subseteq drawn
      BY <3>1, <3>4 DEF Over, RecordedOnce
    <3>7. QED BY <3>1, <3>5, <3>6 DEF RecordedOnce
  <2>2. CASE Precmd
    <3>1. PICK code \in {0, 1}, f \in Finishes :
            Deliver([kind |-> "finished", id |-> running, code |-> code, frame |-> f])
      BY <2>2 DEF Precmd
    <3>2. /\ running # None /\ running' = None /\ drawn' = drawn
          /\ running \in Commands /\ running \in drawn /\ running \notin Finishing
      BY <1>1, <2>2 DEF Precmd, Shapes, FinishesOnce
    <3> DEFINE frame == [kind |-> "finished", id |-> running, code |-> code, frame |-> f]
    <3>3. frame \in Started \cup Finished /\ frame.kind = "finished" /\ frame.id = running
      BY <3>2 DEF Finished
    <3>4. Deliver(frame)
      BY <3>1
    <3> HIDE DEF frame
    <3>5. Finishing' \subseteq Finishing \cup {running}
      BY <1>1, <3>2, <3>3, <3>4, Written
    <3>6. FramesInOrder' /\ Starting' \subseteq Starting
          /\ (UNCHANGED inbox
              \/ (inbox' # <<>> /\ Head(inbox') = IF inbox = <<>> THEN frame ELSE Head(inbox)))
      BY <1>1, <3>3, <3>4, WrittenInOrder DEF RecordedOnce
    <3>7. None \notin drawn
      BY <1>1, HistoryAssumption DEF Shapes
    <3>8. Over \subseteq Over'
      BY <3>2, <3>5, <3>7 DEF Over
    <3>9. UNCHANGED inbox => running \in Over'
      BY <3>2, <3>7 DEF Over, Finishing
    <3>10. QED BY <3>2, <3>3, <3>6, <3>8, <3>9 DEF RecordedOnce
  <2>3. QED BY <2>1, <2>2 DEF ShellSteps
<1>3. Recorded' = Recorded /\ Ids(records') \subseteq Ids(records)
  BY <1>1 DEF Recorded, Ids
<1>4. RecordedOnce'
  BY <1>1, <1>2, <1>3 DEF RecordedOnce, NoIdTwice
<1>5. \A c \in Identifier : \A n : Boundary(c, n) => Boundary(c, n)'
  BY <1>1, <1>2, <1>3, BoundariesStay
<1>6. Aligned(records)' <=> Aligned(records)
  BY <1>1 DEF Aligned
<1>7. SpanInv'
  BY <1>1, <1>2, <1>5, <1>6, SpanStays DEF SpanInv
<1>8. QED BY <1>4, <1>7

\* A finish that is recorded comes at the end, and is the boundary if one waits for it.
LEMMA RecordedAtTheEnd ==
  ASSUME NEW c \in Commands, NEW r \in Record, r.id = c, records \in Seq(Record),
         Bounded(records), Bounded(<<r>>), since \in Seq(Commands), checkpoint # None,
         records' = TrimContext(Append(records, r)), since' = Append(since, c),
         UNCHANGED checkpoint, Aligned(records)
  PROVE  Aligned(records)'
<1> DEFINE longer == Append(records, r)
           told == Append(since, c)
<1>1. /\ longer \in Seq(Record) /\ Len(longer) = Len(records) + 1 /\ longer[Len(records) + 1] = r
      /\ \A i \in 1..Len(records) : longer[i] = records[i]
      /\ told \in Seq(Commands) /\ Len(told) = Len(since) + 1 /\ told[Len(since) + 1] = c
      /\ \A i \in 1..Len(since) : told[i] = since[i]
      /\ Len(records) \in Nat /\ Len(since) \in Nat
      /\ DOMAIN longer = 1..(Len(records) + 1) /\ DOMAIN records = 1..Len(records)
  OBVIOUS
<1> HIDE DEF longer, told
<1>2. ASSUME NEW i \in DOMAIN longer, i > Len(longer) - Len(told)
      PROVE  longer[i].id = told[i - (Len(longer) - Len(told))]
  <2>1. Len(longer) - Len(told) = Len(records) - Len(since)
    BY <1>1
  <2>2. CASE i = Len(records) + 1
    <3>1. i - (Len(records) - Len(since)) = Len(since) + 1
      BY <1>1, <2>2
    <3>2. QED BY <1>1, <2>1, <2>2, <3>1
  <2>3. CASE i # Len(records) + 1
    <3>1. /\ i \in 1..Len(records) /\ i > Len(records) - Len(since)
          /\ i - (Len(records) - Len(since)) \in 1..Len(since)
      BY <1>1, <1>2, <2>1, <2>3
    <3>2. records[i].id = since[i - (Len(records) - Len(since))]
      BY <1>1, <3>1 DEF Aligned
    <3>3. QED BY <1>1, <2>1, <3>1, <3>2
  <2>4. QED BY <2>2, <2>3
<1>3. ASSUME Len(longer) > Len(told)
      PROVE  longer[Len(longer) - Len(told)].id = checkpoint.after
  <2>1. /\ Len(longer) - Len(told) = Len(records) - Len(since) /\ Len(records) > Len(since)
        /\ Len(records) - Len(since) \in 1..Len(records)
    BY <1>1, <1>3
  <2>2. QED BY <1>1, <2>1 DEF Aligned
<1>4. records' \in Seq(Record) /\ IsEndOf(records', longer)
  <2>1. Bounded(longer) /\ records' = TrimContext(longer)
    BY Appended DEF longer
  <2>2. QED BY <1>1, <2>1, TrimmedIsSuffix
<1>5. PICK n \in 0..Len(longer) :
        Len(records') = Len(longer) - n /\ \A i \in DOMAIN records' : records'[i] = longer[n + i]
  BY <1>4 DEF IsEndOf
<1>6. /\ since' = told /\ DOMAIN records' = 1..Len(records') /\ Len(records') \in Nat
      /\ Len(longer) \in Nat /\ Len(told) \in Nat
      /\ Len(records') - Len(since') = (Len(longer) - Len(told)) - n
  <2>1. since' = told /\ DOMAIN records' = 1..Len(records') /\ Len(records') \in Nat
    BY <1>4 DEF told
  <2>2. Len(longer) \in Nat /\ Len(told) \in Nat /\ Len(since') = Len(told)
    BY <1>1, <2>1
  <2>3. QED BY <1>5, <2>1, <2>2
<1>7. ASSUME NEW i \in DOMAIN records', i > Len(records') - Len(since')
      PROVE  records'[i].id = since'[i - (Len(records') - Len(since'))]
  <2>1. /\ n + i \in DOMAIN longer /\ n + i > Len(longer) - Len(told)
        /\ (n + i) - (Len(longer) - Len(told)) = i - (Len(records') - Len(since'))
    <3>1. i \in 1..Len(records') /\ Len(records') = Len(longer) - n /\ n \in 0..Len(longer)
      BY <1>5, <1>6
    <3>2. i > (Len(longer) - Len(told)) - n
      BY <1>6, <1>7
    <3>3. n + i \in 1..Len(longer)
      BY <1>6, <3>1
    <3>4. DOMAIN longer = 1..Len(longer)
      BY <1>1
    <3>5. QED BY <1>6, <3>1, <3>2, <3>3, <3>4
  <2>2. QED BY <1>2, <1>5, <1>6, <2>1
<1>8. ASSUME Len(records') > Len(since')
      PROVE  records'[Len(records') - Len(since')].id = checkpoint.after
  <2>1. /\ Len(records') - Len(since') \in DOMAIN records' /\ Len(longer) > Len(told)
        /\ n + (Len(records') - Len(since')) = Len(longer) - Len(told)
    <3>1. Len(records') = Len(longer) - n /\ n \in 0..Len(longer)
      BY <1>5
    <3>2. (Len(longer) - Len(told)) - n > 0
      BY <1>6, <1>8
    <3>3. (Len(longer) - Len(told)) - n \in 1..Len(records')
      BY <1>6, <3>1, <3>2
    <3>4. QED BY <1>6, <3>1, <3>2, <3>3
  <2>2. QED BY <1>3, <1>5, <2>1
<1>9. QED BY <1>7, <1>8 DEF Aligned

LEMMA FinishKeepsSpan ==
  ASSUME IInv, IInv', RecordedOnce, SpanInv, FinishCommand
  PROVE  RecordedOnce' /\ SpanInv'
<1> DEFINE c == Head(inbox).id
<1>1. /\ inbox # <<>> /\ inbox' = Tail(inbox) /\ Head(inbox).kind = "finished"
      /\ started' = started \ {c}
      /\ since' = IF checkpoint = None THEN since ELSE Append(since, c)
      /\ UNCHANGED <<running, drawn, checkpoint, until, apart>>
  BY DEF FinishCommand, prompt
<1>2. Shapes /\ FinishesOnce /\ Bounded(records) /\ records \in Seq(Record) /\ since \in Seq(Commands)
  BY DEF IInv, RetainedInv, Shapes
<1>3. /\ c \in Commands /\ c \in drawn /\ c \in Finishing \ Finishing' /\ Finishing' \subseteq Finishing
      /\ c \notin Starting /\ Starting' \subseteq Starting /\ FramesInOrder'
  <2>1. Head(inbox) \in Started \cup Finished
    BY <1>1, <1>2, Taken
  <2>2. c \in Commands
    BY <1>1, <2>1 DEF Started, Finished
  <2>3. QED BY <1>1, <1>2, <2>2, Taken, TakenInOrder DEF RecordedOnce
<1>4. c # running
  BY <1>2, <1>3, HistoryAssumption DEF FinishesOnce
<1>5. PICK r \in Record : r.id = c /\ Bounded(<<r>>) /\ records' = TrimContext(Append(records, r))
  BY FinishAppends
<1> HIDE DEF c
<1>6. Over \cup {c} \subseteq Over' /\ c \notin Over
  BY <1>1, <1>3, <1>4 DEF Over
<1>7. c \notin Recorded
  BY <1>6 DEF RecordedOnce
<1> DEFINE longer == Append(records, r)
<1>8. /\ longer \in Seq(Record) /\ Bounded(longer) /\ Ids(longer) \subseteq Ids(records) \cup {c}
      /\ LastId(longer) = c
  BY <1>2, <1>5, Appended
<1>9. NoIdTwice(longer)
  <2>1. /\ \A i \in DOMAIN longer : \/ i \in DOMAIN records /\ longer[i] = records[i]
                                    \/ i = Len(records) + 1 /\ longer[i] = r
        /\ \A i \in DOMAIN records : records[i].id # c
    BY <1>2, <1>7, AppendedElements DEF Recorded, Ids
  <2> HIDE DEF longer
  <2>2. QED BY <1>5, <2>1 DEF RecordedOnce, NoIdTwice
<1> HIDE DEF longer
<1>10. /\ records' \in Seq(Record) /\ NoIdTwice(records)' /\ Ids(records') \subseteq Ids(records) \cup {c}
       /\ LastId(records') = c
  <2>1. records' = TrimContext(longer)
    BY <1>5 DEF longer
  <2>2. records' \in Seq(Record) /\ IsEndOf(records', longer) /\ LastId(records') = c
    BY <1>8, <2>1, TrimmedIsSuffix, Trimmed
  <2>3. NoIdTwice(records') /\ Ids(records') \subseteq Ids(longer)
    BY <1>2, <1>8, <1>9, <2>2, SuffixIsAligned
  <2>4. QED BY <1>8, <2>2, <2>3 DEF NoIdTwice
<1>11. /\ ToSet(since') \subseteq ToSet(since) \cup {c}
       /\ \A i, j \in DOMAIN since' : since'[i] = since'[j] => i = j
  <2>1. CASE since' = since
    BY <2>1 DEF RecordedOnce
  <2>2. CASE since' = Append(since, c)
    <3>1. \A i \in DOMAIN since' : \/ i \in DOMAIN since /\ since'[i] = since[i]
                                   \/ i = Len(since) + 1 /\ since'[i] = c
      BY <1>2, <1>3, <2>2, AppendedElements
    <3>2. \A i \in DOMAIN since : since[i] # c
      BY <1>7 DEF Recorded, ToSet
    <3>3. ToSet(since') \subseteq ToSet(since) \cup {c}
      BY <3>1 DEF ToSet
    <3>4. QED BY <3>1, <3>2, <3>3 DEF RecordedOnce
  <2>3. QED BY <1>1, <2>1, <2>2
<1>12. Recorded' \subseteq Recorded \cup {c}
  BY <1>10, <1>11 DEF Recorded
<1>13. RecordedOnce'
  BY <1>1, <1>3, <1>6, <1>10, <1>11, <1>12 DEF RecordedOnce
<1>14. SpanInv'
  <2> SUFFICES ASSUME checkpoint # None PROVE SpanInv'
    BY <1>1 DEF SpanInv
  <2>1. since' = Append(since, c)
    BY <1>1
  <2>2. /\ since' # <<>> /\ Len(since') = Len(since) + 1 /\ since'[Len(since) + 1] = c
        /\ \A i \in 1..Len(since) : since'[i] = since[i]
        /\ Len(since) \in Nat /\ DOMAIN since' = 1..(Len(since) + 1) /\ DOMAIN since = 1..Len(since)
    BY <1>2, <1>3, <2>1
  <2>3. Aligned(records)'
    BY <1>1, <1>2, <1>3, <1>5, <2>1, RecordedAtTheEnd DEF SpanInv
  <2>4. checkpoint.after \in (Over' \ ToSet(since')) \cup {None}
    BY <1>6, <1>11 DEF SpanInv
  <2>5. checkpoint.resolved =>
          /\ until \in 0..Len(since')
          /\ checkpoint.before = IF until = 0 THEN checkpoint.after ELSE since'[until]
    <3> SUFFICES ASSUME checkpoint.resolved
                 PROVE  /\ until \in 0..Len(since')
                        /\ checkpoint.before = IF until = 0 THEN checkpoint.after ELSE since'[until]
      OBVIOUS
    <3>1. until \in 0..Len(since) /\ checkpoint.before = IF until = 0 THEN checkpoint.after ELSE since[until]
      BY DEF SpanInv
    <3>2. until # 0 => until \in 1..Len(since)
      BY <3>1
    <3>3. QED BY <2>2, <3>1, <3>2
  <2>6. ASSUME NEW x, NEW n \in 0..Len(since), Boundary(x, n)
        PROVE  Boundary(x, n)'
    <3>1. CASE x \in (Over \ Recorded) \cup {None}
      <4>1. x \in (Over' \ Recorded') \cup {None}
        BY <1>6, <1>12, <3>1
      <4>2. QED BY <4>1 DEF Boundary
    <3>2. CASE x \in Controls /\ Len(since) = n /\ x = c
      <4>1. n + 1 \in DOMAIN since' /\ since'[n + 1] = x
        BY <2>2, <3>2
      <4>2. QED BY <3>2, <4>1 DEF Boundary
    <3>3. CASE x \in Controls /\ n + 1 \in DOMAIN since /\ since[n + 1] = x
      <4>1. n + 1 \in DOMAIN since' /\ since'[n + 1] = x
        BY <2>2, <3>3
      <4>2. QED BY <3>3, <4>1 DEF Boundary
    <3>4. QED BY <1>1, <2>6, <3>1, <3>2, <3>3 DEF Boundary, c
  <2>7. ~ apart => /\ Boundary(checkpoint.start, 0)'
                   /\ checkpoint.resolved => Boundary(checkpoint.resolution, until)'
    <3>1. 0 \in 0..Len(since)
      BY <2>2
    <3>2. checkpoint.resolved => until \in 0..Len(since)
      BY DEF SpanInv
    <3>3. ~ apart => /\ Boundary(checkpoint.start, 0)
                     /\ checkpoint.resolved => Boundary(checkpoint.resolution, until)
      BY DEF SpanInv
    <3>4. QED BY <1>1, <2>6, <3>1, <3>2, <3>3
  <2>8. ~ checkpoint.resolved => until = None
    BY DEF SpanInv
  <2> HIDE DEF c
  <2>9. UNCHANGED <<checkpoint, until, apart>> /\ since' # <<>>
    BY <1>1, <2>2
  <2>10. QED BY <2>3, <2>4, <2>5, <2>7, <2>8, <2>9 DEF SpanInv
<1>15. QED BY <1>13, <1>14

\* Taking another frame.
LEMMA FrameKeepsSpan ==
  ASSUME IInv, RecordedOnce, SpanInv, StartCommand \/ FinishDiscarded \/ FinishUnknown
  PROVE  RecordedOnce' /\ SpanInv'
<1>1. /\ Shapes /\ FinishesOnce /\ inbox # <<>> /\ inbox' = Tail(inbox)
      /\ UNCHANGED <<running, drawn, records, checkpoint, since, until, apart>>
      /\ \/ Head(inbox).kind = "started" /\ started' = started \cup {Head(inbox).id}
         \/ Head(inbox).kind = "finished" /\ started' = started
  BY DEF IInv, RetainedInv, StartCommand, FinishDiscarded, FinishUnknown, prompt, history, ghosts
<1>2. /\ Finishing' \subseteq Finishing /\ Head(inbox).id \in drawn
      /\ Head(inbox).kind = "finished" => Head(inbox).id \in Finishing /\ Head(inbox).id \notin Finishing'
  BY <1>1, Taken
<1>3. /\ FramesInOrder' /\ Starting' \subseteq Starting
      /\ Head(inbox).kind = "started" => Head(inbox).id \in Starting
  BY <1>1, TakenInOrder DEF RecordedOnce
<1>4. Over \subseteq Over'
  BY <1>1, <1>2 DEF Over
<1>5. Head(inbox).kind = "finished" => Head(inbox).id \in Over'
  BY <1>1, <1>2, HistoryAssumption DEF Over, FinishesOnce, Shapes
<1>6. Recorded' = Recorded /\ Ids(records') \subseteq Ids(records)
  BY <1>1 DEF Recorded, Ids
<1>7. RecordedOnce'
  BY <1>1, <1>3, <1>4, <1>6 DEF RecordedOnce, NoIdTwice
<1>8. \A x \in Identifier : \A n : Boundary(x, n) => Boundary(x, n)'
  BY <1>1, <1>4, <1>5, <1>6, BoundariesStay
<1>9. Aligned(records)' <=> Aligned(records)
  BY <1>1 DEF Aligned
<1>10. SpanInv'
  BY <1>1, <1>4, <1>8, <1>9, SpanStays DEF SpanInv
<1>11. QED BY <1>7, <1>10

\* The tasks a finish leaves behind.
LEMMA TaskKeepsSpan ==
  ASSUME IInv, IInv', RecordedOnce, SpanInv,
         \/ \E c \in Commands : RecordSuccessGit(c)
         \/ \E j \in jobs, tail \in Tails : RecordScreenTail(j, tail)
         \/ \E j \in jobs : Analyze(j)
         \/ UNCHANGED vars
  PROVE  RecordedOnce' /\ SpanInv'
<1>1. /\ Shapes /\ FinishesOnce /\ records \in Seq(Record) /\ since \in Seq(Commands)
      /\ UNCHANGED <<running, drawn, inbox, started, checkpoint, since, until, apart>>
  BY DEF IInv, Shapes, RetainedInv, RecordSuccessGit, RecordScreenTail, Analyze, prompt, history,
     marks, ghosts, vars
<1>2. \/ records' = records
      \/ \E changed \in Seq(Record) :
           /\ Bounded(changed) /\ SameIds(changed, records)
           /\ Ids(changed) \subseteq Ids(records) /\ LastId(changed) = LastId(records)
           /\ records' = TrimContext(changed)
  BY TailsOwn DEF RecordSuccessGit, Analyze, history, vars
<1>3. /\ NoIdTwice(records)' /\ Ids(records') \subseteq Ids(records) /\ LastId(records') = LastId(records)
      /\ checkpoint # None => Aligned(records)'
  <2>1. CASE records' = records
    BY <1>1, <2>1 DEF RecordedOnce, NoIdTwice, SpanInv, Aligned
  <2>2. ASSUME NEW changed \in Seq(Record), Bounded(changed), SameIds(changed, records),
               Ids(changed) \subseteq Ids(records), LastId(changed) = LastId(records),
               records' = TrimContext(changed)
        PROVE  /\ NoIdTwice(records)' /\ Ids(records') \subseteq Ids(records)
               /\ LastId(records') = LastId(records)
               /\ checkpoint # None => Aligned(records)'
    <3>1. /\ DOMAIN changed = DOMAIN records /\ Len(changed) = Len(records)
          /\ \A i \in DOMAIN records : changed[i].id = records[i].id
          /\ Len(records) \in Nat /\ Len(since) \in Nat /\ DOMAIN records = 1..Len(records)
      BY <1>1, <2>2 DEF SameIds
    <3>2. NoIdTwice(changed)
      BY <3>1 DEF RecordedOnce, NoIdTwice
    <3>3. checkpoint # None => Aligned(changed)
      <4>1. Len(records) > Len(since) => Len(records) - Len(since) \in DOMAIN records
        BY <3>1
      <4>2. QED BY <3>1, <4>1 DEF SpanInv, Aligned
    <3>4. /\ records' \in Seq(Record) /\ IsEndOf(records', changed)
          /\ LastId(records') = LastId(changed)
      BY <2>2, TrimmedIsSuffix, Trimmed
    <3>5. /\ NoIdTwice(records') /\ Ids(records') \subseteq Ids(changed)
          /\ Aligned(changed) => Aligned(records')
      BY <1>1, <3>2, <3>4, SuffixIsAligned
    <3>6. checkpoint # None => Aligned(records)'
      BY <1>1, <3>3, <3>5 DEF Aligned
    <3>7. NoIdTwice(records)'
      BY <3>5 DEF NoIdTwice
    <3>8. QED BY <2>2, <3>4, <3>5, <3>6, <3>7
  <2>3. QED BY <1>2, <2>1, <2>2
<1>4. Over' = Over /\ Starting' = Starting /\ FramesInOrder' /\ Recorded' \subseteq Recorded
  BY <1>1, <1>3 DEF Over, Finishing, Starting, FramesInOrder, RecordedOnce, Recorded
<1>5. RecordedOnce'
  BY <1>1, <1>3, <1>4 DEF RecordedOnce
<1>6. \A c \in Identifier : \A n : Boundary(c, n) => Boundary(c, n)'
  BY <1>1, <1>3, <1>4, BoundariesStay
<1>7. SpanInv'
  BY <1>1, <1>3, <1>4, <1>6, SpanStays
<1>8. QED BY <1>5, <1>7

LEMMA SoleIsStarted ==
  SoleStarted = None \/ SoleStarted \in started
<1>1. CASE Cardinality(started) = 1
  <2>1. started # {}
    BY <1>1, FS_EmptySet
  <2>2. QED BY <1>1, <2>1 DEF SoleStarted
<1>2. QED BY <1>1 DEF SoleStarted

\* A request of the command at the prompt, whose frames were all taken: of the commands the
\* daemon has seen start, only this one has yet to finish.
LEMMA AskedInOrder ==
  ASSUME IInv, RecordedOnce, Asks, ~ OutOfOrder,
         UNCHANGED <<running, drawn, inbox, records>>,
         ToSet(since') \subseteq ToSet(since), NEW n, Len(since') = n,
         NEW c \in started \cup {None}
  PROVE  Boundary(c, n)'
<1>1. inbox = <<>> /\ running \in Controls
  BY DEF Asks, OutOfOrder
<1>2. Recorded' \subseteq Recorded /\ Over' = Over /\ Finishing = {}
  BY <1>1 DEF Recorded, Ids, Over, Finishing
<1>3. c # None /\ c # running => c \in Over' \ Recorded'
  BY <1>2 DEF RecordedOnce, Over, IInv, RetainedInv, FinishesOnce
<1>4. \/ c \in (Over' \ Recorded') \cup {None}
      \/ c \in Controls /\ Len(since') = n /\ inbox' = <<>> /\ running' = c
  BY <1>1, <1>3
<1>5. QED BY <1>4 DEF Boundary

\* Requests about the checkpoint.
LEMMA CheckpointKeepsSpan ==
  ASSUME IInv, RecordedOnce, SpanInv, CheckpointRequest
  PROVE  RecordedOnce' /\ SpanInv'
<1>1. /\ Shapes /\ FinishesOnce /\ LatestIsKept /\ records \in Seq(Record) /\ since \in Seq(Commands)
      /\ UNCHANGED <<running, drawn, inbox, started, records>> /\ Asks
      /\ since' = since \/ since' = <<>>
  BY DEF IInv, Shapes, RetainedInv, CheckpointRequest, StartCheckpoint, ResolveCheckpoint,
     ClearCheckpoint
<1>2. /\ ToSet(<<>>) = {} /\ Len(<<>>) = 0 /\ DOMAIN <<>> = {}
      /\ Len(records) \in Nat /\ Len(since) \in Nat
  BY <1>1 DEF ToSet
<1>3. /\ Over' = Over /\ Starting' = Starting /\ FramesInOrder' /\ Recorded' \subseteq Recorded
      /\ ToSet(since') \subseteq ToSet(since)
  BY <1>1, <1>2 DEF Over, Finishing, Starting, FramesInOrder, RecordedOnce, Recorded, Ids
<1>4. RecordedOnce'
  BY <1>1, <1>2, <1>3 DEF RecordedOnce, NoIdTwice
<1>5. SoleStarted \in started \cup {None} /\ LastId(records) \in Identifier
  BY <1>1, SoleIsStarted, Boundaries
<1>6. CASE StartCheckpoint
  <2>1. /\ since' = <<>> /\ until' = None /\ apart' = OutOfOrder
        /\ checkpoint' = [start |-> SoleStarted, after |-> LastId(records), resolved |-> FALSE,
                          resolution |-> None, before |-> None]
    BY <1>6 DEF StartCheckpoint
  <2>2. checkpoint'.start = SoleStarted /\ checkpoint'.after = LastId(records) /\ ~ checkpoint'.resolved
    BY <2>1
  <2>3. ~ apart' => Boundary(checkpoint.start, 0)'
    <3>1. Len(since') = 0
      BY <1>2, <2>1
    <3>2. ~ apart' => ~ OutOfOrder
      BY <2>1
    <3>3. PICK c \in started \cup {None} : c = SoleStarted
      BY <1>5
    <3>4. ~ OutOfOrder => Boundary(c, 0)'
      BY <1>1, <1>3, <3>1, AskedInOrder
    <3>5. checkpoint'.start = c
      BY <2>2, <3>3
    <3>6. QED BY <3>2, <3>4, <3>5 DEF Boundary
  <2>4. LastId(records) # None => LastId(records) \in Ids(records)
    <3>1. records # <<>> => Len(records) \in DOMAIN records
      BY <1>1
    <3>2. QED BY <3>1 DEF LastId, Last, Ids
  <2>5. checkpoint'.after \in (Over' \ ToSet(since')) \cup {None}
    BY <1>2, <1>3, <2>1, <2>2, <2>4 DEF RecordedOnce, Recorded
  <2>6. Aligned(records)'
    <3>1. Len(since') = 0
      BY <1>2, <2>1
    <3>2. Len(records') > 0 => records'[Len(records')].id = checkpoint'.after
      BY <1>1, <2>2 DEF LastId, Last
    <3>3. /\ \A i \in DOMAIN records' : ~ (i > Len(records') - Len(since'))
          /\ Len(records') - Len(since') = Len(records')
      BY <1>1, <3>1
    <3>4. QED BY <3>1, <3>2, <3>3 DEF Aligned
  <2>7. LastId(records') = checkpoint'.after
    BY <1>1, <2>2
  <2>8. SpanInv'
    BY <2>1, <2>2, <2>3, <2>5, <2>6, <2>7 DEF SpanInv
  <2>9. QED BY <1>4, <2>8
<1>7. CASE ResolveCheckpoint
  <2>1. /\ checkpoint # None /\ since' = since /\ until' = Len(since)
        /\ apart' = (apart \/ OutOfOrder)
        /\ checkpoint' = [checkpoint EXCEPT !.resolved = TRUE, !.resolution = SoleStarted,
                                            !.before = LastId(records)]
    BY <1>7 DEF ResolveCheckpoint
  <2>2. checkpoint \in Checkpoint
    BY <1>1, <2>1 DEF Shapes
  <2>3. /\ checkpoint'.start = checkpoint.start /\ checkpoint'.after = checkpoint.after
        /\ checkpoint'.resolved /\ checkpoint'.resolution = SoleStarted
        /\ checkpoint'.before = LastId(records) /\ checkpoint.start \in Identifier
    BY <2>1, <2>2 DEF Checkpoint
  <2>4. /\ Aligned(records) /\ checkpoint.after \in (Over \ ToSet(since)) \cup {None}
        /\ since = <<>> => LastId(records) = checkpoint.after
        /\ ~ apart => Boundary(checkpoint.start, 0)
    BY <2>1 DEF SpanInv
  <2>5. Aligned(records)'
    BY <1>1, <2>1, <2>3, <2>4 DEF Aligned
  <2>6. checkpoint'.before = IF until' = 0 THEN checkpoint'.after ELSE since'[until']
    <3>1. CASE since = <<>>
      BY <1>2, <2>1, <2>3, <2>4, <3>1
    <3>2. CASE since # <<>>
      <4>1. LastId(records) = since[Len(since)] /\ Len(since) # 0
        BY <1>1, <3>2 DEF LatestIsKept, Last
      <4>2. QED BY <2>1, <2>3, <4>1
    <3>3. QED BY <3>1, <3>2
  <2>7. ~ apart' => /\ Boundary(checkpoint.start, 0)'
                    /\ Boundary(checkpoint.resolution, until)'
    <3>1. ~ apart' => ~ apart /\ ~ OutOfOrder
      BY <2>1
    <3>2. PICK s \in Identifier, c \in started \cup {None}, n \in Nat :
            /\ s = checkpoint.start /\ c = SoleStarted /\ n = Len(since)
      BY <1>2, <1>5, <2>3
    <3>3. /\ ~ apart => Boundary(s, 0)
          /\ checkpoint'.start = s /\ checkpoint'.resolution = c /\ Len(since') = n /\ until' = n
      BY <2>1, <2>3, <2>4, <3>2
    <3>4. UNCHANGED since /\ UNCHANGED <<inbox, running>>
          /\ Ids(records') \subseteq Ids(records) /\ Over \subseteq Over'
      BY <1>1, <1>3, <2>1 DEF Ids
    <3>5. ~ apart => Boundary(s, 0)'
      BY <1>1, <3>3, <3>4, BoundariesStay
    <3>6. ~ OutOfOrder => Boundary(c, n)'
      BY <1>1, <1>3, <3>3, AskedInOrder
    <3>7. QED BY <3>1, <3>3, <3>5, <3>6 DEF Boundary
  <2>8. until' \in 0..Len(since')
    BY <1>2, <2>1
  <2>9. LastId(records') = LastId(records)
    BY <1>1
  <2>10. SpanInv'
    BY <1>3, <2>1, <2>3, <2>4, <2>5, <2>6, <2>7, <2>8, <2>9 DEF SpanInv
  <2>11. QED BY <1>4, <2>10
<1>8. CASE ClearCheckpoint
  BY <1>4, <1>8 DEF ClearCheckpoint, SpanInv
<1>9. QED BY <1>6, <1>7, <1>8 DEF CheckpointRequest

LEMMA EraseKeepsSpan ==
  ASSUME IInv, RecordedOnce, DataRequest
  PROVE  RecordedOnce' /\ SpanInv'
<1>1. /\ started' = {} /\ records' = <<>> /\ checkpoint' = None /\ since' = <<>>
      /\ UNCHANGED <<running, drawn, inbox>>
  BY DEF DataRequest, ClearSessionData
<1>2. DOMAIN <<>> = {}
  OBVIOUS
<1>3. Recorded' = {} /\ FramesInOrder'
  BY <1>1, <1>2 DEF Recorded, Ids, ToSet, FramesInOrder, RecordedOnce
<1>4. QED BY <1>1, <1>2, <1>3 DEF RecordedOnce, NoIdTwice, SpanInv

LEMMA SpanBegins == Init => RecordedOnce /\ SpanInv
<1>1. DOMAIN <<>> = {}
  OBVIOUS
<1>2. QED BY <1>1 DEF Init, RecordedOnce, Recorded, Ids, ToSet, NoIdTwice, FramesInOrder, SpanInv

LEMMA SpanStep ==
  ASSUME IInv, IInv', RecordedOnce, SpanInv, [Next]_vars
  PROVE  RecordedOnce' /\ SpanInv'
BY ShellKeepsSpan, FinishKeepsSpan, FrameKeepsSpan, TaskKeepsSpan, CheckpointKeepsSpan,
   EraseKeepsSpan DEF Next, FrameSteps

\* What was recorded since a checkpoint, its order and its ends are what the daemon's
\* checkpoint says, in every reachable state.
THEOREM SpansAreKept == Spec => [](IInv /\ RecordedOnce /\ SpanInv)
<1>1. IInv /\ RecordedOnce /\ SpanInv /\ [Next]_vars => (IInv /\ RecordedOnce /\ SpanInv)'
  BY StepHolds, SpanStep
<1>2. QED BY <1>1, InitHolds, SpanBegins, PTL DEF Spec

LEMMA SpanIsCapsule ==
  ASSUME IInv, RecordedOnce, SpanInv
  PROVE  CapsuleIsTheSpan
<1> SUFFICES ASSUME checkpoint # None, ~ apart, NEW n \in 1..MaxCommands
             PROVE  /\ Ids(Capsule(n)) \ Controls =
                        (Ids(Context(n))
                          \cap {since[i] : i \in 1..(IF until = None THEN Len(since) ELSE until)})
                        \ Controls
                    /\ \A i, j \in DOMAIN Capsule(n) :
                         Capsule(n)[i].id = Capsule(n)[j].id => i = j
  BY DEF CapsuleIsTheSpan
<1> DEFINE u == IF until = None THEN Len(since) ELSE until
           seq == Context(n)
           from == SpanStart(seq)
           to == SpanEnd(seq)
<1>1. /\ Shapes /\ records \in Seq(Record) /\ since \in Seq(Commands) /\ NoIdTwice(records)
      /\ Aligned(records) /\ MaxCommands \in Nat
  BY HistoryAssumption DEF IInv, Shapes, RecordedOnce, SpanInv
<1>2. u \in 0..Len(since)
  <2>1. Len(since) \in 0..Len(since)
    BY <1>1
  <2>2. QED BY <2>1 DEF SpanInv
<1>3. seq \in Seq(Record) /\ IsEndOf(seq, records)
  <2> DEFINE m == Minus(Len(records), n)
  <2>1. m \in 0..Len(records)
    BY <1>1 DEF Minus
  <2>2. seq = SubSeq(records, m + 1, Len(records))
    BY DEF Context
  <2> HIDE DEF m, seq
  <2>3. seq \in Seq(Record) /\ Len(seq) = Len(records) - m /\ \A i \in DOMAIN seq : seq[i] = records[m + i]
    BY <1>1, <2>1, <2>2
  <2>4. QED BY <2>1, <2>3 DEF IsEndOf
<1> HIDE DEF seq, u
<1>4. NoIdTwice(seq) /\ Ids(seq) \subseteq Ids(records) /\ Aligned(seq)
  BY <1>1, <1>3, SuffixIsAligned
<1>5. /\ from \in 0..Len(seq) /\ to \in 0..Len(seq)
      /\ \A i \in DOMAIN seq : seq[i].id \notin Controls =>
           (from < i /\ i <= to <=> seq[i].id \in {since[j] : j \in 1..u})
  BY <1>1, <1>2, <1>3, <1>4, SpanIsWhatWasRecorded DEF u
<1> HIDE DEF from, to
<1> DEFINE part == SubSeq(seq, from + 1, to)
<1>6. Capsule(n) = part
  BY DEF Capsule, seq, from, to
<1>7. /\ DOMAIN seq = 1..Len(seq) /\ Len(seq) \in Nat
      /\ \A i \in DOMAIN part : i \in Nat /\ from + i \in DOMAIN seq /\ from < from + i /\ from + i <= to
                                /\ part[i] = seq[from + i]
      /\ \A m \in DOMAIN seq : from < m /\ m <= to => m - from \in DOMAIN part /\ from + (m - from) = m
  <2>1. /\ DOMAIN seq = 1..Len(seq) /\ Len(seq) \in Nat
        /\ from \in Nat /\ from <= Len(seq) /\ to \in Nat /\ to <= Len(seq)
    BY <1>3, <1>5
  <2>2. \A i \in (from + 1)..to : seq[i] \in Record
    BY <1>3, <2>1
  <2>3. /\ part \in Seq(Record)
        /\ Len(part) = IF from + 1 <= to THEN to - (from + 1) + 1 ELSE 0
        /\ \A i \in 1..(to - (from + 1) + 1) : part[i] = seq[from + 1 + i - 1]
    BY <2>1, <2>2, SubSeqProperties
  <2> HIDE DEF part
  <2>4. DOMAIN part = IF from < to THEN 1..(to - from) ELSE {}
    BY <2>1, <2>3
  <2>5. \A i \in DOMAIN part : part[i] = seq[from + i]
    BY <2>1, <2>3, <2>4
  <2>6. QED BY <2>1, <2>4, <2>5
<1> HIDE DEF part
<1>8. Ids(part) \ Controls = (Ids(seq) \cap {since[i] : i \in 1..u}) \ Controls
  <2>1. ASSUME NEW c \in Ids(part), c \notin Controls
        PROVE  c \in Ids(seq) /\ c \in {since[i] : i \in 1..u}
    <3>1. PICK i \in DOMAIN part : part[i].id = c
      BY DEF Ids
    <3>2. from + i \in DOMAIN seq /\ seq[from + i].id = c /\ from < from + i /\ from + i <= to
      BY <1>7, <3>1
    <3>3. QED BY <1>5, <2>1, <3>2 DEF Ids
  <2>2. ASSUME NEW c \in Ids(seq), c \in {since[i] : i \in 1..u}, c \notin Controls
        PROVE  c \in Ids(part)
    <3>1. PICK m \in DOMAIN seq : seq[m].id = c
      BY DEF Ids
    <3>2. from < m /\ m <= to
      BY <1>5, <2>2, <3>1
    <3>3. m - from \in DOMAIN part /\ part[m - from] = seq[m]
      BY <1>7, <3>2
    <3>4. QED BY <3>1, <3>3 DEF Ids
  <2>3. QED BY <2>1, <2>2
<1>9. ASSUME NEW i \in DOMAIN part, NEW j \in DOMAIN part, part[i].id = part[j].id
      PROVE  i = j
  <2>1. from + i = from + j
    BY <1>4, <1>7, <1>9 DEF NoIdTwice
  <2>2. from \in Nat
    BY <1>3, <1>5
  <2>3. QED BY <1>7, <2>1, <2>2
<1>10. QED BY <1>6, <1>8, <1>9 DEF seq, u

\* However many commands are retained, exported and trimmed, the capsule of a checkpoint that
\* was asked for in order is the span between its start and its last resolution.
THEOREM CapsulesAreSpans == Spec => []CapsuleIsTheSpan
<1>1. IInv /\ RecordedOnce /\ SpanInv => CapsuleIsTheSpan
  BY SpanIsCapsule
<1>2. QED BY <1>1, SpansAreKept, PTL

-----------------------------------------------------------------------------
(***************************************************************************)
(* EnvironmentDrift for any places, environments and number of commands:   *)
(* who fails where the last command succeeded, with nothing changed, is    *)
(* told of no other branch, and of another repository only when Git failed *)
(* in it for one of the two probes.                                        *)
(*                                                                         *)
(* A report compares a baseline taken along earlier with a probe made      *)
(* later. The invariant says of every baseline, the latest one and those   *)
(* that reports hold, that it tells what is there unless its repository    *)
(* was changed since or Git failed in it (TellsWhatIs); and that a probe   *)
(* which may still complete the latest baseline asks about its directory.  *)
(***************************************************************************)

Baselines == [id : Nat, cwd : Places, venv : Venvs, observed : BOOLEAN,
              git : Heads \cup {"none"}, missed : BOOLEAN, touched : SUBSET Places]

\* What is recorded of a place that has `head`.
Told(head, observed, found, missed) ==
  observed => found = IF missed THEN "none" ELSE head

\* A baseline that was observed in a repository nobody changed since tells what is there,
\* or nothing if Git failed.
TellsWhatIs(b) == b.cwd \notin b.touched => Told(git[b.cwd], b.observed, b.git, b.missed)

DriftTypes ==
  /\ shell \in [cwd : Places, venv : Venvs]
  /\ git \in [Places -> Heads]
  /\ ended \in Nat
  /\ last = Nothing \/ \E b \in Baselines : last = <<b>>
  /\ \A p \in looks : p.id \in Nat /\ p.id <= ended
  /\ \A j \in reports : j.before \in Baselines
  /\ last # Nothing => last[1].id <= ended

BaselinesAreTrue ==
  /\ last # Nothing => TellsWhatIs(last[1])
  /\ \A j \in reports : TellsWhatIs(j.before)
  \* The probe that may still complete the baseline asks about its directory.
  /\ \A p \in looks : last # Nothing /\ last[1].id = p.id => p.cwd = last[1].cwd

DriftInv == DriftTypes /\ BaselinesAreTrue /\ NoFalseAlarm

LEMMA DriftBegins == DriftInit => DriftInv
BY DEF DriftInit, DriftInv, DriftTypes, BaselinesAreTrue, NoFalseAlarm, Nothing

\* A sequence of one is its element's, and not the empty one.
LEMMA OneBaseline == \A b : <<b>>[1] = b /\ <<b>> # Nothing
BY DEF Nothing

\* What a probe finds is what is there, or nothing.
LEMMA ProbeTells ==
  ASSUME NEW p, NEW found \in Probed(p)
  PROVE  /\ found.git \in {git[p], "none"}
         /\ found.observed \in BOOLEAN /\ found.missed \in BOOLEAN
         /\ Told(git[p], found.observed, found.git, found.missed)
<1>1. CASE found = [observed |-> FALSE, git |-> "none", missed |-> FALSE]
  BY <1>1 DEF Told
<1>2. CASE found = [observed |-> TRUE, git |-> git[p], missed |-> FALSE]
  BY <1>2 DEF Told
<1>3. CASE found = [observed |-> TRUE, git |-> "none", missed |-> git[p] # "none"]
  <2>1. found.missed = (git[p] # "none") /\ found.git = "none" /\ found.observed = TRUE
    BY <1>3
  <2>2. CASE git[p] = "none"
    BY <2>1, <2>2 DEF Told
  <2>3. CASE git[p] # "none"
    BY <2>1, <2>3 DEF Told
  <2> QED
    BY <2>2, <2>3
<1> QED
  BY <1>1, <1>2, <1>3 DEF Probed

LEMMA DriftStep == DriftInv /\ [DriftNext]_driftVars => DriftInv'
<1> SUFFICES ASSUME DriftInv, [DriftNext]_driftVars PROVE DriftInv'
  OBVIOUS
<1>0. DriftTypes /\ BaselinesAreTrue /\ NoFalseAlarm
  BY DEF DriftInv
<1>1. CASE UNCHANGED driftVars
  BY <1>0, <1>1 DEF driftVars, DriftInv, DriftTypes, BaselinesAreTrue, TellsWhatIs, Told, NoFalseAlarm
\* A success is a new baseline, of which Git has told nothing yet.
<1>2. CASE Succeed
  <2> DEFINE b == [id |-> ended', cwd |-> shell.cwd, venv |-> shell.venv, observed |-> FALSE,
                   git |-> "none", missed |-> FALSE, touched |-> {}]
  <2>1. /\ ended' = ended + 1 /\ last' = <<b>> /\ hint' = Nothing /\ UNCHANGED <<shell, git, reports>>
        /\ looks' = looks \cup {[id |-> ended', cwd |-> shell.cwd]}
    BY <1>2 DEF Succeed
  <2>2. /\ b \in Baselines /\ b.id = ended' /\ b.cwd = shell.cwd /\ ~b.observed
        /\ ended' \in Nat
    BY <1>0, <2>1 DEF DriftTypes, Baselines
  <2>3. last' # Nothing /\ last'[1] = b
    BY <2>1, OneBaseline
  <2> HIDE DEF b
  <2>4. \A p \in looks' : p.id \in Nat /\ p.id <= ended' /\ (p.id = ended' => p.cwd = shell.cwd)
    BY <1>0, <2>1, <2>2 DEF DriftTypes
  <2>5. DriftTypes'
    BY <1>0, <2>1, <2>2, <2>3, <2>4 DEF DriftTypes
  <2>6. BaselinesAreTrue'
    BY <1>0, <2>1, <2>2, <2>3, <2>4 DEF BaselinesAreTrue, TellsWhatIs, Told
  <2> QED
    BY <2>1, <2>5, <2>6 DEF DriftInv, NoFalseAlarm
<1>3. CASE FailCommand
  <2>1. /\ ended' = ended + 1 /\ hint' = Nothing /\ UNCHANGED <<shell, git, last, looks>>
        /\ \A j \in reports' : j \in reports \/ (last # Nothing /\ j.before = last[1])
    BY <1>3 DEF FailCommand
  <2>2. last # Nothing => last[1] \in Baselines
    BY <1>0, OneBaseline DEF DriftTypes
  <2>3. DriftTypes'
    BY <1>0, <2>1, <2>2 DEF DriftTypes, Baselines
  <2>4. BaselinesAreTrue'
    BY <1>0, <2>1 DEF BaselinesAreTrue, TellsWhatIs, Told
  <2> QED
    BY <2>1, <2>3, <2>4 DEF DriftInv, NoFalseAlarm
\* What a probe finds is recorded in the baseline it was started for.
<1>4. ASSUME NEW p \in looks, RecordGit(p) PROVE DriftInv'
  <2>1. /\ looks' = looks \ {p} /\ hint' = Nothing /\ UNCHANGED <<shell, git, ended, reports>>
        /\ p.id \in Nat /\ p.id <= ended
    BY <1>0, <1>4 DEF RecordGit, DriftTypes
  <2>2. PICK found \in Probed(p.cwd) :
          last' = IF IsLatest(p.id)
                  THEN <<[last[1] EXCEPT !.observed = found.observed, !.git = found.git,
                                         !.missed = found.missed]>> ELSE last
    BY <1>4 DEF RecordGit
  <2>3. CASE ~IsLatest(p.id)
    <3>1. last' = last
      BY <2>2, <2>3
    <3> QED
      BY <1>0, <2>1, <3>1 DEF DriftInv, DriftTypes, BaselinesAreTrue, TellsWhatIs, Told, NoFalseAlarm
  <2>4. CASE IsLatest(p.id)
    <3> DEFINE b == [last[1] EXCEPT !.observed = found.observed, !.git = found.git,
                                    !.missed = found.missed]
    <3>1. last # Nothing /\ last[1] \in Baselines /\ last[1].cwd = p.cwd /\ last[1].id = p.id
      BY <1>0, <2>4, OneBaseline DEF IsLatest, DriftTypes, BaselinesAreTrue
    <3>2. /\ found.git \in Heads \cup {"none"} /\ found.observed \in BOOLEAN
          /\ found.missed \in BOOLEAN
          /\ Told(git[p.cwd], found.observed, found.git, found.missed)
      <4>1. p.cwd \in Places /\ git[p.cwd] \in Heads
        BY <1>0, <3>1 DEF DriftTypes, Baselines
      <4> QED
        BY <2>2, <4>1, ProbeTells
    <3>3. /\ b \in Baselines /\ b.id = p.id /\ b.cwd = p.cwd /\ b.git = found.git
          /\ b.observed = found.observed /\ b.missed = found.missed
      BY <3>1, <3>2 DEF Baselines
    <3>4. last' # Nothing /\ last'[1] = b /\ last' = <<b>>
      BY <2>2, <2>4, OneBaseline
    <3> HIDE DEF b
    <3>5. DriftTypes'
      BY <1>0, <2>1, <3>3, <3>4 DEF DriftTypes
    <3>6. Told(git[b.cwd], b.observed, b.git, b.missed)
      BY <3>2, <3>3
    <3>7. BaselinesAreTrue'
      BY <1>0, <2>1, <3>1, <3>3, <3>4, <3>6 DEF BaselinesAreTrue, TellsWhatIs, Told
    <3> QED
      BY <2>1, <3>5, <3>7 DEF DriftInv, NoFalseAlarm
  <2> QED
    BY <2>3, <2>4
\* Where nothing was touched, what both probes saw is the same if Git failed in neither
\* or in both.
<1>5. ASSUME NEW j \in reports, SendDrift(j) PROVE DriftInv'
  <2>1. reports' = reports \ {j} /\ UNCHANGED <<shell, git, ended, last, looks>>
    BY <1>5 DEF SendDrift
  <2>2. PICK found \in Probed(j.cwd) :
          hint' = IF Drift(j.before, Now(j, found)) = {} THEN Nothing
                  ELSE <<[report |-> Drift(j.before, Now(j, found)), before |-> j.before,
                          now |-> Now(j, found)]>>
    BY <1>5 DEF SendDrift
  <2> DEFINE now == Now(j, found)
             sent == [report |-> Drift(j.before, now), before |-> j.before, now |-> now]
  <2>3. /\ now.cwd = j.cwd /\ now.observed = found.observed /\ now.git = found.git
        /\ now.missed = found.missed
    BY DEF Now
  <2>4. Told(git[now.cwd], now.observed, now.git, now.missed)
    BY <2>2, <2>3, ProbeTells
  <2>5. TellsWhatIs(j.before) /\ j.before \in Baselines
    BY <1>0 DEF BaselinesAreTrue, DriftTypes
  <2> HIDE DEF now
  <2>6. ASSUME j.before.cwd = now.cwd, now.cwd \notin j.before.touched, MayCompare(j.before, now.observed)
        PROVE  /\ j.before.git # "none" /\ now.git # "none" => j.before.git = now.git
               /\ j.before.missed = now.missed => j.before.git = now.git
    BY <2>4, <2>5, <2>6 DEF MayCompare, TellsWhatIs, Told
  <2>7. /\ "branch" \in Drift(j.before, now) => now.cwd \in j.before.touched
        /\ "repository" \in Drift(j.before, now) =>
             \/ j.before.cwd # now.cwd \/ now.cwd \in j.before.touched
             \/ j.before.missed # now.missed
    <3>1. "branch" \in Drift(j.before, now) =>
            /\ MayCompare(j.before, now.observed) /\ j.before.git # now.git
            /\ (j.before.git # "none") = (now.git # "none")
            /\ j.before.git # "none" => j.before.cwd = now.cwd
      BY DEF Drift
    <3>2. "repository" \in Drift(j.before, now) =>
            /\ MayCompare(j.before, now.observed)
            /\ (j.before.git # "none") # (now.git # "none") \/ j.before.cwd # now.cwd
      BY DEF Drift
    <3> QED
      BY <2>6, <3>1, <3>2
  <2>9. NoFalseAlarm'
    <3>1. CASE hint' = Nothing
      BY <3>1 DEF NoFalseAlarm
    <3>2. CASE hint' = <<sent>> /\ Drift(j.before, now) # {}
      <4>1. /\ hint'[1].before = j.before /\ hint'[1].now = now
            /\ hint'[1].report = Drift(j.before, now)
        BY <3>2, OneBaseline
      <4> QED
        BY <2>7, <4>1 DEF NoFalseAlarm
    <3> QED
      BY <2>2, <3>1, <3>2 DEF now
  <2>8. DriftTypes' /\ BaselinesAreTrue'
    BY <1>0, <2>1 DEF DriftTypes, BaselinesAreTrue, TellsWhatIs, Told
  <2> QED
    BY <2>8, <2>9 DEF DriftInv
<1>6. CASE Move
  BY <1>0, <1>6 DEF Move, DriftInv, DriftTypes, BaselinesAreTrue, TellsWhatIs, Told, NoFalseAlarm
<1>7. ASSUME NEW p \in Places, Rework(p) PROVE DriftInv'
  <2>1. /\ last' = IF last = Nothing THEN Nothing ELSE <<Touched(last[1], p)>>
        /\ reports' = {[j EXCEPT !.before = Touched(j.before, p)] : j \in reports}
        /\ hint' = Nothing /\ UNCHANGED <<shell, ended, looks>>
        /\ \E head \in Heads : git' = [git EXCEPT ![p] = head]
    BY <1>7 DEF Rework
  <2>2. ASSUME NEW b \in Baselines
        PROVE  /\ Touched(b, p) \in Baselines /\ Touched(b, p).id = b.id /\ Touched(b, p).cwd = b.cwd
               /\ TellsWhatIs(b) => TellsWhatIs(Touched(b, p))'
    <3>1. /\ Touched(b, p) \in Baselines /\ Touched(b, p).id = b.id /\ Touched(b, p).cwd = b.cwd
          /\ Touched(b, p).git = b.git /\ Touched(b, p).touched = b.touched \cup {p}
          /\ Touched(b, p).observed = b.observed /\ Touched(b, p).missed = b.missed
      BY DEF Touched, Baselines
    <3>2. b.cwd # p => git'[b.cwd] = git[b.cwd]
      BY <1>0, <2>1 DEF DriftTypes, Baselines
    <3> QED
      BY <3>1, <3>2 DEF TellsWhatIs, Told
  <2>3. git' \in [Places -> Heads]
    BY <1>0, <2>1 DEF DriftTypes
  <2>4. \A k \in reports' : k.before \in Baselines /\ TellsWhatIs(k.before)'
    <3> SUFFICES ASSUME NEW j \in reports
                 PROVE  LET k == [j EXCEPT !.before = Touched(j.before, p)]
                        IN  k.before \in Baselines /\ TellsWhatIs(k.before)'
      BY <2>1
    <3>1. [j EXCEPT !.before = Touched(j.before, p)].before = Touched(j.before, p)
      OBVIOUS
    <3> QED
      BY <1>0, <2>2, <3>1 DEF DriftTypes, BaselinesAreTrue
  <2>5. CASE last = Nothing
    <3>1. last' = Nothing
      BY <2>1, <2>5
    <3> QED
      BY <1>0, <2>1, <2>3, <2>4, <3>1 DEF DriftInv, DriftTypes, BaselinesAreTrue, NoFalseAlarm
  <2>6. CASE last # Nothing
    <3>1. last[1] \in Baselines
      BY <1>0, <2>6, OneBaseline DEF DriftTypes
    <3>2. last' = <<Touched(last[1], p)>> /\ last'[1] = Touched(last[1], p) /\ last' # Nothing
      BY <2>1, <2>6, OneBaseline
    <3>3. DriftTypes'
      BY <1>0, <2>1, <2>2, <2>3, <2>4, <2>6, <3>1, <3>2 DEF DriftTypes
    <3>4. BaselinesAreTrue'
      BY <1>0, <2>1, <2>2, <2>4, <2>6, <3>1, <3>2 DEF BaselinesAreTrue
    <3> QED
      BY <2>1, <3>3, <3>4 DEF DriftInv, NoFalseAlarm
  <2> QED
    BY <2>5, <2>6
<1>8. CASE Erase
  BY <1>0, <1>8 DEF Erase, DriftInv, DriftTypes, BaselinesAreTrue, TellsWhatIs, Told, NoFalseAlarm
<1> QED
  BY <1>1, <1>2, <1>3, <1>4, <1>5, <1>6, <1>7, <1>8 DEF DriftNext

\* The baselines of successes are true in every reachable state.
THEOREM BaselinesAreKept == DriftSpec => []DriftInv
BY DriftBegins, DriftStep, PTL DEF DriftSpec

\* For any directories, branches and environments, and any number of commands: who fails where
\* the last command succeeded, with nothing changed, is told of no other branch, and of another
\* repository only if Git failed in it for one of the two probes
\* (collect_and_send_environment_drift, EnvironmentDriftReport::between).
THEOREM AlarmsAreTrue == DriftSpec => []NoFalseAlarm
<1>1. DriftInv => NoFalseAlarm
  BY DEF DriftInv
<1> QED
  BY BaselinesAreKept, <1>1, PTL
=============================================================================

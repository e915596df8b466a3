---------------------------- MODULE ChatProviderProofs ----------------------------
(***************************************************************************)
(* For every set of calls, limits and answers: the types of ChatProvider,  *)
(* the bound max_concurrency puts on the wire, and that a caller reads of  *)
(* a streamed answer what was in it.  For every set of texts and rules:    *)
(* what CommandProposals makes of a line is what was reviewed, labels are  *)
(* of the line they are shown with, and a patch is the change it explains. *)
(*                                                                         *)
(* What a caller has read is the text of the first k events of its answer, *)
(* and the decoder holds the others.  A completion on its way gives what   *)
(* was assessed when it is applied to the line it was asked for, and that  *)
(* line is kept as long as the completion is awaited.                      *)
(***************************************************************************)
EXTENDS ChatProvider, CommandProposals,
        FiniteSetTheorems, SequenceTheorems, WellFoundedInduction, TLAPS

NotBegun == {"idle", "queued", "sending", "backoff", "reading"}
Untold == Texts \cup Errors
Decoded == Events \cup {"cut"}
Heard == Untold \cup {"end"}
Outcomes == Errors \cup {"none", "ok", "gone"}
CallTypes ==
  /\ phase \in [Requests -> Phases] /\ holders \subseteq Requests /\ open \subseteq Requests
  /\ retries \in [Requests -> 0..MaxRetries] /\ posts \in [Requests -> Nat]
  /\ answer \in [Requests -> Bodies]
  /\ rest \in [Requests -> Seq(Events)]
  /\ batch \in [Requests -> Seq(Decoded)]
  /\ channel \in [Requests -> Seq(Untold)]
  /\ heard \in [Requests -> Seq(Heard)]
  /\ result \in [Requests -> Outcomes]
  /\ \A r \in Requests : Len(channel[r]) <= Capacity
FailuresAreNamed == \A r \in Requests : phase[r] = "failing" => result[r] \in Errors
PostsAreCounted ==
  \A r \in Requests :
    /\ posts[r] <= retries[r] + 1
    /\ phase[r] \in {"idle", "queued", "sending", "backoff"} => posts[r] = retries[r]
QueueIsOfTheQueued ==
  /\ queue \in Seq(Requests)
  /\ \A i, j \in DOMAIN queue : queue[i] = queue[j] => i = j
  /\ \A r \in Requests : phase[r] = "queued" <=> \E i \in DOMAIN queue : queue[i] = r
PermitsAreOfTheWorking ==
  /\ holders = {r \in Requests : phase[r] \in Working}
  /\ IsFiniteSet(holders) /\ Cardinality(holders) <= MaxConcurrency
Items(r) == heard[r] \o channel[r]
Read(r, k) ==
  LET events == answer[r].events
  IN  /\ k \in 0..Len(events) /\ \A i \in 1..k : events[i] # "done"
      /\ TextOf(Items(r)) = TextOf(SubSeq(events, 1, k))
Ahead(r, k) ==
  LET left == Len(answer[r].events) - k
  IN  \/ /\ Len(batch[r]) + Len(rest[r]) = left
         /\ \A i \in 1..Len(batch[r]) : batch[r][i] = answer[r].events[k + i]
         /\ \A i \in 1..Len(rest[r]) : rest[r][i] = answer[r].events[k + Len(batch[r]) + i]
      \/ /\ rest[r] = <<>> /\ Len(batch[r]) = left + 1 /\ batch[r][left + 1] = "cut"
         /\ \A i \in 1..left : batch[r][i] = answer[r].events[k + i]
Told(r) == TextOf(BeforeDone(answer[r].events))
Faithful(r) ==
  /\ IsPrefix(TextOf(heard[r]), Told(r))
  /\ (heard[r] # <<>> /\ Last(heard[r]) = "end" /\ ToSet(heard[r]) \cap Errors = {})
       => TextOf(heard[r]) = Told(r) /\ "done" \in ToSet(answer[r].events)
Settled(r) ==
  \/ \E i \in DOMAIN Items(r) : Items(r)[i] \in Errors
  \/ TextOf(Items(r)) = Told(r) /\ \E i \in DOMAIN answer[r].events : answer[r].events[i] = "done"
OneStream(r) ==
  /\ phase[r] \in NotBegun =>
       /\ r \notin open /\ heard[r] = <<>> /\ channel[r] = <<>> /\ batch[r] = <<>>
       /\ rest[r] = answer[r].events
  /\ r \in open =>
       /\ heard[r] \in Seq(Untold)
       /\ \E k \in 0..Len(answer[r].events) : Read(r, k) /\ (phase[r] = "streaming" => Ahead(r, k))
       /\ phase[r] = "ended" => Settled(r)
  /\ r \notin open => Faithful(r)

StreamInv == \A r \in Requests : OneStream(r)

IInv == /\ CallTypes /\ FailuresAreNamed /\ PostsAreCounted /\ QueueIsOfTheQueued
        /\ PermitsAreOfTheWorking /\ StreamInv

-----------------------------------------------------------------------------
(* What TextOf computes.                                                     *)

LEMMA SmallestNat ==
  ASSUME NEW T \in SUBSET Nat, T # {}
  PROVE  \E x \in T : \A y \in T : x <= y
<1> DEFINE R == OpToRel(<, Nat)
<1>1. \A x, y \in Nat : y < x => <<y, x>> \in R
  BY DEF OpToRel
<1>2. IsWellFoundedOn(R, Nat)
  BY NatLessThanWellFounded
<1> HIDE DEF R
<1>3. PICK x \in T : \A y \in T : ~ (<<y, x>> \in R)
  BY <1>2, WFMin
<1>4. \A y \in T : ~ (y < x)
  BY <1>1, <1>3
<1>5. QED BY <1>4

LEMMA InductionOverNat ==
  ASSUME NEW T \in SUBSET Nat, 0 \in T, \A n \in T : n + 1 \in T
  PROVE  T = Nat
<1>1. SUFFICES ASSUME Nat \ T # {} PROVE FALSE
  OBVIOUS
<1>2. PICK m \in Nat \ T : \A y \in Nat \ T : m <= y
  BY <1>1, SmallestNat
<1>3. m - 1 \in Nat /\ ~(m <= m - 1)
  BY <1>2
<1>4. m - 1 \in T
  BY <1>2, <1>3
<1> QED BY <1>2, <1>3, <1>4

\* The entries of a patch whose words are those before it, after it, or in both.
KindsOf == [before |-> {"kept", "removed"}, after |-> {"kept", "added"}, both |-> {"kept"}]

\* What the recursive functions of the two components make of one more item.
Grow(of, sofar, items, n) ==
  CASE of = "text"   -> IF items[n] \in Texts THEN Append(sofar, items[n]) ELSE sofar
    [] of = "solid"  -> IF items[n] = Blank THEN sofar ELSE Append(sofar, items[n])
    [] of = "words"  -> IF items[n] = Blank THEN sofar
                        ELSE IF n = 1 \/ items[n - 1] = Blank THEN Append(sofar, <<items[n]>>)
                        ELSE Append(Front(sofar), Append(Last(sofar), items[n]))
    [] of = "joined" -> IF n = 1 THEN items[1] ELSE sofar \o <<Blank>> \o items[n]
    [] OTHER         -> IF items[n][1] \in KindsOf[of] THEN Append(sofar, items[n][2]) ELSE sofar
Grown(of, g, items, m) ==
  g = [n \in 0..m |-> IF n = 0 THEN <<>> ELSE Grow(of, g[n - 1], items, n)]

LEMMA GrownStep ==
  ASSUME NEW of, NEW items, NEW m \in Nat, NEW g, Grown(of, g, items, m), NEW k \in Nat, k + 1 <= m
  PROVE  g[k + 1] = Grow(of, g[k], items, k + 1)
<1>1. k + 1 \in 0..m /\ k + 1 # 0 /\ (k + 1) - 1 = k
  OBVIOUS
<1>2. g[k + 1] = IF k + 1 = 0 THEN <<>> ELSE Grow(of, g[(k + 1) - 1], items, k + 1)
  BY <1>1 DEF Grown
<1> QED BY <1>1, <1>2

LEMMA GrownLast ==
  ASSUME NEW of, NEW items, NEW g, NEW k \in Nat, Grown(of, g, items, k + 1)
  PROVE  g[k + 1] = Grow(of, g[k], items, k + 1)
<1>1. k + 1 \in Nat /\ k + 1 <= k + 1
  OBVIOUS
<1> QED BY <1>1, GrownStep

LEMMA GrownExists ==
  ASSUME NEW of, NEW items, NEW m \in Nat
  PROVE  \E g : Grown(of, g, items, m)
<1> DEFINE T == {n \in Nat : \E g : Grown(of, g, items, n)}
<1>1. 0 \in T
  <2>1. Grown(of, [k \in 0..0 |-> <<>>], items, 0)
    BY DEF Grown
  <2> QED BY <2>1
<1>2. ASSUME NEW n \in T PROVE n + 1 \in T
  <2>1. PICK h : Grown(of, h, items, n)
    BY <1>2
  <2> DEFINE next == Grow(of, h[n], items, n + 1)
             g == [k \in 0..(n + 1) |-> IF k = n + 1 THEN next ELSE h[k]]
  <2>2. n \in Nat /\ n + 1 \in Nat
    BY <1>2
  <2>3. ASSUME NEW k \in 0..(n + 1)
        PROVE  g[k] = IF k = 0 THEN <<>> ELSE Grow(of, g[k - 1], items, k)
    <3>1. CASE k = n + 1
      <4>1. g[k] = next /\ g[k - 1] = h[n] /\ k # 0 /\ k - 1 = n
        BY <2>2, <3>1
      <4> QED BY <3>1, <4>1
    <3>2. CASE k = 0
      <4>1. g[k] = h[0] /\ h[0] = <<>>
        BY <2>1, <2>2, <3>2 DEF Grown
      <4> QED BY <3>2, <4>1
    <3>3. CASE k \in 1..n
      <4>1. g[k] = h[k] /\ g[k - 1] = h[k - 1] /\ k \in 0..n /\ k # 0
        BY <2>2, <3>3
      <4> HIDE DEF g
      <4>2. h[k] = Grow(of, h[k - 1], items, k)
        BY <2>1, <4>1 DEF Grown
      <4> QED BY <4>1, <4>2
    <3> QED BY <2>2, <3>1, <3>2, <3>3
  <2>4. Grown(of, g, items, n + 1)
    <3>1. g = [k \in 0..(n + 1) |-> g[k]]
      OBVIOUS
    <3> HIDE DEF g
    <3> QED BY <2>3, <3>1 DEF Grown
  <2> HIDE DEF g
  <2> QED BY <2>2, <2>4
<1> HIDE DEF T
<1>3. T \in SUBSET Nat
  BY DEF T
<1>4. T = Nat
  BY <1>1, <1>2, <1>3, InductionOverNat
<1> QED BY <1>4 DEF T

\* It depends on the items it has seen.
LEMMA GrownAgrees ==
  ASSUME NEW of, NEW a, NEW b, NEW m \in Nat, NEW n \in Nat, m <= n,
         \A i \in 1..m : a[i] = b[i],
         NEW g, NEW h, Grown(of, g, a, m), Grown(of, h, b, n)
  PROVE  g[m] = h[m]
<1> DEFINE T == {k \in Nat : k <= m => g[k] = h[k]}
<1>1. 0 \in T
  BY DEF Grown
<1>2. ASSUME NEW k \in T PROVE k + 1 \in T
  <2>1. k \in Nat
    BY <1>2
  <2>2. SUFFICES ASSUME k + 1 <= m PROVE g[k + 1] = h[k + 1]
    BY <2>1
  <2>3. g[k] = h[k]
    BY <1>2, <2>1, <2>2
  <2>4. g[k + 1] = Grow(of, g[k], a, k + 1)
    BY <2>1, <2>2, GrownStep
  <2>5. h[k + 1] = Grow(of, h[k], b, k + 1)
    <3>1. k + 1 <= n
      BY <2>1, <2>2
    <3> QED BY <2>1, <3>1, GrownStep
  <2>6. ASSUME NEW sofar PROVE Grow(of, sofar, a, k + 1) = Grow(of, sofar, b, k + 1)
    <3>1. a[k + 1] = b[k + 1] /\ (k + 1) - 1 = k /\ (k + 1 = 1 \/ a[k] = b[k]) /\ a[1] = b[1]
      BY <2>1, <2>2
    <3> QED BY <3>1 DEF Grow
  <2> QED BY <2>3, <2>4, <2>5, <2>6
<1> HIDE DEF T
<1>3. T \in SUBSET Nat
  BY DEF T
<1>4. T = Nat
  BY <1>1, <1>2, <1>3, InductionOverNat
<1> QED BY <1>4 DEF T

\* What is made of all of them, and of all and one more.
Made(of, items) == (CHOOSE g : Grown(of, g, items, Len(items)))[Len(items)]

LEMMA MadeIs ==
  ASSUME NEW of, NEW items, Len(items) \in Nat
  PROVE  \E g : Grown(of, g, items, Len(items)) /\ Made(of, items) = g[Len(items)]
BY GrownExists DEF Made

LEMMA MadeOfNone == ASSUME NEW of PROVE Made(of, <<>>) = <<>>
BY MadeIs DEF Grown

LEMMA MadeOfMore ==
  ASSUME NEW of, NEW S, NEW items \in Seq(S), NEW x \in S
  PROVE  Made(of, Append(items, x)) = Grow(of, Made(of, items), Append(items, x), Len(items) + 1)
<1> DEFINE more == Append(items, x)
           n == Len(items)
<1>1. n \in Nat /\ Len(more) = n + 1 /\ more[n + 1] = x /\ \A i \in 1..n : items[i] = more[i]
  BY AppendProperties
<1>2. PICK g : Grown(of, g, items, n) /\ Made(of, items) = g[n]
  BY <1>1, MadeIs
<1> HIDE DEF more, n
<1>3. PICK h : Grown(of, h, more, n + 1) /\ Made(of, more) = h[n + 1]
  <2>1. Len(more) \in Nat
    BY <1>1
  <2> QED BY <1>1, <2>1, MadeIs
<1>4. g[n] = h[n]
  BY <1>1, <1>2, <1>3, GrownAgrees
<1>5. h[n + 1] = Grow(of, h[n], more, n + 1)
  BY <1>1, <1>3, GrownLast
<1> QED BY <1>2, <1>3, <1>4, <1>5 DEF more, n

\* The functions are these.
LEMMA TextIsMade == ASSUME NEW items PROVE TextOf(items) = Made("text", items)
<1>1. ASSUME NEW g
      PROVE  [n \in 0..Len(items) |->
                 IF n = 0 THEN <<>>
                 ELSE IF items[n] \in Texts THEN Append(g[n - 1], items[n]) ELSE g[n - 1]]
             = [n \in 0..Len(items) |-> IF n = 0 THEN <<>> ELSE Grow("text", g[n - 1], items, n)]
  BY DEF Grow
<1> QED BY <1>1 DEF TextOf, Made, Grown

LEMMA TextOfNone == TextOf(<<>>) = <<>>
BY TextIsMade, MadeOfNone

LEMMA TextOfMore ==
  ASSUME NEW S, NEW items \in Seq(S), NEW x \in S
  PROVE  TextOf(Append(items, x)) = IF x \in Texts THEN Append(TextOf(items), x) ELSE TextOf(items)
<1> DEFINE more == Append(items, x)
           n == Len(items) + 1
           text == TextOf(items)
<1>1. more[n] = x
  BY AppendProperties
<1>2. TextOf(more) = Grow("text", text, more, n)
  BY TextIsMade, MadeOfMore
<1> HIDE DEF more, n, text
<1>3. Grow("text", text, more, n) = IF more[n] \in Texts THEN Append(text, more[n]) ELSE text
  BY DEF Grow
<1> QED BY <1>1, <1>2, <1>3 DEF more, text

\* The text of the first items is the first of the text.
LEMMA TextOfFirst ==
  ASSUME NEW S, NEW items \in Seq(S), NEW k \in 0..Len(items)
  PROVE  /\ IsPrefix(TextOf(SubSeq(items, 1, k)), TextOf(items))
         /\ TextOf(items) \in Seq(Texts)
<1> DEFINE text(m) == TextOf(SubSeq(items, 1, m))
           T == {d \in Nat : k + d <= Len(items) => IsPrefix(text(k), text(k + d))}
           U == {m \in Nat : m <= Len(items) => text(m) \in Seq(Texts)}
<1>0. Len(items) \in Nat /\ k \in Nat /\ k <= Len(items)
  OBVIOUS
<1>1. ASSUME NEW m \in Nat, m + 1 <= Len(items)
      PROVE  text(m + 1) = IF items[m + 1] \in Texts THEN Append(text(m), items[m + 1]) ELSE text(m)
  <2>1. SubSeq(items, 1, m) \in Seq(S) /\ items[m + 1] \in S
    BY <1>1
  <2>2. SubSeq(items, 1, m + 1) = Append(SubSeq(items, 1, m), items[m + 1])
    BY <1>1
  <2> QED BY <2>1, <2>2, TextOfMore
<1>2. text(0) = <<>>
  <2>1. SubSeq(items, 1, 0) = <<>>
    BY SubSeqEmpty
  <2> QED BY <2>1, TextOfNone
<1> HIDE DEF text
<1>3. U = Nat
  <2>1. 0 \in U
    <3>1. text(0) \in Seq(Texts)
      BY <1>2, EmptySeq
    <3> QED BY <3>1
  <2>2. ASSUME NEW m \in U PROVE m + 1 \in U
    <3>1. SUFFICES ASSUME m + 1 <= Len(items) PROVE text(m + 1) \in Seq(Texts)
      BY <2>2
    <3>2. m \in Nat /\ text(m) \in Seq(Texts)
      BY <1>0, <2>2, <3>1
    <3>3. text(m + 1) = IF items[m + 1] \in Texts THEN Append(text(m), items[m + 1]) ELSE text(m)
      BY <1>1, <3>1, <3>2
    <3>4. items[m + 1] \in Texts => Append(text(m), items[m + 1]) \in Seq(Texts)
      BY <3>2, AppendProperties
    <3> QED BY <3>2, <3>3, <3>4
  <2> HIDE DEF U
  <2>3. U \in SUBSET Nat
    BY DEF U
  <2> QED BY <2>1, <2>2, <2>3, InductionOverNat
<1>4. T = Nat
  <2>1. 0 \in T
    BY <1>0, <1>3 DEF IsPrefix
  <2>2. ASSUME NEW d \in T PROVE d + 1 \in T
    <3>1. SUFFICES ASSUME k + (d + 1) <= Len(items) PROVE IsPrefix(text(k), text(k + (d + 1)))
      BY <2>2
    <3>2. k + d \in Nat /\ (k + d) + 1 <= Len(items) /\ k + (d + 1) = (k + d) + 1
      BY <1>0, <2>2, <3>1
    <3>3. IsPrefix(text(k), text(k + d)) /\ text(k) \in Seq(Texts) /\ text(k + d) \in Seq(Texts)
      BY <1>0, <1>3, <2>2, <3>2
    <3>4. text((k + d) + 1) = IF items[(k + d) + 1] \in Texts THEN Append(text(k + d), items[(k + d) + 1])
                               ELSE text(k + d)
      BY <1>1, <3>2
    <3>5. ASSUME NEW s \in Seq(Texts), NEW u \in Seq(Texts), NEW x \in Texts, IsPrefix(s, u)
          PROVE  IsPrefix(s, Append(u, x))
      BY <3>5 DEF IsPrefix
    <3> QED BY <3>2, <3>3, <3>4, <3>5
  <2> HIDE DEF T
  <2>3. T \in SUBSET Nat
    BY DEF T
  <2> QED BY <2>1, <2>2, <2>3, InductionOverNat
<1>5. Len(items) - k \in Nat /\ k + (Len(items) - k) = Len(items)
  BY <1>0
<1>6. IsPrefix(text(k), text(Len(items))) /\ text(Len(items)) \in Seq(Texts)
  <2>1. Len(items) - k \in T /\ Len(items) \in U
    BY <1>0, <1>3, <1>4, <1>5
  <2> QED BY <1>0, <1>5, <2>1
<1>7. text(Len(items)) = TextOf(items)
  BY SubSeqFull DEF text
<1> QED BY <1>6, <1>7 DEF text
-----------------------------------------------------------------------------
(* Types, posts, queue and permits.                                          *)


LEMMA InitCalls ==
  Init => CallTypes /\ FailuresAreNamed /\ PostsAreCounted /\ QueueIsOfTheQueued /\ PermitsAreOfTheWorking
<1> SUFFICES ASSUME Init PROVE CallTypes /\ FailuresAreNamed /\ PostsAreCounted /\ QueueIsOfTheQueued /\ PermitsAreOfTheWorking
  OBVIOUS
<1>1. answer \in [Requests -> Bodies]
  BY ProviderAssumption DEF Init
<1>2. CallTypes
  <2>1. rest \in [Requests -> Seq(Events)]
    BY <1>1 DEF Init, Bodies
  <2>2. batch \in [Requests -> Seq(Decoded)] /\ channel \in [Requests -> Seq(Untold)]
        /\ heard \in [Requests -> Seq(Heard)] /\ \A r \in Requests : Len(channel[r]) <= Capacity
    BY ProviderAssumption DEF Init
  <2>3. phase \in [Requests -> Phases] /\ retries \in [Requests -> 0..MaxRetries]
        /\ posts \in [Requests -> Nat] /\ result \in [Requests -> Outcomes]
        /\ holders \subseteq Requests /\ open \subseteq Requests
    BY ProviderAssumption DEF Init, Phases, Outcomes
  <2> QED BY <1>1, <2>1, <2>2, <2>3 DEF CallTypes
<1>3. FailuresAreNamed /\ PostsAreCounted /\ QueueIsOfTheQueued
  BY DEF Init, FailuresAreNamed, PostsAreCounted, QueueIsOfTheQueued
<1>4. PermitsAreOfTheWorking
  BY FS_EmptySet, ProviderAssumption DEF Init, PermitsAreOfTheWorking, Working
<1> QED BY <1>2, <1>3, <1>4

\* A step of one call.
Step(r) == Call(r) \/ Task(r) \/ Take(r) \/ Drop(r) \/ Cancel(r) \/ DeadlinePasses(r)

LEMMA Updated ==
  ASSUME NEW A, NEW B, NEW f \in [A -> B], NEW a \in A, NEW b \in B
  PROVE  [f EXCEPT ![a] = b] \in [A -> B]
OBVIOUS

LEMMA PhasesKeepTypes ==
  ASSUME CallTypes, NEW r \in Requests, Step(r)
  PROVE  /\ phase' \in [Requests -> Phases] /\ holders' \subseteq Requests /\ open' \subseteq Requests
         /\ retries' \in [Requests -> 0..MaxRetries] /\ posts' \in [Requests -> Nat]
         /\ answer' = answer
         /\ result' \in [Requests -> Outcomes]
<1> DEFINE TypesAfter ==
             /\ phase' \in [Requests -> Phases] /\ holders' \subseteq Requests /\ open' \subseteq Requests
             /\ retries' \in [Requests -> 0..MaxRetries] /\ posts' \in [Requests -> Nat]
             /\ answer' = answer
             /\ result' \in [Requests -> Outcomes]
<1> USE ProviderAssumption DEF CallTypes, Phases, Working, callVars, streamVars, Return, Fail, Interruption, Errors, Outcomes
<1>1. CASE Call(r) BY <1>1 DEF Call
<1>2. CASE AcquirePermit(r)
  <2>1. CASE Return(r, Interruption(r)) /\ UNCHANGED <<callVars, streamVars>>
    BY <2>1
  <2>2. CASE /\ phase' = [phase EXCEPT ![r] = "sending"]
             /\ holders' = holders \cup {r}
             /\ UNCHANGED <<result, callVars, streamVars>>
    BY <2>2
  <2> HIDE DEF callVars, streamVars, Return, Interruption
  <2> QED BY <1>2, <2>1, <2>2 DEF AcquirePermit
<1>3. ASSUME NEW met \in Attempts, Attempt(r, met) PROVE TypesAfter
  <2>1. UNCHANGED answer
    BY <1>3 DEF Attempt
  <2>2. retries' = retries \/ (MayRetry(r, met) /\ retries' = [retries EXCEPT ![r] = @ + 1])
    BY <1>3 DEF Attempt
  <2>3. retries' \in [Requests -> 0..MaxRetries]
    <3>1. MayRetry(r, met) => retries[r] + 1 \in 0..MaxRetries
      BY DEF MayRetry
    <3>2. retries \in [Requests -> 0..MaxRetries]
      OBVIOUS
    <3> HIDE DEF CallTypes
    <3> QED BY <2>2, <3>1, <3>2, Updated
  <2>4. posts' = posts \/ posts' = [posts EXCEPT ![r] = @ + 1]
    BY <1>3 DEF Attempt
  <2>5. \E p \in Phases : phase' = [phase EXCEPT ![r] = p]
    BY <1>3 DEF Attempt
  <2>6. result' = result \/ \E o \in Outcomes : result' = [result EXCEPT ![r] = o]
    BY <1>3 DEF Attempt, AttemptError
  <2>7. (holders' = holders \/ holders' = holders \ {r}) /\ (open' = open \/ open' = open \cup {r})
    BY <1>3 DEF Attempt
  <2>8. phase' \in [Requests -> Phases] /\ posts' \in [Requests -> Nat] /\ result' \in [Requests -> Outcomes]
    <3>1. phase' \in [Requests -> Phases]
      BY <2>5
    <3>2. posts' \in [Requests -> Nat]
      <4>1. posts \in [Requests -> Nat] /\ posts[r] + 1 \in Nat
        OBVIOUS
      <4> HIDE DEF CallTypes
      <4> QED BY <2>4, <4>1, Updated
    <3>3. result' \in [Requests -> Outcomes]
      BY <2>6
    <3> QED BY <3>1, <3>2, <3>3
  <2>9. holders' \subseteq Requests /\ open' \subseteq Requests
    BY <2>7
  <2> QED BY <2>1, <2>3, <2>8, <2>9
<1>4. CASE RetryDelay(r) BY <1>4 DEF RetryDelay
<1>5. CASE ReadBody(r)
  <2>1. PICK o \in Outcomes : Return(r, o)
    <3> HIDE DEF Return
    <3> QED BY <1>5 DEF ReadBody
  <2>2. UNCHANGED <<queue, callVars, streamVars>>
    BY <1>5 DEF ReadBody
  <2> QED BY <2>1, <2>2
<1>6. CASE ReceiveChunk(r)
  <2>1. \/ \E o \in Outcomes : Return(r, o)
        \/ \E o \in Errors : Fail(r, o)
        \/ UNCHANGED <<phase, holders, result>>
    <3> HIDE DEF Return, Fail
    <3> QED BY <1>6, SMTT(30) DEF ReceiveChunk, Decode, Finish
  <2>2. UNCHANGED <<open, retries, posts, answer>>
    <3> HIDE DEF Return, Fail
    <3> QED BY <1>6 DEF ReceiveChunk
  <2>3. ASSUME NEW o \in Outcomes, Return(r, o) PROVE TypesAfter
    BY <2>2, <2>3
  <2>4. ASSUME NEW o \in Errors, Fail(r, o) PROVE TypesAfter
    BY <2>2, <2>4
  <2>5. ASSUME UNCHANGED <<phase, holders, result>> PROVE TypesAfter
    BY <2>2, <2>5
  <2>6. TypesAfter
    <3> HIDE DEF TypesAfter, Return, Fail
    <3> QED BY <2>1, <2>3, <2>4, <2>5
  <2> QED BY <2>6
<1>7. CASE HandOver(r) BY <1>7 DEF HandOver
<1>8. CASE SendStreamError(r) BY <1>8 DEF SendStreamError
<1>9. CASE Take(r) \/ Drop(r) BY <1>9 DEF Take, Drop
<1>10. CASE Cancel(r) \/ DeadlinePasses(r) BY <1>10 DEF Cancel, DeadlinePasses
<1> QED BY <1>1, <1>2, <1>3, <1>4, <1>5, <1>6, <1>7, <1>8, <1>9, <1>10 DEF Step, Task

\* What is put into a channel with room.
LEMMA RoomForOne ==
  ASSUME channel \in [Requests -> Seq(Untold)], \A q \in Requests : Len(channel[q]) <= Capacity,
         NEW r \in Requests, NEW item \in Untold, Len(channel[r]) < Capacity, Capacity \in Nat,
         channel' = [channel EXCEPT ![r] = Append(@, item)]
  PROVE  channel' \in [Requests -> Seq(Untold)] /\ \A q \in Requests : Len(channel'[q]) <= Capacity
<1>1. Append(channel[r], item) \in Seq(Untold) /\ Len(Append(channel[r], item)) = Len(channel[r]) + 1
  BY AppendProperties
<1>2. channel' \in [Requests -> Seq(Untold)]
  BY <1>1, Updated
<1> QED BY <1>1, <1>2

LEMMA BatchIs ==
  ASSUME batch \in [Requests -> Seq(Decoded)], NEW r \in Requests, NEW decoded \in Seq(Decoded),
         batch' = batch \/ batch' = [batch EXCEPT ![r] = decoded]
  PROVE  batch' \in [Requests -> Seq(Decoded)]
BY Updated

LEMMA StreamsKeepTypes ==
  ASSUME CallTypes, FailuresAreNamed, NEW r \in Requests, Step(r)
  PROVE  /\ rest' \in [Requests -> Seq(Events)]
         /\ batch' \in [Requests -> Seq(Decoded)]
         /\ channel' \in [Requests -> Seq(Untold)]
         /\ heard' \in [Requests -> Seq(Heard)]
         /\ \A q \in Requests : Len(channel'[q]) <= Capacity
<1> USE ProviderAssumption DEF CallTypes, callVars, streamVars, Return, Fail
<1>1. CASE Call(r) \/ AcquirePermit(r) \/ RetryDelay(r) \/ ReadBody(r) \/ Cancel(r) \/ DeadlinePasses(r)
           \/ \E met \in Attempts : Attempt(r, met)
  BY <1>1 DEF Call, AcquirePermit, RetryDelay, ReadBody, Cancel, DeadlinePasses, Attempt
<1>6. CASE ReceiveChunk(r)
  <2>0. batch \in [Requests -> Seq(Decoded)]
    OBVIOUS
  <2>1. UNCHANGED <<channel, heard>>
    BY <1>6 DEF ReceiveChunk
  <2>2. CASE UNCHANGED <<rest, batch>>
    BY <2>1, <2>2
  <2>3. CASE \E n \in 1..Complete(r) :
               /\ Decode(r, n)
               /\ rest' = [rest EXCEPT ![r] = SubSeq(@, n + 1, Len(@))]
    <3>1. PICK n \in 1..Complete(r) : Decode(r, n) /\ rest' = [rest EXCEPT ![r] = SubSeq(@, n + 1, Len(@))]
      BY <2>3
    <3>2. n \in Nat /\ 1 <= n /\ n <= Len(rest[r])
      BY <3>1 DEF Complete
    <3>3. SubSeq(rest[r], n + 1, Len(rest[r])) \in Seq(Events)
          /\ SubSeq(rest[r], 1, n) \in Seq(Events)
      BY <3>2
    <3>4. rest' \in [Requests -> Seq(Events)]
      BY <3>1, <3>3
    <3>5. batch' = batch \/ batch' = [batch EXCEPT ![r] = SubSeq(rest[r], 1, n)]
      BY <3>1 DEF Decode
    <3>6. SubSeq(rest[r], 1, n) \in Seq(Decoded)
      BY <3>3, SeqMonotonic, Events \subseteq Decoded DEF Decoded
    <3>7. batch' \in [Requests -> Seq(Decoded)]
      BY <2>0, <3>5, <3>6, BatchIs
    <3> QED BY <2>1, <3>4, <3>7
  <2>4. CASE rest' = [rest EXCEPT ![r] = <<>>] /\ Finish(r)
    <3>1. rest' \in [Requests -> Seq(Events)]
      BY <2>4
    <3>2. batch' = batch \/ batch' = [batch EXCEPT ![r] = rest[r] \o <<"cut">>]
      BY <2>4 DEF Finish
    <3>3. rest[r] \in Seq(Decoded)
      BY SeqMonotonic, Events \subseteq Decoded DEF Decoded
    <3>4. rest[r] \o <<"cut">> \in Seq(Decoded)
      <4>1. <<"cut">> \in Seq(Decoded)
        BY DEF Decoded
      <4> QED BY <3>3, <4>1, ConcatProperties
    <3>5. batch' \in [Requests -> Seq(Decoded)]
      BY <2>0, <3>2, <3>4, BatchIs
    <3> QED BY <2>1, <3>1, <3>5
  <2> QED BY <1>6, <2>2, <2>3, <2>4 DEF ReceiveChunk
<1>7. CASE HandOver(r)
  <2>0. batch \in [Requests -> Seq(Decoded)]
    OBVIOUS
  <2>1. UNCHANGED <<rest, heard>> /\ batch[r] # <<>>
    BY <1>7 DEF HandOver
  <2>2. Tail(batch[r]) \in Seq(Decoded)
    BY <2>1
  <2>3. batch' \in [Requests -> Seq(Decoded)]
    <3>1. batch' = batch \/ batch' = [batch EXCEPT ![r] = Tail(batch[r])]
      BY <1>7 DEF HandOver
    <3> QED BY <2>0, <2>2, <3>1, BatchIs
  <2>4. \/ channel' = channel
        \/ \E event \in Texts : Len(channel[r]) < Capacity /\ channel' = [channel EXCEPT ![r] = Append(@, event)]
    BY <1>7 DEF HandOver
  <2>5. channel' \in [Requests -> Seq(Untold)] /\ \A q \in Requests : Len(channel'[q]) <= Capacity
    <3>1. CASE channel' = channel
      BY <3>1
    <3>2. ASSUME NEW event \in Texts, Len(channel[r]) < Capacity,
                 channel' = [channel EXCEPT ![r] = Append(channel[r], event)]
          PROVE  channel' \in [Requests -> Seq(Untold)] /\ \A q \in Requests : Len(channel'[q]) <= Capacity
      BY <3>2, RoomForOne DEF Untold
    <3> QED BY <2>4, <3>1, <3>2
  <2> QED BY <2>1, <2>3, <2>5
<1>8. CASE SendStreamError(r)
  <2>1. \/ channel' = channel
        \/ Len(channel[r]) < Capacity /\ channel' = [channel EXCEPT ![r] = Append(@, result[r])]
    BY <1>8 DEF SendStreamError
  <2>2. result[r] \in Errors /\ UNCHANGED <<rest, batch, heard>>
    BY <1>8 DEF SendStreamError, FailuresAreNamed
  <2>3. CASE channel' = channel
    BY <2>2, <2>3
  <2>4. CASE Len(channel[r]) < Capacity /\ channel' = [channel EXCEPT ![r] = Append(@, result[r])]
    BY <2>2, <2>4, RoomForOne DEF Untold
  <2> QED BY <2>1, <2>3, <2>4
<1>9. CASE Take(r)
  <2>1. channel[r] # <<>> =>
          Head(channel[r]) \in Heard /\ Tail(channel[r]) \in Seq(Untold) /\ Len(Tail(channel[r])) <= Len(channel[r])
    BY DEF Heard
  <2>2. \E item \in Heard : heard' = [heard EXCEPT ![r] = Append(heard[r], item)]
    BY <1>9, <2>1 DEF Take, Heard
  <2>3. heard' \in [Requests -> Seq(Heard)]
    BY <2>2, AppendProperties, Updated
  <2>4. channel' = channel \/ (channel[r] # <<>> /\ channel' = [channel EXCEPT ![r] = Tail(channel[r])])
    BY <1>9 DEF Take
  <2>5. channel \in [Requests -> Seq(Untold)] /\ \A q \in Requests : Len(channel[q]) <= Capacity
    OBVIOUS
  <2>6. channel' \in [Requests -> Seq(Untold)] /\ \A q \in Requests : Len(channel'[q]) <= Capacity
    <3>1. CASE channel' = channel
      BY <2>5, <3>1
    <3>2. CASE channel[r] # <<>> /\ channel' = [channel EXCEPT ![r] = Tail(channel[r])]
      <4>1. Tail(channel[r]) \in Seq(Untold) /\ Len(Tail(channel[r])) <= Capacity
        BY <2>1, <2>5, <3>2
      <4> HIDE DEF CallTypes
      <4> QED BY <2>5, <3>2, <4>1
    <3> QED BY <2>4, <3>1, <3>2
  <2> QED BY <1>9, <2>3, <2>6 DEF Take
<1>10. CASE Drop(r) BY <1>10 DEF Drop
<1> QED BY <1>1, <1>10, <1>6, <1>7, <1>8, <1>9 DEF Step, Task

\* Nothing changes for another call.
LEMMA OthersStay ==
  ASSUME CallTypes, NEW r \in Requests, Step(r), NEW q \in Requests, q # r
  PROVE  /\ phase'[q] = phase[q] /\ result'[q] = result[q]
         /\ retries'[q] = retries[q] /\ posts'[q] = posts[q]
         /\ rest'[q] = rest[q] /\ batch'[q] = batch[q]
         /\ channel'[q] = channel[q] /\ heard'[q] = heard[q]
         /\ (q \in open' <=> q \in open) /\ (q \in holders' <=> q \in holders)
<1> USE DEF callVars, streamVars, Return, Fail, CallTypes
<1>1. CASE Call(r) BY <1>1 DEF Call
<1>2. CASE AcquirePermit(r)
  <2>1. CASE Return(r, Interruption(r)) /\ UNCHANGED <<callVars, streamVars>>
    BY <2>1
  <2>2. CASE /\ phase' = [phase EXCEPT ![r] = "sending"]
             /\ holders' = holders \cup {r}
             /\ UNCHANGED <<result, callVars, streamVars>>
    BY <2>2
  <2> HIDE DEF callVars, streamVars, Return, Interruption
  <2> QED BY <1>2, <2>1, <2>2 DEF AcquirePermit
<1>3. CASE \E met \in Attempts : Attempt(r, met)
  BY <1>3 DEF Attempt
<1>4. CASE RetryDelay(r) BY <1>4 DEF RetryDelay
<1>5. CASE ReadBody(r) BY <1>5 DEF ReadBody
<1>6. CASE ReceiveChunk(r) BY <1>6 DEF ReceiveChunk, Decode, Finish
<1>7. CASE HandOver(r) BY <1>7 DEF HandOver
<1>8. CASE SendStreamError(r) BY <1>8 DEF SendStreamError
<1>9. CASE Take(r) BY <1>9 DEF Take
<1>10. CASE Drop(r) BY <1>10 DEF Drop
<1>11. CASE Cancel(r) \/ DeadlinePasses(r) BY <1>11 DEF Cancel, DeadlinePasses
<1> QED BY <1>1, <1>2, <1>3, <1>4, <1>5, <1>6, <1>7, <1>8, <1>9, <1>10, <1>11 DEF Step, Task

\* What a step makes of the call's phase, its counters and its permit.
Advance(r) ==
  \/ /\ phase[r] = "idle" /\ phase'[r] = "queued"
     /\ UNCHANGED <<holders, posts, retries>>
  \/ /\ phase[r] = "queued" /\ phase'[r] = "sending"
     /\ holders' = holders \cup {r} /\ Cardinality(holders) < MaxConcurrency
     /\ UNCHANGED <<posts, retries>>
  \/ /\ phase[r] = "sending" /\ phase'[r] = "backoff"
     /\ posts'[r] = posts[r] + 1 /\ retries'[r] = retries[r] + 1 /\ holders' = holders
  \/ /\ phase[r] = "sending" /\ phase'[r] \in {"reading", "streaming"}
     /\ posts'[r] = posts[r] + 1 /\ UNCHANGED <<holders, retries>>
  \/ /\ phase[r] = "sending" /\ phase'[r] = "ended" /\ holders' = holders \ {r}
     /\ posts'[r] \in {posts[r], posts[r] + 1} /\ UNCHANGED retries
  \/ /\ phase[r] = "backoff" /\ phase'[r] = "sending" /\ UNCHANGED <<holders, posts, retries>>
  \/ /\ phase[r] \in {"queued", "backoff", "reading", "streaming", "failing"} /\ phase'[r] = "ended"
     /\ holders' = holders \ {r} /\ UNCHANGED <<posts, retries>>
  \/ /\ phase[r] = "streaming" /\ phase'[r] = "failing" /\ result'[r] \in Errors
     /\ UNCHANGED <<holders, posts, retries>>
  \/ phase'[r] = phase[r] /\ result'[r] = result[r] /\ UNCHANGED <<holders, posts, retries>>

LEMMA StepAdvances ==
  ASSUME CallTypes, FailuresAreNamed, NEW r \in Requests, Step(r)
  PROVE  Advance(r)
<1> USE DEF callVars, streamVars, Return, Fail, CallTypes, Advance
<1>1. CASE Call(r) BY <1>1 DEF Call
<1>2. CASE AcquirePermit(r)
  <2>1. CASE Return(r, Interruption(r)) /\ UNCHANGED <<callVars, streamVars>> /\ phase[r] = "queued"
    BY <2>1
  <2>2. CASE /\ phase[r] = "queued"
             /\ phase' = [phase EXCEPT ![r] = "sending"]
             /\ holders' = holders \cup {r} /\ Cardinality(holders) < MaxConcurrency
             /\ UNCHANGED <<result, callVars, streamVars>>
    BY <2>2
  <2> HIDE DEF callVars, streamVars, Return, Interruption, Advance
  <2> QED BY <1>2, <2>1, <2>2 DEF AcquirePermit
<1>3. ASSUME NEW met \in Attempts, Attempt(r, met) PROVE Advance(r)
  BY <1>3 DEF Attempt
<1>4. CASE RetryDelay(r) BY <1>4 DEF RetryDelay
<1>5. CASE ReadBody(r) BY <1>5 DEF ReadBody
<1>6. CASE ReceiveChunk(r) BY <1>6 DEF ReceiveChunk, Decode, Finish, Interruption, Errors
<1>7. CASE HandOver(r) BY <1>7 DEF HandOver, Interruption, Errors
<1>8. CASE SendStreamError(r) BY <1>8 DEF SendStreamError
<1>9. CASE Take(r) BY <1>9 DEF Take
<1>10. CASE Drop(r) BY <1>10 DEF Drop
<1>11. CASE Cancel(r) \/ DeadlinePasses(r) BY <1>11 DEF Cancel, DeadlinePasses
<1> QED BY <1>1, <1>2, <1>3, <1>4, <1>5, <1>6, <1>7, <1>8, <1>9, <1>10, <1>11 DEF Step, Task

LEMMA CountersStay ==
  ASSUME CallTypes, FailuresAreNamed, PostsAreCounted, NEW r \in Requests, Step(r)
  PROVE  FailuresAreNamed' /\ PostsAreCounted'
<1>1. Advance(r)
  BY StepAdvances
<1>2. posts[r] \in Nat /\ retries[r] \in Nat
  BY ProviderAssumption DEF CallTypes
<1>3. phase'[r] = "failing" => result'[r] \in Errors
  BY <1>1 DEF Advance, FailuresAreNamed
<1>4. /\ posts'[r] <= retries'[r] + 1
      /\ phase'[r] \in {"idle", "queued", "sending", "backoff"} => posts'[r] = retries'[r]
  BY <1>1, <1>2 DEF Advance, PostsAreCounted
<1>5. ASSUME NEW q \in Requests
      PROVE  /\ phase'[q] = "failing" => result'[q] \in Errors
             /\ posts'[q] <= retries'[q] + 1
             /\ phase'[q] \in {"idle", "queued", "sending", "backoff"} => posts'[q] = retries'[q]
  <2>1. CASE q = r
    BY <1>3, <1>4, <2>1
  <2>2. CASE q # r
    BY <2>2, OthersStay DEF FailuresAreNamed, PostsAreCounted
  <2> QED BY <2>1, <2>2
<1> QED BY <1>5 DEF FailuresAreNamed, PostsAreCounted

LEMMA PermitsStay ==
  ASSUME CallTypes, FailuresAreNamed, PermitsAreOfTheWorking, NEW r \in Requests, Step(r)
  PROVE  PermitsAreOfTheWorking'
<1>1. Advance(r)
  BY StepAdvances
<1>2. holders' \in {holders, holders \cup {r}, holders \ {r}}
      /\ (holders' = holders \cup {r} => holders' = holders \/ Cardinality(holders) < MaxConcurrency)
  BY <1>1 DEF Advance
<1>3. IsFiniteSet(holders') /\ Cardinality(holders') <= MaxConcurrency
  <2>1. Cardinality(holders) \in Nat /\ MaxConcurrency \in Nat
    BY ProviderAssumption, FS_CardinalityType DEF PermitsAreOfTheWorking
  <2>2. CASE holders' = holders
    BY <2>2 DEF PermitsAreOfTheWorking
  <2>3. CASE holders' = holders \cup {r} /\ Cardinality(holders) < MaxConcurrency
    BY <2>1, <2>3, FS_AddElement DEF PermitsAreOfTheWorking
  <2>4. CASE holders' = holders \ {r}
    BY <2>1, <2>4, FS_RemoveElement DEF PermitsAreOfTheWorking
  <2> QED BY <1>2, <2>2, <2>3, <2>4
<1>4. r \in holders' <=> phase'[r] \in Working
  <2>1. r \in holders <=> phase[r] \in Working
    BY DEF PermitsAreOfTheWorking
  <2> QED BY <1>1, <2>1 DEF Advance, Working
<1>5. \A q \in Requests : q \in holders' <=> phase'[q] \in Working
  <2> TAKE q \in Requests
  <2>1. CASE q = r
    BY <1>4, <2>1
  <2>2. CASE q # r
    BY <2>2, OthersStay DEF PermitsAreOfTheWorking
  <2> QED BY <2>1, <2>2
<1>6. holders' \subseteq Requests
  BY PhasesKeepTypes
<1> QED BY <1>3, <1>5, <1>6 DEF PermitsAreOfTheWorking

-----------------------------------------------------------------------------
(* The queue.                                                                *)

LEMMA QueueStays ==
  ASSUME CallTypes, FailuresAreNamed, QueueIsOfTheQueued, NEW r \in Requests, Step(r)
  PROVE  QueueIsOfTheQueued'
<1> DEFINE In(q) == \E i \in DOMAIN queue : queue[i] = q
<1>0. queue \in Seq(Requests) /\ (\A i, j \in DOMAIN queue : queue[i] = queue[j] => i = j)
      /\ (\A q \in Requests : phase[q] = "queued" <=> In(q))
  BY DEF QueueIsOfTheQueued
<1>1. CASE Call(r)
  <2>1. ~In(r) /\ queue' = Append(queue, r) /\ phase' = [phase EXCEPT ![r] = "queued"]
    BY <1>0, <1>1 DEF Call
  <2>2. /\ queue' \in Seq(Requests) /\ Len(queue') = Len(queue) + 1 /\ queue'[Len(queue) + 1] = r
        /\ \A i \in 1..Len(queue) : queue'[i] = queue[i]
    BY <1>0, <2>1, AppendProperties
  <2>3. DOMAIN queue = 1..Len(queue) /\ DOMAIN queue' = 1..(Len(queue) + 1) /\ Len(queue) \in Nat
    BY <1>0, <2>2
  <2>4. \A i, j \in DOMAIN queue' : queue'[i] = queue'[j] => i = j
    BY <1>0, <2>1, <2>2, <2>3
  <2>5. \A q \in Requests : phase'[q] = "queued" <=> \E i \in DOMAIN queue' : queue'[i] = q
    <3> TAKE q \in Requests
    <3>1. phase'[q] = "queued" <=> q = r \/ In(q)
      BY <1>0, <2>1 DEF CallTypes
    <3>2. (\E i \in DOMAIN queue' : queue'[i] = q) <=> q = r \/ In(q)
      BY <2>2, <2>3
    <3> QED BY <3>1, <3>2
  <2> QED BY <2>2, <2>4, <2>5 DEF QueueIsOfTheQueued
<1>2. CASE AcquirePermit(r)
  <2>1. In(r) /\ phase[r] = "queued"
    BY <1>0, <1>2 DEF AcquirePermit
  <2>2. \E i \in DOMAIN queue : queue[i] = r /\ queue' = RemoveAt(queue, i)
    <3>1. CASE queue' = Tail(queue) /\ r = Head(queue)
      <4>1. queue # <<>>
        BY <1>0, <2>1
      <4>2. 1 \in DOMAIN queue /\ queue[1] = r
        BY <1>0, <3>1, <4>1
      <4>3. Tail(queue) = SubSeq(queue, 2, Len(queue))
        BY <1>0, <4>1, TailIsSubSeq
      <4>4. SubSeq(queue, 1, 0) = <<>>
        BY SubSeqEmpty
      <4>5. SubSeq(queue, 2, Len(queue)) \in Seq(Requests)
        BY <1>0, <4>1
      <4>6. RemoveAt(queue, 1) = SubSeq(queue, 2, Len(queue))
        BY <4>4, <4>5 DEF RemoveAt
      <4> QED BY <3>1, <4>2, <4>3, <4>6
    <3> QED BY <1>2, <3>1 DEF AcquirePermit
  <2>3. PICK i \in DOMAIN queue : queue[i] = r /\ queue' = RemoveAt(queue, i)
    BY <2>2
  <2>4. phase' = [phase EXCEPT ![r] = "ended"] \/ phase' = [phase EXCEPT ![r] = "sending"]
    BY <1>2 DEF AcquirePermit, Return
  <2>5. Len(queue) \in Nat /\ DOMAIN queue = 1..Len(queue) /\ i \in 1..Len(queue)
    BY <1>0
  <2>6. /\ queue' \in Seq(Requests) /\ Len(queue') = Len(queue) - 1
        /\ \A k \in 1..(i - 1) : queue'[k] = queue[k]
        /\ \A k \in i..(Len(queue) - 1) : queue'[k] = queue[k + 1]
    <3>1. /\ SubSeq(queue, 1, i - 1) \in Seq(Requests) /\ Len(SubSeq(queue, 1, i - 1)) = i - 1
          /\ \A k \in 1..(i - 1) : SubSeq(queue, 1, i - 1)[k] = queue[k]
      BY <1>0, <2>5
    <3>2. /\ SubSeq(queue, i + 1, Len(queue)) \in Seq(Requests)
          /\ Len(SubSeq(queue, i + 1, Len(queue))) = Len(queue) - i
          /\ \A k \in 1..(Len(queue) - i) : SubSeq(queue, i + 1, Len(queue))[k] = queue[i + k]
      <4>1. /\ i \in Nat /\ i >= 1 /\ i <= Len(queue) /\ Len(queue) \in Nat
            /\ Len(queue) + 1 - (i + 1) = Len(queue) - i
        BY <2>5
      <4>2. \A k \in 1..(Len(queue) - i) : i + k = (i + 1) + k - 1
        BY <4>1
      <4> QED BY <1>0, <4>1, <4>2, SMTT(30)
    <3> DEFINE a == SubSeq(queue, 1, i - 1)
               b == SubSeq(queue, i + 1, Len(queue))
    <3>3. queue' = a \o b
      BY <2>3 DEF RemoveAt
    <3> HIDE DEF a, b
    <3>4. /\ a \in Seq(Requests) /\ b \in Seq(Requests)
          /\ Len(a) = i - 1 /\ Len(b) = Len(queue) - i
          /\ \A k \in 1..(i - 1) : a[k] = queue[k]
          /\ \A k \in 1..(Len(queue) - i) : b[k] = queue[i + k]
      BY <3>1, <3>2 DEF a, b
    <3>5. /\ queue' \in Seq(Requests) /\ Len(queue') = Len(a) + Len(b)
          /\ \A k \in 1..(Len(a) + Len(b)) : queue'[k] = IF k <= Len(a) THEN a[k] ELSE b[k - Len(a)]
      BY <3>3, <3>4, ConcatProperties
    <3>6. Len(queue') = Len(queue) - 1
      BY <2>5, <3>4, <3>5
    <3>7. ASSUME NEW k \in 1..(i - 1) PROVE queue'[k] = queue[k]
      BY <2>5, <3>4, <3>5
    <3>8. ASSUME NEW k \in i..(Len(queue) - 1) PROVE queue'[k] = queue[k + 1]
      <4>1. k - (i - 1) \in 1..(Len(queue) - i) /\ i + (k - (i - 1)) = k + 1
            /\ k \in 1..(Len(a) + Len(b)) /\ ~(k <= Len(a))
        BY <2>5, <3>4
      <4>2. queue'[k] = b[k - Len(a)]
        BY <3>5, <4>1
      <4>3. b[k - (i - 1)] = queue[i + (k - (i - 1))]
        BY <3>4, <4>1
      <4> QED BY <3>4, <4>1, <4>2, <4>3
    <3> QED BY <3>5, <3>6, <3>7, <3>8
  <2>7. DOMAIN queue' = 1..(Len(queue) - 1)
    BY <2>5, <2>6
  <2>8. \A k, l \in DOMAIN queue' : queue'[k] = queue'[l] => k = l
    <3> TAKE k, l \in DOMAIN queue'
    <3> HAVE queue'[k] = queue'[l]
    <3> DEFINE at(m) == IF m < i THEN m ELSE m + 1
    <3>1. \A m \in DOMAIN queue' : at(m) \in DOMAIN queue /\ queue'[m] = queue[at(m)]
      BY <2>5, <2>6, <2>7
    <3>2. at(k) = at(l)
      BY <1>0, <3>1
    <3> QED BY <2>5, <2>7, <3>2
  <2>9. \A q \in Requests : (\E k \in DOMAIN queue' : queue'[k] = q) <=> (In(q) /\ q # r)
    <3> TAKE q \in Requests
    <3>1. ASSUME NEW k \in DOMAIN queue' PROVE In(queue'[k]) /\ queue'[k] # r
      <4>1. CASE k < i
        BY <1>0, <2>3, <2>5, <2>6, <2>7, <4>1
      <4>2. CASE k >= i
        <5>1. k + 1 \in DOMAIN queue /\ queue'[k] = queue[k + 1] /\ k + 1 # i
          BY <2>5, <2>6, <2>7, <4>2
        <5> QED BY <1>0, <2>3, <5>1
      <4> QED BY <2>5, <2>7, <4>1, <4>2
    <3>2. ASSUME NEW k \in DOMAIN queue, queue[k] = q, q # r PROVE \E l \in DOMAIN queue' : queue'[l] = q
      <4>1. CASE k < i
        BY <2>5, <2>6, <2>7, <3>2, <4>1, SMTT(30)
      <4>2. CASE k > i
        <5>1. k - 1 \in i..(Len(queue) - 1) /\ (k - 1) + 1 = k /\ k - 1 \in DOMAIN queue'
          BY <2>5, <2>7, <4>2
        <5> QED BY <2>6, <3>2, <5>1
      <4> QED BY <2>3, <2>5, <3>2, <4>1, <4>2
    <3> QED BY <3>1, <3>2
  <2>10. \A q \in Requests : phase'[q] = "queued" <=> (In(q) /\ q # r)
    <3>1. phase'[r] # "queued" /\ \A q \in Requests : q # r => phase'[q] = phase[q]
      BY <2>4 DEF CallTypes
    <3> HIDE DEF In
    <3> QED BY <1>0, <3>1
  <2> QED BY <2>6, <2>8, <2>9, <2>10 DEF QueueIsOfTheQueued
<1>3. CASE ~Call(r) /\ ~AcquirePermit(r)
  <2>1. queue' = queue /\ (phase[r] = "queued" <=> phase'[r] = "queued")
    <3> USE DEF Return, Fail, CallTypes
    <3>1. CASE \E met \in Attempts : Attempt(r, met)
      BY <3>1 DEF Attempt
    <3>2. CASE RetryDelay(r) \/ ReadBody(r) \/ SendStreamError(r)
      BY <3>2 DEF RetryDelay, ReadBody, SendStreamError
    <3>3. CASE ReceiveChunk(r)
      BY <3>3 DEF ReceiveChunk, Decode, Finish
    <3>4. CASE HandOver(r)
      BY <3>4 DEF HandOver
    <3>5. CASE Take(r) \/ Drop(r) \/ Cancel(r) \/ DeadlinePasses(r)
      BY <3>5 DEF Take, Drop, Cancel, DeadlinePasses
    <3> QED BY <1>3, <3>1, <3>2, <3>3, <3>4, <3>5 DEF Step, Task
  <2>2. \A q \in Requests : phase'[q] = "queued" <=> phase[q] = "queued"
    BY <2>1, OthersStay
  <2> QED BY <1>0, <2>1, <2>2 DEF QueueIsOfTheQueued
<1> QED BY <1>1, <1>2, <1>3

-----------------------------------------------------------------------------
(* An answer up to its done marker.                                          *)

LEMMA BeforeDoneIs ==
  ASSUME NEW events \in Seq(Events)
  PROVE  \/ BeforeDone(events) = events /\ \A i \in 1..Len(events) : events[i] # "done"
         \/ \E j \in 1..Len(events) : /\ events[j] = "done" /\ \A i \in 1..(j - 1) : events[i] # "done"
                                      /\ BeforeDone(events) = SubSeq(events, 1, j - 1)
<1> DEFINE marks == {i \in DOMAIN events : events[i] = "done"}
           first == CHOOSE i \in marks : \A j \in marks : i <= j
<1>1. DOMAIN events = 1..Len(events) /\ Len(events) \in Nat
  OBVIOUS
<1>2. CASE marks = {}
  BY <1>1, <1>2 DEF BeforeDone
<1>3. CASE marks # {}
  <2>1. marks \in SUBSET Nat
    BY <1>1
  <2>2. \E i \in marks : \A j \in marks : i <= j
    BY <1>3, <2>1, SmallestNat
  <2>3. first \in marks /\ \A j \in marks : first <= j
    BY <2>2
  <2>4. BeforeDone(events) = SubSeq(events, 1, first - 1)
    BY <1>3 DEF BeforeDone
  <2> HIDE DEF first
  <2>5. \A i \in 1..(first - 1) : events[i] # "done"
    BY <1>1, <2>3
  <2> QED BY <1>1, <2>3, <2>4, <2>5
<1> QED BY <1>2, <1>3

\* The text read up to an event before the marker is the first of what is told.
LEMMA ReadIsTold ==
  ASSUME NEW events \in Seq(Events), NEW k \in 0..Len(events), \A i \in 1..k : events[i] # "done"
  PROVE  IsPrefix(TextOf(SubSeq(events, 1, k)), TextOf(BeforeDone(events)))
<1>1. CASE BeforeDone(events) = events
  BY <1>1, TextOfFirst
<1>2. ASSUME NEW j \in 1..Len(events), events[j] = "done", BeforeDone(events) = SubSeq(events, 1, j - 1)
      PROVE  IsPrefix(TextOf(SubSeq(events, 1, k)), TextOf(BeforeDone(events)))
  <2>1. k \in 0..(j - 1) /\ j - 1 \in 0..Len(events)
    BY <1>2
  <2> DEFINE told == SubSeq(events, 1, j - 1)
  <2>2. told \in Seq(Events) /\ Len(told) = j - 1
    BY <2>1
  <2>3. SubSeq(told, 1, k) = SubSeq(events, 1, k)
    BY <2>1
  <2> HIDE DEF told
  <2>4. IsPrefix(TextOf(SubSeq(told, 1, k)), TextOf(told))
    BY <2>1, <2>2, TextOfFirst
  <2> QED BY <1>2, <2>3, <2>4 DEF told
<1> QED BY <1>1, <1>2, BeforeDoneIs

\* At the marker all of it was read.
LEMMA MarkerEndsIt ==
  ASSUME NEW events \in Seq(Events), NEW k \in Nat, k + 1 <= Len(events),
         \A i \in 1..k : events[i] # "done", events[k + 1] = "done"
  PROVE  BeforeDone(events) = SubSeq(events, 1, k)
<1>1. k + 1 \in 1..Len(events)
  OBVIOUS
<1>2. PICK j \in 1..Len(events) : /\ events[j] = "done" /\ \A i \in 1..(j - 1) : events[i] # "done"
                                  /\ BeforeDone(events) = SubSeq(events, 1, j - 1)
  BY <1>1, BeforeDoneIs
<1>3. ~(k + 1 <= j - 1) /\ ~(j <= k)
  <2>1. j <= k => j \in 1..k
    OBVIOUS
  <2>2. k + 1 <= j - 1 => k + 1 \in 1..(j - 1)
    OBVIOUS
  <2> QED BY <1>2, <2>1, <2>2
<1>4. j - 1 = k
  BY <1>3
<1> QED BY <1>2, <1>4

LEMMA PrefixOfPrefix ==
  ASSUME NEW a \in Seq(Texts), NEW b \in Seq(Texts), NEW c \in Seq(Texts),
         IsPrefix(a, b), IsPrefix(b, c)
  PROVE  IsPrefix(a, c)
<1>1. Len(a) <= Len(b) /\ Len(b) <= Len(c) /\ Len(a) \in Nat /\ Len(b) \in Nat /\ Len(c) \in Nat
  BY DEF IsPrefix
<1>2. \A i \in 1..Len(a) : a[i] = b[i]
  <2>1. SubSeq(a, 1, Len(a)) = SubSeq(b, 1, Len(a))
    BY DEF IsPrefix
  <2>2. \A i \in 1..Len(a) : SubSeq(a, 1, Len(a))[i] = a[i] /\ SubSeq(b, 1, Len(a))[i] = b[i]
    BY <1>1
  <2> QED BY <2>1, <2>2
<1>3. \A i \in 1..Len(b) : b[i] = c[i]
  <2>1. SubSeq(b, 1, Len(b)) = SubSeq(c, 1, Len(b))
    BY DEF IsPrefix
  <2>2. \A i \in 1..Len(b) : SubSeq(b, 1, Len(b))[i] = b[i] /\ SubSeq(c, 1, Len(b))[i] = c[i]
    BY <1>1
  <2> QED BY <2>1, <2>2
<1>4. \A i \in 1..Len(a) : a[i] = c[i]
  BY <1>1, <1>2, <1>3
<1>5. SubSeq(a, 1, Len(a)) = SubSeq(c, 1, Len(a))
  BY <1>1, <1>4
<1> QED BY <1>1, <1>5 DEF IsPrefix

LEMMA FirstOfConcat ==
  ASSUME NEW S, NEW s \in Seq(S), NEW u \in Seq(S)
  PROVE  s \o u \in Seq(S) /\ Len(s) \in 0..Len(s \o u) /\ SubSeq(s \o u, 1, Len(s)) = s
<1> DEFINE both == s \o u
<1>1. /\ both \in Seq(S) /\ Len(both) = Len(s) + Len(u)
      /\ \A i \in 1..Len(s) : both[i] = s[i]
  BY ConcatProperties
<1> HIDE DEF both
<1>2. Len(s) \in Nat /\ Len(u) \in Nat
  OBVIOUS
<1>3. SubSeq(both, 1, Len(s)) = s
  BY <1>1, <1>2
<1> QED BY <1>1, <1>2, <1>3 DEF both

LEMMA ToldIsText ==
  ASSUME CallTypes, NEW r \in Requests
  PROVE  Told(r) \in Seq(Texts)
<1>1. answer[r].events \in Seq(Events)
  BY DEF CallTypes, Bodies
<1>2. BeforeDone(answer[r].events) \in Seq(Events)
  <2>1. \A j \in 1..Len(answer[r].events) : SubSeq(answer[r].events, 1, j - 1) \in Seq(Events)
    BY <1>1
  <2> QED BY <1>1, <2>1, BeforeDoneIs
<1>3. 0 \in 0..Len(BeforeDone(answer[r].events))
  BY <1>2
<1> QED BY <1>2, <1>3, TextOfFirst DEF Told

LEMMA MoreItems ==
  ASSUME NEW S, NEW s \in Seq(S), NEW u \in Seq(S), NEW x \in S
  PROVE  s \o Append(u, x) = Append(s \o u, x) /\ s \o u \in Seq(S)
<1>1. <<x>> \in Seq(S) /\ Append(u, x) = u \o <<x>> /\ s \o u \in Seq(S)
  BY AppendIsConcat
<1>2. Append(s \o u, x) = (s \o u) \o <<x>>
  BY <1>1, AppendIsConcat
<1>3. (s \o u) \o <<x>> = s \o (u \o <<x>>)
  BY <1>1, ConcatAssociative
<1> QED BY <1>1, <1>2, <1>3

LEMMA MovedItem ==
  ASSUME NEW S, NEW s \in Seq(S), NEW u \in Seq(S), u # <<>>
  PROVE  Append(s, Head(u)) \o Tail(u) = s \o u /\ Append(s, Head(u)) \in Seq(S)
<1>1. Head(u) \in S /\ Tail(u) \in Seq(S) /\ Append(s, Head(u)) = s \o <<Head(u)>> /\ <<Head(u)>> \in Seq(S)
  BY AppendIsConcat
<1>2. u = <<Head(u)>> \o Tail(u)
  OBVIOUS
<1> DEFINE h == <<Head(u)>>
           v == Tail(u)
<1>3. (s \o h) \o v = s \o (h \o v)
  <2>1. h \in Seq(S) /\ v \in Seq(S)
    BY <1>1
  <2> HIDE DEF h, v
  <2> QED BY <2>1, ConcatAssociative, SMTT(30)
<1>4. Append(s, Head(u)) \in Seq(S)
  BY <1>1
<1> QED BY <1>1, <1>2, <1>3, <1>4

\* What a caller has heard of an open stream is faithful.
LEMMA OpenIsFaithful ==
  ASSUME CallTypes, NEW r \in open, OneStream(r)
  PROVE  Faithful(r)
<1>0. r \in Requests /\ answer[r].events \in Seq(Events) /\ heard[r] \in Seq(Untold) /\ channel[r] \in Seq(Untold)
  BY DEF CallTypes, Bodies, OneStream
<1>1. PICK k \in 0..Len(answer[r].events) : Read(r, k)
  BY DEF OneStream
<1>2. Items(r) \in Seq(Untold) /\ Len(heard[r]) \in 0..Len(Items(r)) /\ SubSeq(Items(r), 1, Len(heard[r])) = heard[r]
  BY <1>0, FirstOfConcat DEF Items
<1>3. /\ IsPrefix(TextOf(heard[r]), TextOf(Items(r)))
      /\ TextOf(Items(r)) \in Seq(Texts) /\ TextOf(heard[r]) \in Seq(Texts)
  <2>1. IsPrefix(TextOf(SubSeq(Items(r), 1, Len(heard[r]))), TextOf(Items(r))) /\ TextOf(Items(r)) \in Seq(Texts)
    BY <1>2, TextOfFirst
  <2>2. Len(heard[r]) \in 0..Len(heard[r])
    BY <1>0
  <2>3. TextOf(heard[r]) \in Seq(Texts)
    BY <1>0, <2>2, TextOfFirst
  <2> QED BY <1>2, <2>1, <2>3
<1>4. IsPrefix(TextOf(Items(r)), Told(r))
  BY <1>0, <1>1, ReadIsTold DEF Read, Told
<1>5. Told(r) \in Seq(Texts)
  BY <1>0, ToldIsText
<1>6. IsPrefix(TextOf(heard[r]), Told(r))
  BY <1>3, <1>4, <1>5, PrefixOfPrefix
<1>7. heard[r] # <<>> => Last(heard[r]) # "end"
  <2>1. "end" \notin Untold
    BY ProviderAssumption DEF Untold, Errors
  <2>2. heard[r] # <<>> => Last(heard[r]) \in Untold
    BY <1>0 DEF Last
  <2> QED BY <2>1, <2>2
<1> QED BY <1>6, <1>7 DEF Faithful

-----------------------------------------------------------------------------
(* The stream of one call.                                                   *)

LEMMA InitStream == Init => StreamInv
<1> SUFFICES ASSUME Init, NEW r \in Requests PROVE OneStream(r)
  BY DEF StreamInv
<1>1. CallTypes
  BY InitCalls
<1>2. phase[r] = "idle" /\ r \notin open /\ heard[r] = <<>> /\ channel[r] = <<>> /\ batch[r] = <<>>
      /\ rest[r] = answer[r].events
  BY DEF Init
<1>3. Faithful(r)
  <2>1. Told(r) \in Seq(Texts)
    BY <1>1, ToldIsText
  <2> QED BY <1>2, <2>1, TextOfNone DEF Faithful, IsPrefix
<1> QED BY <1>2, <1>3 DEF OneStream

\* A call whose stream is not touched.
LEMMA QuietStep ==
  ASSUME NEW r \in Requests, OneStream(r), answer' = answer,
         rest'[r] = rest[r], batch'[r] = batch[r], channel'[r] = channel[r], heard'[r] = heard[r],
         r \in open' <=> r \in open,
         \/ phase'[r] = phase[r]
         \/ phase[r] \in NotBegun /\ phase'[r] \in NotBegun \cup {"ended"}
  PROVE  OneStream(r)'
<1>2. Items(r)' = Items(r) /\ Told(r)' = Told(r)
  BY DEF Items, Told
<1>3. Faithful(r) => Faithful(r)'
  BY <1>2 DEF Faithful
<1>4. CASE phase'[r] = phase[r]
  <2>1. \A k \in 0..Len(answer[r].events) : (Read(r, k) => Read(r, k)') /\ (Ahead(r, k) => Ahead(r, k)')
    BY <1>2 DEF Read, Ahead
  <2>2. Settled(r) => Settled(r)'
    BY <1>2 DEF Settled
  <2> QED BY <1>3, <1>4, <2>1, <2>2 DEF OneStream
<1>5. CASE phase[r] \in NotBegun /\ phase'[r] \in NotBegun \cup {"ended"}
  BY <1>3, <1>5 DEF OneStream, NotBegun
<1> QED BY <1>4, <1>5

\* The other calls' streams do not change.
LEMMA OtherStreamsStay ==
  ASSUME CallTypes, NEW r \in Requests, Step(r), NEW q \in Requests, q # r, OneStream(q)
  PROVE  OneStream(q)'
BY PhasesKeepTypes, OthersStay, QuietStep

\* The stream's task goes on, or ends, where its caller has let go.
LEMMA UnheardStep ==
  ASSUME NEW r \in Requests, r \notin open, r \notin open', Faithful(r), heard'[r] = heard[r],
         answer' = answer, phase'[r] \notin NotBegun
  PROVE  OneStream(r)'
BY DEF OneStream, Faithful, Told

\* A stream that fails before its last item.
LEMMA FailingStep ==
  ASSUME NEW r \in open, OneStream(r), UNCHANGED <<answer, heard, channel, open>>,
         phase'[r] = "failing"
  PROVE  OneStream(r)'
<1>1. Items(r)' = Items(r)
  BY DEF Items
<1>2. \A k \in 0..Len(answer[r].events) : Read(r, k) => Read(r, k)'
  BY <1>1 DEF Read
<1> QED BY <1>2 DEF OneStream, NotBegun

\* A stream that ends with its marker.
LEMMA MarkedStep ==
  ASSUME CallTypes, NEW r \in open, OneStream(r), UNCHANGED <<answer, heard, channel, open>>,
         phase'[r] = "ended",
         NEW k \in 0..Len(answer[r].events), Read(r, k), k + 1 <= Len(answer[r].events),
         answer[r].events[k + 1] = "done"
  PROVE  OneStream(r)'
<1>0. answer[r].events \in Seq(Events) /\ k \in Nat /\ r \in Requests
  BY DEF CallTypes, Bodies
<1>1. Items(r)' = Items(r) /\ Told(r)' = Told(r)
  BY DEF Items, Told
<1>2. Read(r, k)'
  BY <1>1 DEF Read
<1>3. BeforeDone(answer[r].events) = SubSeq(answer[r].events, 1, k)
  BY <1>0, MarkerEndsIt DEF Read
<1>4. TextOf(Items(r)) = Told(r)
  BY <1>3 DEF Read, Told
<1>5. k + 1 \in DOMAIN answer[r].events
  BY <1>0
<1>6. Settled(r)'
  BY <1>1, <1>4, <1>5 DEF Settled
<1> QED BY <1>2, <1>6 DEF OneStream, NotBegun

\* The stream's task takes the next event of its batch.
LEMMA NextEvent ==
  ASSUME CallTypes, NEW r \in Requests, NEW k \in 0..Len(answer[r].events), Ahead(r, k), batch[r] # <<>>
  PROVE  \/ k = Len(answer[r].events) /\ Head(batch[r]) = "cut"
         \/ k + 1 <= Len(answer[r].events) /\ Head(batch[r]) = answer[r].events[k + 1]
<1> DEFINE e == answer[r].events
           b == batch[r]
           n == Len(e)
           m == Len(b)
           l == Len(rest[r])
<1>1. n \in Nat /\ m \in Nat \ {0} /\ l \in Nat /\ k \in Nat /\ Head(b) = b[1]
  <2>1. b \in Seq(Decoded) /\ e \in Seq(Events) /\ rest[r] \in Seq(Events)
    BY DEF CallTypes, Bodies
  <2> HIDE DEF e, b
  <2> QED BY <2>1 DEF b
<1>2. \/ m + l = n - k /\ \A i \in 1..m : b[i] = e[k + i]
      \/ m = (n - k) + 1 /\ b[(n - k) + 1] = "cut" /\ \A i \in 1..(n - k) : b[i] = e[k + i]
  BY DEF Ahead
<1>3. k <= n
  BY <1>1
<1> HIDE DEF e, b, n, m, l
<1>4. CASE m + l = n - k /\ \A i \in 1..m : b[i] = e[k + i]
  <2>1. 1 \in 1..m /\ k + 1 <= n
    BY <1>1, <1>4
  <2> QED BY <1>1, <1>4, <2>1 DEF b, n, e
<1>5. CASE m = (n - k) + 1 /\ b[(n - k) + 1] = "cut" /\ \A i \in 1..(n - k) : b[i] = e[k + i]
  <2>1. CASE k = n
    <3>1. (n - k) + 1 = 1
      BY <1>1, <2>1
    <3> QED BY <1>1, <1>5, <2>1, <3>1 DEF b, n, e
  <2>2. CASE k # n
    <3>1. 1 \in 1..(n - k) /\ k + 1 <= n
      BY <1>1, <1>3, <2>2
    <3> QED BY <1>1, <1>5, <3>1 DEF b, n, e
  <2> QED BY <2>1, <2>2
<1> QED BY <1>2, <1>4, <1>5

LEMMA EventTaken ==
  ASSUME CallTypes, NEW r \in Requests, NEW k \in 0..Len(answer[r].events), Ahead(r, k), batch[r] # <<>>,
         k + 1 <= Len(answer[r].events),
         answer' = answer, rest'[r] = rest[r], batch'[r] = Tail(batch[r])
  PROVE  Ahead(r, k + 1)'
<1> DEFINE e == answer[r].events
           b == batch[r]
           c == batch'[r]
           n == Len(e)
           m == Len(b)
           l == Len(rest[r])
<1>1. /\ n \in Nat /\ m \in Nat \ {0} /\ l \in Nat /\ k \in Nat /\ k + 1 <= n
      /\ Len(c) = m - 1 /\ \A i \in 1..(m - 1) : c[i] = b[i + 1]
  <2>1. b \in Seq(Decoded) /\ e \in Seq(Events) /\ rest[r] \in Seq(Events) /\ b # <<>> /\ c = Tail(b)
    BY DEF CallTypes, Bodies
  <2> HIDE DEF e, b, c
  <2>2. Len(c) = m - 1 /\ \A i \in 1..(m - 1) : c[i] = b[i + 1]
    BY <2>1, HeadTailProperties
  <2> QED BY <2>1, <2>2 DEF e
<1>2. \/ /\ m + l = n - k /\ \A i \in 1..m : b[i] = e[k + i]
         /\ \A i \in 1..l : rest[r][i] = e[k + m + i]
      \/ /\ rest[r] = <<>> /\ m = (n - k) + 1 /\ b[(n - k) + 1] = "cut"
         /\ \A i \in 1..(n - k) : b[i] = e[k + i]
  BY DEF Ahead
<1> DEFINE After == \/ /\ Len(c) + l = n - (k + 1) /\ \A i \in 1..Len(c) : c[i] = e[k + 1 + i]
                       /\ \A i \in 1..l : rest[r][i] = e[k + 1 + Len(c) + i]
                    \/ /\ rest[r] = <<>> /\ Len(c) = (n - (k + 1)) + 1 /\ c[(n - (k + 1)) + 1] = "cut"
                       /\ \A i \in 1..(n - (k + 1)) : c[i] = e[k + 1 + i]
<1>3. SUFFICES After
  BY DEF Ahead
<1> HIDE DEF e, b, c, n, m, l
<1>4. CASE /\ m + l = n - k /\ \A i \in 1..m : b[i] = e[k + i]
           /\ \A i \in 1..l : rest[r][i] = e[k + m + i]
  <2>1. Len(c) + l = n - (k + 1)
    BY <1>1, <1>4
  <2>2. ASSUME NEW i \in 1..Len(c) PROVE c[i] = e[k + 1 + i]
    <3>1. i \in 1..(m - 1) /\ i + 1 \in 1..m /\ k + (i + 1) = k + 1 + i
      BY <1>1
    <3>2. c[i] = b[i + 1] /\ b[i + 1] = e[k + (i + 1)]
      BY <1>1, <1>4, <3>1
    <3> QED BY <3>1, <3>2
  <2>3. ASSUME NEW i \in 1..l PROVE rest[r][i] = e[k + 1 + Len(c) + i]
    <3>1. k + 1 + Len(c) + i = k + m + i
      BY <1>1
    <3> QED BY <1>4, <3>1
  <2> QED BY <2>1, <2>2, <2>3
<1>5. CASE /\ rest[r] = <<>> /\ m = (n - k) + 1 /\ b[(n - k) + 1] = "cut"
           /\ \A i \in 1..(n - k) : b[i] = e[k + i]
  <2>1. (n - (k + 1)) + 1 \in 1..(m - 1) /\ ((n - (k + 1)) + 1) + 1 = (n - k) + 1
        /\ Len(c) = (n - (k + 1)) + 1
    BY <1>1, <1>5
  <2>2. c[(n - (k + 1)) + 1] = "cut"
    BY <1>1, <1>5, <2>1
  <2>3. ASSUME NEW i \in 1..(n - (k + 1)) PROVE c[i] = e[k + 1 + i]
    <3>1. i \in 1..(m - 1) /\ i + 1 \in 1..(n - k) /\ k + (i + 1) = k + 1 + i
      BY <1>1, <1>5
    <3>2. c[i] = b[i + 1] /\ b[i + 1] = e[k + (i + 1)]
      BY <1>1, <1>5, <3>1
    <3> QED BY <3>1, <3>2
  <2> QED BY <1>5, <2>1, <2>2, <2>3
<1> QED BY <1>2, <1>4, <1>5

\* An event without a text, or one handed over.
LEMMA EventRead ==
  ASSUME CallTypes, NEW r \in Requests, NEW k \in 0..Len(answer[r].events), Read(r, k),
         k + 1 <= Len(answer[r].events), answer' = answer, heard'[r] = heard[r],
         NEW event, event = answer[r].events[k + 1], event # "done",
         \/ event \in Texts /\ channel'[r] = Append(channel[r], event)
         \/ event \notin Texts /\ channel'[r] = channel[r]
  PROVE  Read(r, k + 1)'
<1> DEFINE e == answer[r].events
<1>1. e \in Seq(Events) /\ k \in Nat /\ k + 1 \in 0..Len(e) /\ event \in Events /\ heard[r] \in Seq(Heard)
      /\ channel[r] \in Seq(Untold) /\ channel[r] \in Seq(Heard)
  <2>1. e \in Seq(Events) /\ heard[r] \in Seq(Heard) /\ channel[r] \in Seq(Untold)
    BY DEF CallTypes, Bodies
  <2>2. channel[r] \in Seq(Heard)
    BY <2>1, SeqMonotonic, Untold \subseteq Heard DEF Heard
  <2> QED BY <2>1, <2>2
<1> HIDE DEF e
<1>2. SubSeq(e, 1, k) \in Seq(Events) /\ SubSeq(e, 1, k + 1) = Append(SubSeq(e, 1, k), event)
  BY <1>1 DEF e
<1>3. TextOf(SubSeq(e, 1, k + 1)) =
        IF event \in Texts THEN Append(TextOf(SubSeq(e, 1, k)), event) ELSE TextOf(SubSeq(e, 1, k))
  <2> DEFINE s == SubSeq(e, 1, k)
  <2>1. s \in Seq(Events) /\ SubSeq(e, 1, k + 1) = Append(s, event)
    BY <1>2
  <2> HIDE DEF s
  <2>2. TextOf(Append(s, event)) = IF event \in Texts THEN Append(TextOf(s), event) ELSE TextOf(s)
    BY <1>1, <2>1, TextOfMore
  <2> QED BY <2>1, <2>2 DEF s
<1>4. TextOf(Items(r))' = IF event \in Texts THEN Append(TextOf(Items(r)), event) ELSE TextOf(Items(r))
  <2>1. CASE event \notin Texts
    BY <2>1 DEF Items
  <2>2. CASE event \in Texts
    <3>1. event \in Heard
      BY <2>2 DEF Heard, Untold
    <3>2. Items(r)' = Append(Items(r), event) /\ Items(r) \in Seq(Heard)
      <4>1. heard[r] \o Append(channel[r], event) = Append(heard[r] \o channel[r], event)
            /\ heard[r] \o channel[r] \in Seq(Heard)
        <5> DEFINE s == heard[r]
                   u == channel[r]
        <5>1. s \in Seq(Heard) /\ u \in Seq(Heard)
          BY <1>1
        <5> HIDE DEF s, u
        <5>2. s \o Append(u, event) = Append(s \o u, event) /\ s \o u \in Seq(Heard)
          BY <3>1, <5>1, MoreItems
        <5> QED BY <5>2 DEF s, u
      <4>2. channel'[r] = Append(channel[r], event)
        BY <2>2
      <4> QED BY <4>1, <4>2 DEF Items
    <3> QED BY <2>2, <3>1, <3>2, TextOfMore
  <2> QED BY <2>1, <2>2
<1>5. \A i \in 1..(k + 1) : e[i] # "done"
  BY <1>1 DEF Read, e
<1>6. TextOf(Items(r)) = TextOf(SubSeq(e, 1, k))
  BY DEF Read, e
<1>7. TextOf(Items(r))' = TextOf(SubSeq(e, 1, k + 1))
  BY <1>3, <1>4, <1>6
<1> QED BY <1>1, <1>5, <1>7 DEF Read, e

\* A response arrives, or the attempt fails.
LEMMA AttemptStreams ==
  ASSUME CallTypes, NEW r \in Requests, OneStream(r), NEW met \in Attempts, Attempt(r, met)
  PROVE  OneStream(r)'
<1>1. /\ phase[r] \in NotBegun /\ answer' = answer
      /\ rest'[r] = rest[r] /\ batch'[r] = batch[r] /\ channel'[r] = channel[r] /\ heard'[r] = heard[r]
  BY DEF Attempt, NotBegun
<1>2. \/ (r \in open' <=> r \in open) /\ phase'[r] \in NotBegun \cup {"ended"}
      \/ r \in open' /\ phase'[r] = "streaming"
  BY DEF Attempt, NotBegun, Return, CallTypes
<1>3. CASE (r \in open' <=> r \in open) /\ phase'[r] \in NotBegun \cup {"ended"}
  BY <1>1, <1>3, QuietStep
<1>4. CASE r \in open' /\ phase'[r] = "streaming"
  <2>1. heard[r] = <<>> /\ channel[r] = <<>> /\ batch[r] = <<>> /\ rest[r] = answer[r].events
    BY <1>1 DEF OneStream
  <2>2. answer[r].events \in Seq(Events) /\ 0 \in 0..Len(answer[r].events)
    BY DEF CallTypes, Bodies
  <2>3. Read(r, 0)'
    <3>1. SubSeq(answer[r].events, 1, 0) = <<>>
      BY SubSeqEmpty
    <3>2. <<>> \o <<>> = <<>>
      OBVIOUS
    <3>3. Items(r)' = <<>>
      BY <1>1, <2>1, <3>2 DEF Items
    <3>4. TextOf(Items(r))' = TextOf(SubSeq(answer'[r].events, 1, 0))
      BY <1>1, <3>1, <3>3
    <3>5. 0 \in 0..Len(answer'[r].events) /\ \A i \in 1..0 : answer'[r].events[i] # "done"
      BY <1>1, <2>2
    <3> QED BY <3>4, <3>5 DEF Read
  <2>4. Ahead(r, 0)'
    <3>1. batch'[r] = <<>> /\ rest'[r] = answer[r].events /\ Len(<<>>) = 0
      BY <1>1, <2>1
    <3>2. Len(answer[r].events) \in Nat
      BY <2>2
    <3>3. \A i \in 1..Len(answer[r].events) : 0 + 0 + i = i
      BY <3>2
    <3> QED BY <1>1, <3>1, <3>2, <3>3 DEF Ahead
  <2>5. heard'[r] \in Seq(Untold)
    BY <1>1, <2>1
  <2> QED BY <1>1, <1>4, <2>2, <2>3, <2>4, <2>5 DEF OneStream, NotBegun
<1> QED BY <1>2, <1>3, <1>4

\* Events move from the body into the batch.
LEMMA ChunkStreams ==
  ASSUME CallTypes, NEW r \in Requests, OneStream(r), ReceiveChunk(r)
  PROVE  OneStream(r)'
<1>0. /\ phase[r] = "streaming" /\ batch[r] = <<>> /\ UNCHANGED <<answer, channel, heard, open>>
  BY DEF ReceiveChunk, callVars
<1>1. CASE r \notin open /\ Return(r, "ok")
  BY <1>0, <1>1, UnheardStep DEF Return, NotBegun, OneStream, CallTypes
<1>2. ASSUME r \in open, NEW error, Fail(r, error)
      PROVE  OneStream(r)'
  BY <1>0, <1>2, FailingStep DEF Fail, CallTypes
<1>3. ASSUME r \in open
      PROVE  \E k \in 0..Len(answer[r].events) :
               /\ Read(r, k) /\ Len(rest[r]) = Len(answer[r].events) - k
               /\ \A i \in 1..Len(rest[r]) : rest[r][i] = answer[r].events[k + i]
  <2>1. PICK k \in 0..Len(answer[r].events) : Read(r, k) /\ Ahead(r, k)
    BY <1>0, <1>3 DEF OneStream
  <2>2. Len(batch[r]) = 0 /\ Len(answer[r].events) \in Nat /\ k <= Len(answer[r].events) /\ k \in Nat
        /\ Len(rest[r]) \in Nat
    BY <1>0 DEF CallTypes, Bodies
  <2>3. ~(Len(batch[r]) = (Len(answer[r].events) - k) + 1)
    BY <2>2
  <2>4. \A i \in 1..Len(rest[r]) : k + Len(batch[r]) + i = k + i
    BY <2>2
  <2>5. /\ Len(batch[r]) + Len(rest[r]) = Len(answer[r].events) - k
        /\ \A i \in 1..Len(rest[r]) : rest[r][i] = answer[r].events[k + Len(batch[r]) + i]
    BY <2>1, <2>3 DEF Ahead
  <2> QED BY <2>1, <2>2, <2>4, <2>5
<1>4. ASSUME r \in open, NEW k \in 0..Len(answer[r].events), Read(r, k), Ahead(r, k)', phase' = phase
      PROVE  OneStream(r)'
  <2>1. Read(r, k)'
    BY <1>0, <1>4 DEF Read, Items
  <2> QED BY <1>0, <1>4, <2>1 DEF OneStream, NotBegun
<1> DEFINE e == answer[r].events
           old == rest[r]
           n == Len(e)
           l == Len(old)
<1>5. e \in Seq(Events) /\ old \in Seq(Events) /\ n \in Nat /\ l \in Nat
  BY DEF CallTypes, Bodies
<1>6. ASSUME r \in open, NEW p \in 1..Complete(r), Decode(r, p),
             rest' = [rest EXCEPT ![r] = SubSeq(@, p + 1, Len(@))]
      PROVE  OneStream(r)'
  <2>1. CASE Fail(r, "StreamProtocol")
    BY <1>2, <1>6, <2>1
  <2>2. CASE batch' = [batch EXCEPT ![r] = SubSeq(rest[r], 1, p)] /\ phase' = phase
    <3>1. PICK k \in 0..n : Read(r, k) /\ l = n - k /\ \A i \in 1..l : old[i] = e[k + i]
      BY <1>3, <1>6
    <3>2. p \in Nat /\ 1 <= p /\ p <= l
      BY <1>5, <1>6 DEF Complete
    <3>3. batch'[r] = SubSeq(old, 1, p) /\ rest'[r] = SubSeq(old, p + 1, l)
      BY <1>6, <2>2 DEF CallTypes
    <3> HIDE DEF e, old, n, l
    <3>4. /\ Len(SubSeq(old, 1, p)) = p /\ \A i \in 1..p : SubSeq(old, 1, p)[i] = old[i]
          /\ Len(SubSeq(old, p + 1, l)) = l - p /\ \A i \in 1..(l - p) : SubSeq(old, p + 1, l)[i] = old[p + i]
      BY <1>5, <3>2 DEF l
    <3>5. ASSUME NEW i \in 1..p PROVE batch'[r][i] = e[k + i]
      <4>1. i \in 1..l
        BY <1>5, <3>2
      <4>2. batch'[r][i] = old[i]
        BY <3>3, <3>4
      <4> QED BY <3>1, <4>1, <4>2
    <3>6. ASSUME NEW i \in 1..(l - p) PROVE rest'[r][i] = e[k + p + i]
      <4>1. p + i \in 1..l /\ k + (p + i) = k + p + i
        BY <1>5, <3>2, <3>1
      <4>2. rest'[r][i] = old[p + i] /\ old[p + i] = e[k + (p + i)]
        BY <3>1, <3>3, <3>4, <4>1
      <4> QED BY <4>1, <4>2
    <3>7. p + (l - p) = n - k
      BY <1>5, <3>1, <3>2
    <3>8. Ahead(r, k)'
      BY <1>0, <3>3, <3>4, <3>5, <3>6, <3>7 DEF Ahead, e, n
    <3> QED BY <1>4, <1>6, <2>2, <3>1, <3>8 DEF e, n
  <2> QED BY <1>6, <2>1, <2>2 DEF Decode
<1>7. ASSUME r \in open, Finish(r), rest' = [rest EXCEPT ![r] = <<>>]
      PROVE  OneStream(r)'
  <2>1. PICK k \in 0..n : Read(r, k) /\ l = n - k /\ \A i \in 1..l : old[i] = e[k + i]
    BY <1>3, <1>7
  <2>2. CASE Fail(r, "Transport") \/ Fail(r, "StreamProtocol")
    BY <1>2, <1>7, <2>2
  <2>3. CASE old = <<"done">> /\ Return(r, "ok")
    <3>1. l = 1 /\ old[1] = "done" /\ k \in Nat
      BY <2>3
    <3>2. k + 1 <= n /\ e[k + 1] = "done"
      <4>1. l = n - k /\ (\A i \in 1..l : old[i] = e[k + i]) /\ n \in Nat
        BY <1>5, <2>1
      <4> HIDE DEF e, old, n, l
      <4>2. k + 1 <= n /\ 1 \in 1..l
        BY <3>1, <4>1
      <4> QED BY <3>1, <4>1, <4>2
    <3>3. phase'[r] = "ended"
      BY <2>3 DEF Return, CallTypes
    <3> QED BY <1>0, <1>7, <2>1, <3>2, <3>3, MarkedStep
  <2>4. CASE batch' = [batch EXCEPT ![r] = old \o <<"cut">>] /\ phase' = phase
    <3>1. batch'[r] = old \o <<"cut">> /\ rest'[r] = <<>>
      BY <1>7, <2>4 DEF CallTypes
    <3>2. batch'[r] = Append(old, "cut")
      <4>1. old \in Seq(Decoded) /\ "cut" \in Decoded
        BY <1>5, SeqMonotonic, Events \subseteq Decoded DEF Decoded
      <4> HIDE DEF old
      <4> QED BY <3>1, <4>1, AppendIsConcat
    <3> HIDE DEF e, old, n, l
    <3>3. /\ Len(Append(old, "cut")) = l + 1 /\ Append(old, "cut")[l + 1] = "cut"
          /\ \A i \in 1..l : Append(old, "cut")[i] = old[i]
      BY <1>5 DEF l
    <3>4. Ahead(r, k)'
      BY <1>0, <2>1, <3>1, <3>2, <3>3 DEF Ahead, e, n
    <3> QED BY <1>4, <1>7, <2>1, <2>4, <3>4 DEF e, n
  <2> QED BY <1>7, <2>2, <2>3, <2>4 DEF Finish
<1> HIDE DEF e, old, n, l
<1> QED
  <2>1. CASE r \in open /\ Fail(r, Interruption(r))
    BY <1>2, <2>1
  <2> QED BY <1>1, <1>6, <1>7, <2>1 DEF ReceiveChunk

\* An event leaves the batch.
LEMMA HandOverStreams ==
  ASSUME CallTypes, NEW r \in Requests, OneStream(r), HandOver(r)
  PROVE  OneStream(r)'
<1> DEFINE event == Head(batch[r])
<1>0. /\ phase[r] = "streaming" /\ batch[r] # <<>> /\ UNCHANGED <<answer, rest, heard, open>>
  BY DEF HandOver, callVars
<1>1. CASE r \notin open
  <2>1. phase'[r] \notin NotBegun
    BY <1>0 DEF HandOver, Return, Fail, NotBegun, CallTypes
  <2> QED BY <1>0, <1>1, <2>1, UnheardStep DEF OneStream
<1>2. ASSUME r \in open, NEW error, Fail(r, error), channel' = channel
      PROVE  OneStream(r)'
  BY <1>0, <1>2, FailingStep DEF Fail, CallTypes
<1>3. CASE r \in open /\ ~ \E error : Fail(r, error) /\ channel' = channel
  <2>1. PICK k \in 0..Len(answer[r].events) : Read(r, k) /\ Ahead(r, k)
    BY <1>0, <1>3 DEF OneStream
  <2>2. \/ event = "done" /\ Return(r, "ok") /\ channel' = channel
        \/ event = "silent" /\ phase' = phase /\ channel' = channel /\ batch' = [batch EXCEPT ![r] = Tail(@)]
        \/ event \in Texts /\ phase' = phase /\ channel' = [channel EXCEPT ![r] = Append(@, event)]
           /\ batch' = [batch EXCEPT ![r] = Tail(@)]
    BY <1>3 DEF HandOver
  <2>3. event # "cut"
    BY <2>2, ProviderAssumption
  <2>4. k + 1 <= Len(answer[r].events) /\ event = answer[r].events[k + 1]
    BY <1>0, <2>1, <2>3, NextEvent
  <2>5. CASE event = "done"
    <3>1. phase'[r] = "ended" /\ channel' = channel
      BY <2>2, <2>5, ProviderAssumption DEF Return, CallTypes, Marks
    <3> QED BY <1>0, <1>3, <2>1, <2>4, <2>5, <3>1, MarkedStep
  <2>6. CASE event # "done"
    <3>1. batch'[r] = Tail(batch[r]) /\ phase' = phase
      BY <2>2, <2>6 DEF CallTypes
    <3>2. \/ event \in Texts /\ channel'[r] = Append(channel[r], event)
          \/ event \notin Texts /\ channel'[r] = channel[r]
      BY <2>2, <2>6, ProviderAssumption DEF CallTypes, Marks
    <3>3. Ahead(r, k + 1)'
      BY <1>0, <2>1, <2>4, <3>1, EventTaken
    <3> HIDE DEF event
    <3>4. Read(r, k + 1)'
      BY <1>0, <2>1, <2>4, <2>6, <3>2, EventRead
    <3>5. k + 1 \in 0..Len(answer'[r].events)
      BY <1>0, <2>4 DEF CallTypes, Bodies
    <3> QED BY <1>0, <1>3, <3>1, <3>3, <3>4, <3>5 DEF OneStream, NotBegun
  <2> QED BY <2>5, <2>6
<1> QED BY <1>1, <1>2, <1>3

\* The last item: it is not text, and the channel holds it.
LEMMA ErrorStreams ==
  ASSUME CallTypes, FailuresAreNamed, NEW r \in Requests, OneStream(r), SendStreamError(r)
  PROVE  OneStream(r)'
<1>0. /\ phase'[r] = "ended" /\ result[r] \in Errors /\ UNCHANGED <<answer, heard, open>>
  BY DEF SendStreamError, Return, CallTypes, FailuresAreNamed, callVars
<1>1. CASE r \notin open
  BY <1>0, <1>1, UnheardStep DEF OneStream, NotBegun
<1>2. CASE r \in open
  <2> DEFINE s == heard[r]
             u == channel[r]
             x == result[r]
  <2>1. channel'[r] = Append(u, x)
    BY <1>2 DEF SendStreamError, CallTypes
  <2>2. s \in Seq(Untold) /\ u \in Seq(Untold) /\ x \in Untold /\ x \notin Texts
    BY <1>0, <1>2, ProviderAssumption DEF OneStream, CallTypes, Untold
  <2>3. Items(r) = s \o u /\ Items(r)' = s \o Append(u, x)
    BY <1>0, <2>1 DEF Items
  <2> HIDE DEF s, u
  <2>4. s \o Append(u, x) = Append(s \o u, x) /\ s \o u \in Seq(Untold)
    BY <2>2, MoreItems
  <2> DEFINE before == s \o u
  <2>5. before \in Seq(Untold) /\ Items(r) = before /\ Items(r)' = Append(before, x)
    BY <2>3, <2>4
  <2> HIDE DEF before, x
  <2>6. TextOf(Items(r))' = TextOf(Items(r))
    BY <2>2, <2>5, TextOfMore
  <2>7. \A k \in 0..Len(answer[r].events) : Read(r, k) => Read(r, k)'
    BY <1>0, <2>6 DEF Read
  <2>8. Len(before) + 1 \in DOMAIN Append(before, x) /\ Append(before, x)[Len(before) + 1] = x
    BY <2>2, <2>5, AppendProperties
  <2>9. Settled(r)'
    <3>1. \E i \in DOMAIN Items(r)' : Items(r)'[i] \in Errors
      BY <1>0, <2>5, <2>8 DEF x
    <3> QED BY <3>1 DEF Settled
  <2>10. heard'[r] \in Seq(Untold) /\ r \in open'
    BY <1>0, <1>2 DEF OneStream
  <2>11. \E k \in 0..Len(answer[r].events) : Read(r, k)'
    BY <1>2, <2>7 DEF OneStream
  <2> QED BY <1>0, <2>9, <2>10, <2>11 DEF OneStream, NotBegun
<1> QED BY <1>1, <1>2

\* The caller takes an item, or sees that there are no more.
LEMMA TakeStreams ==
  ASSUME CallTypes, NEW r \in Requests, OneStream(r), Take(r)
  PROVE  OneStream(r)'
<1>0. r \in open /\ UNCHANGED <<phase, answer, rest, batch>>
  BY DEF Take, callVars
<1>00. heard[r] \in Seq(Untold) /\ channel[r] \in Seq(Untold) /\ phase[r] \notin NotBegun
  BY <1>0 DEF OneStream, CallTypes
<1>1. CASE /\ channel[r] # <<>> /\ open' = open
           /\ heard' = [heard EXCEPT ![r] = Append(@, Head(channel[r]))]
           /\ channel' = [channel EXCEPT ![r] = Tail(@)]
  <2> DEFINE s == heard[r]
             u == channel[r]
  <2>1. heard'[r] = Append(s, Head(u)) /\ channel'[r] = Tail(u) /\ u # <<>>
        /\ s \in Seq(Untold) /\ u \in Seq(Untold)
    BY <1>00, <1>1 DEF CallTypes
  <2>2. Items(r) = s \o u /\ Items(r)' = heard'[r] \o channel'[r]
    BY DEF Items
  <2> HIDE DEF s, u
  <2>3. Append(s, Head(u)) \o Tail(u) = s \o u /\ Append(s, Head(u)) \in Seq(Untold)
    BY <2>1, MovedItem
  <2>4. Items(r)' = Items(r) /\ heard'[r] \in Seq(Untold)
    BY <2>1, <2>2, <2>3
  <2>5. \A k \in 0..Len(answer[r].events) : (Read(r, k) => Read(r, k)') /\ (Ahead(r, k) => Ahead(r, k)')
    BY <1>0, <2>4 DEF Read, Ahead
  <2>6. Settled(r) => Settled(r)'
    BY <1>0, <2>4 DEF Settled, Told
  <2> QED BY <1>0, <1>00, <1>1, <2>4, <2>5, <2>6 DEF OneStream
<1>2. CASE /\ channel[r] = <<>> /\ phase[r] = "ended" /\ open' = open \ {r}
           /\ heard' = [heard EXCEPT ![r] = Append(@, "end")]
           /\ UNCHANGED channel
  <2> DEFINE s == heard[r]
  <2>1. heard'[r] = Append(s, "end") /\ s \in Seq(Untold) /\ r \notin open'
    BY <1>00, <1>2 DEF CallTypes
  <2>2. Items(r) = s
    BY <1>00, <1>2, ConcatEmptySeq DEF Items
  <2>3. Faithful(r) /\ Settled(r)
    BY <1>0, <1>2, OpenIsFaithful DEF OneStream
  <2>4. "end" \notin Texts /\ "end" \notin Errors /\ s \in Seq(Heard) /\ "end" \in Heard
    BY <2>1, SeqMonotonic, Untold \subseteq Heard, ProviderAssumption DEF Heard, Errors
  <2> HIDE DEF s
  <2>5. TextOf(heard'[r]) = TextOf(s)
    BY <2>1, <2>4, TextOfMore
  <2>6. Told(r)' = Told(r)
    BY <1>0 DEF Told
  <2>7. ASSUME ToSet(heard'[r]) \cap Errors = {}
        PROVE  TextOf(s) = Told(r) /\ "done" \in ToSet(answer[r].events)
    <3>1. \A i \in DOMAIN s : s[i] \in ToSet(heard'[r])
      <4> TAKE i \in DOMAIN s
      <4>1. i \in DOMAIN Append(s, "end") /\ Append(s, "end")[i] = s[i]
        BY <2>4, AppendProperties
      <4> QED BY <2>1, <4>1 DEF ToSet
    <3>2. ~ \E i \in DOMAIN s : s[i] \in Errors
      BY <2>7, <3>1
    <3> QED BY <2>2, <2>3, <3>2 DEF Settled, ToSet
  <2>8. IsPrefix(TextOf(heard'[r]), Told(r))
    BY <2>3, <2>5 DEF Faithful, s
  <2>9. Faithful(r)'
    BY <1>0, <2>5, <2>6, <2>7, <2>8 DEF Faithful
  <2> QED BY <1>0, <1>00, <2>1, <2>9 DEF OneStream
<1> QED BY <1>1, <1>2 DEF Take

\* The caller lets go.
LEMMA DropStreams ==
  ASSUME CallTypes, NEW r \in Requests, OneStream(r), Drop(r)
  PROVE  OneStream(r)'
<1>1. r \in open /\ r \notin open' /\ UNCHANGED <<phase, answer, heard>>
  BY DEF Drop, callVars
<1>2. Faithful(r)
  BY <1>1, OpenIsFaithful
<1>3. phase[r] \notin NotBegun
  BY <1>1 DEF OneStream
<1> QED BY <1>1, <1>2, <1>3 DEF OneStream, Faithful, Told

LEMMA StreamStays ==
  ASSUME CallTypes, FailuresAreNamed, StreamInv, NEW r \in Requests, Step(r)
  PROVE  StreamInv'
<1>1. OneStream(r)
  BY DEF StreamInv
<1>2. OneStream(r)'
  <2>1. CASE Call(r) \/ AcquirePermit(r) \/ RetryDelay(r) \/ ReadBody(r) \/ Cancel(r) \/ DeadlinePasses(r)
    <3>1. answer' = answer /\ UNCHANGED streamVars
      BY <2>1 DEF Call, AcquirePermit, RetryDelay, ReadBody, Cancel, DeadlinePasses, callVars, streamVars
    <3>2. \/ phase'[r] = phase[r]
          \/ phase[r] \in NotBegun /\ phase'[r] \in NotBegun \cup {"ended"}
      BY <2>1 DEF Call, AcquirePermit, RetryDelay, ReadBody, Cancel, DeadlinePasses, Return, NotBegun, CallTypes
    <3> QED BY <1>1, <3>1, <3>2, QuietStep DEF streamVars
  <2>2. CASE \E met \in Attempts : Attempt(r, met)
    BY <1>1, <2>2, AttemptStreams
  <2>3. CASE ReceiveChunk(r)
    BY <1>1, <2>3, ChunkStreams
  <2>4. CASE HandOver(r)
    BY <1>1, <2>4, HandOverStreams
  <2>5. CASE SendStreamError(r)
    BY <1>1, <2>5, ErrorStreams
  <2>6. CASE Take(r)
    BY <1>1, <2>6, TakeStreams
  <2>7. CASE Drop(r)
    BY <1>1, <2>7, DropStreams
  <2> QED BY <2>1, <2>2, <2>3, <2>4, <2>5, <2>6, <2>7 DEF Step, Task
<1>3. ASSUME NEW q \in Requests PROVE OneStream(q)'
  BY <1>2, OtherStreamsStay DEF StreamInv
<1> QED BY <1>3 DEF StreamInv

-----------------------------------------------------------------------------
\* Every step keeps the invariant.
LEMMA StepKeeps == ASSUME IInv, [Next]_vars PROVE IInv'
<1>1. CASE UNCHANGED vars
  <2>1. UNCHANGED <<phase, queue, holders, result, retries, posts, answer, rest, batch, channel, heard, open>>
    BY <1>1 DEF vars, callVars, streamVars
  <2>2. CallTypes' /\ FailuresAreNamed' /\ PostsAreCounted'
    BY <2>1 DEF IInv, CallTypes, FailuresAreNamed, PostsAreCounted
  <2>3. QueueIsOfTheQueued' /\ PermitsAreOfTheWorking'
    BY <2>1 DEF IInv, QueueIsOfTheQueued, PermitsAreOfTheWorking
  <2>4. ASSUME NEW r \in Requests PROVE OneStream(r)'
    BY <2>1, QuietStep DEF IInv, StreamInv
  <2> QED BY <2>2, <2>3, <2>4 DEF IInv, StreamInv
<1>2. ASSUME NEW r \in Requests, Step(r) PROVE IInv'
  <2>1. CallTypes'
    BY <1>2, PhasesKeepTypes, StreamsKeepTypes DEF IInv, CallTypes
  <2> QED BY <1>2, <2>1, CountersStay, QueueStays, PermitsStay, StreamStays DEF IInv
<1> QED BY <1>1, <1>2 DEF Next, Step

THEOREM CallsAreKept == Spec => []IInv
<1>1. Init => IInv
  BY InitCalls, InitStream DEF IInv
<1>2. IInv /\ [Next]_vars => IInv'
  BY StepKeeps
<1> QED BY <1>1, <1>2, PTL DEF Spec

\* For every set of calls and answers and every limit: no more calls than permits are on
\* the wire, and whatever the chunks, retries, interruptions and the pace of the caller
\* are, a caller reads of a streamed answer its text, in order and up to the marker.
THEOREM CallsStayFaithful == Spec => []CallsAreFaithful
<1>1. ASSUME IInv PROVE CallsAreFaithful
  <2>1. TypeOK
    <3>1. posts \in [Requests -> 0..(MaxRetries + 1)]
      <4>1. \A r \in Requests : posts[r] \in 0..(MaxRetries + 1)
        BY <1>1, ProviderAssumption DEF IInv, CallTypes, PostsAreCounted
      <4> QED BY <1>1, <4>1 DEF IInv, CallTypes
    <3>2. ToSet(queue) \subseteq Requests
      BY <1>1 DEF IInv, QueueIsOfTheQueued, ToSet
    <3> QED BY <1>1, <3>1, <3>2 DEF IInv, CallTypes, TypeOK
  <2>2. WireIsBounded
    BY <1>1 DEF IInv, PermitsAreOfTheWorking, WireIsBounded
  <2>3. StreamIsFaithful
    <3>1. ASSUME NEW r \in Requests PROVE Faithful(r)
      <4>1. OneStream(r)
        BY <1>1 DEF IInv, StreamInv
      <4>2. CASE r \in open
        BY <1>1, <4>1, <4>2, OpenIsFaithful DEF IInv
      <4>3. CASE r \notin open
        BY <4>1, <4>3 DEF OneStream
      <4> QED BY <4>2, <4>3
    <3> QED BY <3>1 DEF StreamIsFaithful, Faithful, Told
  <2> QED BY <2>1, <2>2, <2>3 DEF CallsAreFaithful
<1> QED BY <1>1, CallsAreKept, PTL
-----------------------------------------------------------------------------
(* CommandProposals: what its functions on texts compute.                    *)

LEMMA SolidIsMade == ASSUME NEW items PROVE Solid(items) = Made("solid", items)
<1>1. ASSUME NEW g
      PROVE  [n \in 0..Len(items) |->
                 IF n = 0 THEN <<>>
                 ELSE IF items[n] = Blank THEN g[n - 1] ELSE Append(g[n - 1], items[n])]
             = [n \in 0..Len(items) |-> IF n = 0 THEN <<>> ELSE Grow("solid", g[n - 1], items, n)]
  BY DEF Grow
<1> QED BY <1>1 DEF Solid, Made, Grown

LEMMA WordsAreMade == ASSUME NEW items PROVE Words(items) = Made("words", items)
<1>1. ASSUME NEW g
      PROVE  [n \in 0..Len(items) |->
                 IF n = 0 THEN <<>>
                 ELSE IF items[n] = Blank THEN g[n - 1]
                 ELSE IF n = 1 \/ items[n - 1] = Blank THEN Append(g[n - 1], <<items[n]>>)
                 ELSE Append(Front(g[n - 1]), Append(Last(g[n - 1]), items[n]))]
             = [n \in 0..Len(items) |-> IF n = 0 THEN <<>> ELSE Grow("words", g[n - 1], items, n)]
  BY DEF Grow
<1> QED BY <1>1 DEF Words, Made, Grown

LEMMA JoinedIsMade == ASSUME NEW items PROVE Joined(items) = Made("joined", items)
<1>1. ASSUME NEW g
      PROVE  [n \in 0..Len(items) |->
                 IF n = 0 THEN <<>> ELSE IF n = 1 THEN items[1]
                 ELSE g[n - 1] \o <<Blank>> \o items[n]]
             = [n \in 0..Len(items) |-> IF n = 0 THEN <<>> ELSE Grow("joined", g[n - 1], items, n)]
  BY DEF Grow
<1> QED BY <1>1 DEF Joined, Made, Grown

LEMMA SolidOfMore ==
  ASSUME NEW S, NEW items \in Seq(S), NEW x \in S
  PROVE  Solid(Append(items, x)) = IF x = Blank THEN Solid(items) ELSE Append(Solid(items), x)
<1> DEFINE more == Append(items, x)
           n == Len(items) + 1
           solid == Solid(items)
<1>1. more[n] = x
  BY AppendProperties
<1>2. Solid(more) = Grow("solid", solid, more, n)
  BY SolidIsMade, MadeOfMore
<1> HIDE DEF more, n, solid
<1>3. Grow("solid", solid, more, n) = IF more[n] = Blank THEN solid ELSE Append(solid, more[n])
  BY DEF Grow
<1> QED BY <1>1, <1>2, <1>3 DEF more, solid

LEMMA WordsOfMore ==
  ASSUME NEW S, NEW items \in Seq(S), NEW x \in S
  PROVE  Words(Append(items, x)) =
           IF x = Blank THEN Words(items)
           ELSE IF items = <<>> \/ Last(items) = Blank THEN Append(Words(items), <<x>>)
           ELSE Append(Front(Words(items)), Append(Last(Words(items)), x))
<1> DEFINE more == Append(items, x)
           n == Len(items) + 1
           words == Words(items)
<1>1. /\ more[n] = x /\ (n = 1 <=> items = <<>>)
      /\ n # 1 => more[n - 1] = Last(items)
  BY AppendProperties DEF Last
<1>2. Words(more) = Grow("words", words, more, n)
  BY WordsAreMade, MadeOfMore
<1> HIDE DEF more, n, words
<1>3. Grow("words", words, more, n) =
        IF more[n] = Blank THEN words
        ELSE IF n = 1 \/ more[n - 1] = Blank THEN Append(words, <<more[n]>>)
        ELSE Append(Front(words), Append(Last(words), more[n]))
  BY DEF Grow
<1> QED BY <1>1, <1>2, <1>3 DEF more, words

LEMMA JoinedOfMore ==
  ASSUME NEW S, NEW items \in Seq(S), NEW x \in S
  PROVE  Joined(Append(items, x)) = IF items = <<>> THEN x ELSE Joined(items) \o <<Blank>> \o x
<1> DEFINE more == Append(items, x)
           n == Len(items) + 1
           joined == Joined(items)
<1>1. more[n] = x /\ (n = 1 <=> items = <<>>)
  BY AppendProperties
<1>2. Joined(more) = Grow("joined", joined, more, n)
  BY JoinedIsMade, MadeOfMore
<1> HIDE DEF more, n, joined
<1>3. Grow("joined", joined, more, n) =
        IF n = 1 THEN more[1] ELSE joined \o <<Blank>> \o more[n]
  BY DEF Grow
<1> QED BY <1>1, <1>2, <1>3 DEF more, joined

LEMMA MadeOfNothing == Solid(<<>>) = <<>> /\ Words(<<>>) = <<>> /\ Joined(<<>>) = <<>>
BY MadeOfNone, SolidIsMade, WordsAreMade, JoinedIsMade

\* A sequence is empty, or another with one item more.
LEMMA LastOne ==
  ASSUME NEW S, NEW n \in Nat, NEW items \in Seq(S), Len(items) = n + 1
  PROVE  \E before \in Seq(S), x \in S : items = Append(before, x) /\ Len(before) = n
<1> DEFINE before == SubSeq(items, 1, n)
<1>1. before \in Seq(S) /\ Len(before) = n /\ items[n + 1] \in S
  OBVIOUS
<1>2. items = Append(before, items[n + 1])
  OBVIOUS
<1> HIDE DEF before
<1> QED BY <1>1, <1>2

\* What the solids and words of one more character are, for texts of Chars.
LEMMA SolidsAreTexts ==
  ASSUME NEW S, NEW t \in Seq(S)
  PROVE  Solid(t) \in Seq(S)
<1> DEFINE T == {n \in Nat : \A u \in Seq(S) : Len(u) = n => Solid(u) \in Seq(S)}
<1>1. 0 \in T
  <2>1. \A u \in Seq(S) : Len(u) = 0 => u = <<>>
    OBVIOUS
  <2> QED BY <2>1, MadeOfNothing
<1>2. ASSUME NEW n \in T PROVE n + 1 \in T
  <2>1. SUFFICES ASSUME NEW u \in Seq(S), Len(u) = n + 1 PROVE Solid(u) \in Seq(S)
    BY <1>2
  <2>2. PICK before \in Seq(S), x \in S : u = Append(before, x) /\ Len(before) = n
    BY <1>2, <2>1, LastOne
  <2>3. Solid(before) \in Seq(S)
    BY <1>2, <2>2
  <2>4. Append(Solid(before), x) \in Seq(S)
    BY <2>3
  <2> QED BY <2>2, <2>3, <2>4, SolidOfMore
<1> HIDE DEF T
<1>3. T \in SUBSET Nat
  BY DEF T
<1>4. T = Nat
  BY <1>1, <1>2, <1>3, InductionOverNat
<1> QED BY <1>4 DEF T

LEMMA SolidOfBoth ==
  ASSUME NEW S, NEW s \in Seq(S), NEW t \in Seq(S)
  PROVE  Solid(s \o t) = Solid(s) \o Solid(t)
<1> DEFINE T == {n \in Nat : \A u \in Seq(S) : Len(u) = n => Solid(s \o u) = Solid(s) \o Solid(u)}
<1>0. Solid(s) \in Seq(S)
  BY SolidsAreTexts
<1>1. 0 \in T
  <2>1. \A u \in Seq(S) : Len(u) = 0 => u = <<>>
    OBVIOUS
  <2>2. s \o <<>> = s /\ Solid(s) \o <<>> = Solid(s)
    BY <1>0, ConcatEmptySeq
  <2> QED BY <2>1, <2>2, MadeOfNothing
<1>2. ASSUME NEW n \in T PROVE n + 1 \in T
  <2>1. SUFFICES ASSUME NEW u \in Seq(S), Len(u) = n + 1
                 PROVE  Solid(s \o u) = Solid(s) \o Solid(u)
    BY <1>2
  <2>2. PICK before \in Seq(S), x \in S : u = Append(before, x) /\ Len(before) = n
    BY <1>2, <2>1, LastOne
  <2>3. Solid(s \o before) = Solid(s) \o Solid(before)
    BY <1>2, <2>2
  <2>4. s \o u = Append(s \o before, x) /\ s \o before \in Seq(S)
    BY <2>2, MoreItems
  <2>5. Solid(s \o u) = IF x = Blank THEN Solid(s \o before) ELSE Append(Solid(s \o before), x)
    <3> DEFINE b == s \o before
    <3>1. b \in Seq(S) /\ s \o u = Append(b, x)
      BY <2>4
    <3> HIDE DEF b
    <3>2. Solid(Append(b, x)) = IF x = Blank THEN Solid(b) ELSE Append(Solid(b), x)
      BY <2>2, <3>1, SolidOfMore
    <3> QED BY <3>1, <3>2 DEF b
  <2>6. Solid(u) = IF x = Blank THEN Solid(before) ELSE Append(Solid(before), x)
    BY <2>2, SolidOfMore
  <2>7. Solid(s) \o Append(Solid(before), x) = Append(Solid(s) \o Solid(before), x)
    BY <1>0, SolidsAreTexts, MoreItems
  <2> QED BY <2>3, <2>5, <2>6, <2>7
<1> HIDE DEF T
<1>3. T \in SUBSET Nat
  BY DEF T
<1>4. T = Nat
  BY <1>1, <1>2, <1>3, InductionOverNat
<1> QED BY <1>4 DEF T

LEMMA JoinedIsText ==
  ASSUME NEW S, Blank \in S, NEW w \in Seq(Seq(S))
  PROVE  Joined(w) \in Seq(S) /\ Joined(w) \o <<Blank>> \in Seq(S)
<1> DEFINE T == {n \in Nat : \A u \in Seq(Seq(S)) : Len(u) = n => Joined(u) \in Seq(S)}
<1>1. 0 \in T
  <2>1. \A u \in Seq(Seq(S)) : Len(u) = 0 => u = <<>>
    OBVIOUS
  <2> QED BY <2>1, MadeOfNothing
<1>2. ASSUME NEW n \in T PROVE n + 1 \in T
  <2>1. SUFFICES ASSUME NEW u \in Seq(Seq(S)), Len(u) = n + 1 PROVE Joined(u) \in Seq(S)
    BY <1>2
  <2>2. PICK before \in Seq(Seq(S)), x \in Seq(S) : u = Append(before, x) /\ Len(before) = n
    BY <1>2, <2>1, LastOne
  <2>3. Joined(before) \in Seq(S)
    BY <1>2, <2>2
  <2>4. Joined(before) \o <<Blank>> \o x \in Seq(S)
    BY <2>3
  <2> QED BY <2>2, <2>4, JoinedOfMore
<1> HIDE DEF T
<1>3. T \in SUBSET Nat
  BY DEF T
<1>4. T = Nat
  BY <1>1, <1>2, <1>3, InductionOverNat
<1>5. Joined(w) \in Seq(S)
  BY <1>4 DEF T
<1> QED BY <1>5

\* Of a sequence with an item: all but the last, and the last.
LEMMA FrontAndLast ==
  ASSUME NEW S, NEW w \in Seq(S), w # <<>>
  PROVE  Front(w) \in Seq(S) /\ Last(w) \in S /\ w = Append(Front(w), Last(w))
BY DEF Front, Last

LEMMA NewItem ==
  ASSUME NEW S, NEW w \in Seq(S), NEW x \in S
  PROVE  /\ Append(w, x) \in Seq(S) /\ Append(w, x) # <<>>
         /\ Front(Append(w, x)) = w /\ Last(Append(w, x)) = x
BY DEF Front, Last

\* The words of a text, and the text they give again, one character after the other.
Written(S, t) ==
  /\ Words(t) \in Seq(Seq(S)) /\ Inline(t) \in Seq(S)
  /\ (t # <<>> /\ Last(t) # Blank) => Words(t) # <<>>
  /\ Words(t) = <<>> <=> Inline(t) = <<>>
  /\ Inline(t) # <<>> => Last(Inline(t)) # Blank
  /\ Words(Inline(t)) = Words(t) /\ Solid(Inline(t)) = Solid(t)

LEMMA NewlyWritten ==
  ASSUME NEW S, NEW u, NEW y \in Seq(S), NEW x \in S, x # Blank,
         Words(u) \in Seq(Seq(S)), Words(u) # <<>>, Inline(u) = Append(y, x),
         Words(Append(y, x)) = Words(u), Solid(Append(y, x)) = Solid(u)
  PROVE  Written(S, u)
<1>1. Append(y, x) \in Seq(S) /\ Append(y, x) # <<>> /\ Last(Append(y, x)) = x
  BY NewItem
<1> QED BY <1>1 DEF Written

LEMMA WrittenMore ==
  ASSUME NEW S, Blank \in S, NEW t \in Seq(S), NEW x \in S, Written(S, t)
  PROVE  Written(S, Append(t, x))
<1> DEFINE u == Append(t, x)
           W == Words(t)
           l == Inline(t)
<1>0. /\ W \in Seq(Seq(S)) /\ l \in Seq(S) /\ l = Joined(W) /\ Inline(u) = Joined(Words(u))
      /\ u \in Seq(S) /\ u # <<>> /\ Last(u) = x
  BY NewItem DEF Written, Inline
<1>1. Words(u) = IF x = Blank THEN W
                 ELSE IF t = <<>> \/ Last(t) = Blank THEN Append(W, <<x>>)
                 ELSE Append(Front(W), Append(Last(W), x))
  BY WordsOfMore
<1>2. Solid(u) = IF x = Blank THEN Solid(t) ELSE Append(Solid(t), x)
  BY SolidOfMore
<1>3. Words(l) = W /\ Solid(l) = Solid(t) /\ (W = <<>> <=> l = <<>>) /\ (l # <<>> => Last(l) # Blank)
      /\ ((t # <<>> /\ Last(t) # Blank) => W # <<>>)
  BY DEF Written
<1>4. CASE x = Blank
  BY <1>0, <1>1, <1>2, <1>3, <1>4 DEF Written
<1>5. CASE x # Blank /\ (t = <<>> \/ Last(t) = Blank)
  <2>0. <<x>> \in Seq(S) /\ <<x>> = Append(<<>>, x)
    OBVIOUS
  <2>1. Words(u) = Append(W, <<x>>)
    BY <1>1, <1>5
  <2>5. Words(u) \in Seq(Seq(S)) /\ Words(u) # <<>>
    <3>1. W \in Seq(Seq(S)) /\ <<x>> \in Seq(S)
      BY <1>0, <2>0
    <3> DEFINE y == <<x>>
    <3> HIDE DEF W, u, y
    <3>2. Append(W, y) \in Seq(Seq(S)) /\ Append(W, y) # <<>>
      BY <3>1, NewItem DEF y
    <3> QED BY <2>1, <3>2 DEF y
  <2>6. Solid(u) = Append(Solid(t), x)
    BY <1>2, <1>5
  <2>2. Inline(u) = IF W = <<>> THEN <<x>> ELSE l \o <<Blank>> \o <<x>>
    BY <1>0, <2>0, <2>1, JoinedOfMore
  <2>3. CASE W = <<>>
    <3>1. l = <<>> /\ Inline(u) = Append(l, x)
      BY <1>3, <2>0, <2>2, <2>3
    <3>2. Words(Append(l, x)) = Append(W, <<x>>)
      <4>1. l \in Seq(S) /\ x \in S /\ x # Blank /\ Words(l) = W
        BY <1>0, <1>3, <1>5
      <4> HIDE DEF l, W
      <4> QED BY <3>1, <4>1, WordsOfMore
    <3>3. Solid(Append(l, x)) = Append(Solid(t), x)
      BY <1>0, <1>3, <1>5, SolidOfMore
    <3>9. Written(S, u)
      <4> HIDE DEF u, W, l
      <4> QED BY <1>0, <1>5, <2>1, <2>5, <2>6, <3>1, <3>2, <3>3, NewlyWritten
    <3> QED BY <3>9
  <2>4. CASE W # <<>>
    <3> DEFINE k == Append(l, Blank)
    <3>1. k \in Seq(S) /\ k # <<>> /\ Last(k) = Blank
      BY <1>0, NewItem
    <3>2. Inline(u) = Append(k, x)
      <4>1. k = l \o <<Blank>> /\ Append(k, x) = k \o <<x>>
        BY <1>0, <3>1, AppendIsConcat
      <4> QED BY <2>2, <2>4, <4>1
    <3>3. Words(k) = W /\ Solid(k) = Solid(l)
      BY <1>0, <1>3, WordsOfMore, SolidOfMore
    <3> HIDE DEF k
    <3>4. Words(Append(k, x)) = Append(W, <<x>>)
      BY <1>5, <3>1, <3>3, WordsOfMore
    <3>5. Solid(Append(k, x)) = Append(Solid(t), x)
      BY <1>3, <1>5, <3>1, <3>3, SolidOfMore
    <3>9. Written(S, u)
      <4> HIDE DEF u, W, l
      <4> QED BY <1>5, <2>1, <2>5, <2>6, <3>1, <3>2, <3>4, <3>5, NewlyWritten
    <3> QED BY <3>9
  <2> QED BY <2>3, <2>4
<1>6. CASE x # Blank /\ t # <<>> /\ Last(t) # Blank
  <2> DEFINE F == Front(W)
             e == Last(W)
  <2>1. W # <<>> /\ l # <<>> /\ Last(l) # Blank
    BY <1>3, <1>6
  <2>2. F \in Seq(Seq(S)) /\ e \in Seq(S) /\ W = Append(F, e)
    BY <1>0, <2>1, FrontAndLast
  <2>3. Words(u) = Append(F, Append(e, x)) /\ Append(e, x) \in Seq(S)
    BY <1>1, <1>6, <2>2
  <2> HIDE DEF F, e
  <2>4. Inline(u) = Append(l, x)
    <3>1. l = IF F = <<>> THEN e ELSE Joined(F) \o <<Blank>> \o e
      BY <1>0, <2>2, JoinedOfMore
    <3>2. Inline(u) = IF F = <<>> THEN Append(e, x) ELSE Joined(F) \o <<Blank>> \o Append(e, x)
      BY <1>0, <2>2, <2>3, JoinedOfMore
    <3>3. CASE F # <<>>
      <4> DEFINE j == Joined(F) \o <<Blank>>
      <4>1. j \in Seq(S)
        BY <2>2, JoinedIsText
      <4> HIDE DEF j
      <4>2. j \o Append(e, x) = Append(j \o e, x)
        BY <2>2, <4>1, MoreItems
      <4> QED BY <3>1, <3>2, <3>3, <4>2 DEF j
    <3> QED BY <3>1, <3>2, <3>3
  <2>5. Words(Append(l, x)) = Append(Front(Words(l)), Append(Last(Words(l)), x))
    BY <1>0, <1>6, <2>1, WordsOfMore
  <2>6. Words(Append(l, x)) = Words(u)
    BY <1>1, <1>3, <1>6, <2>5
  <2>7. Solid(Append(l, x)) = Solid(u)
    BY <1>0, <1>2, <1>3, <1>6, SolidOfMore
  <2>8. Words(u) \in Seq(Seq(S)) /\ Words(u) # <<>>
    BY <2>2, <2>3, NewItem
  <2>9. Written(S, u)
    <3> HIDE DEF u, W, l
    <3> QED BY <1>0, <1>6, <2>4, <2>6, <2>7, <2>8, NewlyWritten
  <2> QED BY <2>9
<1> QED BY <1>4, <1>5, <1>6

LEMMA InlineIsWritten ==
  ASSUME NEW S, Blank \in S, NEW t \in Seq(S)
  PROVE  Written(S, t)
<1> DEFINE T == {n \in Nat : \A u \in Seq(S) : Len(u) = n => Written(S, u)}
<1>1. 0 \in T
  <2>1. \A u \in Seq(S) : Len(u) = 0 => u = <<>>
    OBVIOUS
  <2>2. Written(S, <<>>)
    <3>1. Inline(<<>>) = <<>>
      BY MadeOfNothing DEF Inline
    <3>2. <<>> \in Seq(S) /\ <<>> \in Seq(Seq(S))
      BY EmptySeq
    <3> QED BY <3>1, <3>2, MadeOfNothing DEF Written
  <2> QED BY <2>1, <2>2
<1>2. ASSUME NEW n \in T PROVE n + 1 \in T
  <2>1. SUFFICES ASSUME NEW u \in Seq(S), Len(u) = n + 1 PROVE Written(S, u)
    BY <1>2
  <2>2. PICK before \in Seq(S), x \in S : u = Append(before, x) /\ Len(before) = n
    BY <1>2, <2>1, LastOne
  <2>3. Written(S, before)
    BY <1>2, <2>2
  <2> QED BY <2>2, <2>3, WrittenMore
<1> HIDE DEF T
<1>3. T \in SUBSET Nat
  BY DEF T
<1>4. T = Nat
  BY <1>1, <1>2, <1>3, InductionOverNat
<1> QED BY <1>4 DEF T

-----------------------------------------------------------------------------
(* CommandProposals: what reaches the line.                                  *)

\* How the shell labels an inserted line.
Shown(t) == IF LocalDanger(t) THEN "high" ELSE Level(t)

Around(at, t) ==
  SubSeq(at.text, 1, at.cursor) \o t \o SubSeq(at.text, at.cursor + 1, Len(at.text))
IsALine(at) == at.text \in Seq(Chars) /\ at.cursor \in 0..Len(at.text)

\* A completion on its way gives what was assessed when it is applied to the line it was
\* asked for, which is kept as long as the completion is awaited.
FrameIsReviewed ==
  \/ frame \in {NoFrame, Failure}
  \/ /\ frame.op \in {"replace", "insert", "suggest"}
     /\ frame.command \in Seq(Chars) /\ frame.cursor \in Nat
     /\ (frame.exact /\ frame.op = "replace") => Solid(frame.command) = Solid(frame.assessed)
     /\ (frame.exact /\ frame.op = "insert") =>
          Solid(Around(asked, frame.command)) = Solid(frame.assessed)

\* An insertion on its way has the label of its own line; of those that wait in the
\* shell, the newest has.
InsertsAreLabelled ==
  /\ \A i \in inserting : i.command \in Seq(Chars)
  /\ inserts \in Seq([command : Seq(Chars), label : {"unrated", "low", "high"}])
  /\ \A n \in 1..Len(inserts) : inserts[n].label = Level(inserts[n].command)
  /\ queued.commands \in Seq(Seq(Chars))
  /\ queued.commands # <<>> => queued.label = Shown(Last(queued.commands))

ProposalsInv ==
  /\ IsALine(line) /\ IsALine(asked) /\ FrameIsReviewed /\ InsertsAreLabelled
  /\ AppliedIsReviewed /\ LabelIsOfTheLine

LEMMA InlineIsText ==
  ASSUME NEW t \in Seq(Chars)
  PROVE  Inline(t) \in Seq(Chars) /\ Solid(Inline(t)) = Solid(t) /\ Level(Inline(t)) = Level(t)
<1>1. Blank \in Chars
  BY DEF Chars
<1>2. Written(Chars, t)
  BY <1>1, InlineIsWritten
<1> QED BY <1>2 DEF Written, Level, Assess, Fires

LEMMA AroundIsText ==
  ASSUME NEW at, IsALine(at), NEW t \in Seq(Chars)
  PROVE  /\ Around(at, t) \in Seq(Chars)
         /\ at.cursor + Len(t) \in 0..Len(Around(at, t))
         /\ Solid(Around(at, Inline(t))) = Solid(Around(at, t))
<1> DEFINE a == SubSeq(at.text, 1, at.cursor)
           b == SubSeq(at.text, at.cursor + 1, Len(at.text))
           m == at.cursor
           i == Inline(t)
<1>1. /\ a \in Seq(Chars) /\ b \in Seq(Chars) /\ Len(a) = m
      /\ m \in Nat /\ Len(b) \in Nat /\ Len(t) \in Nat
  BY DEF IsALine
<1>2. i \in Seq(Chars) /\ Solid(i) = Solid(t)
  BY InlineIsText
<1>3. \A s : Around(at, s) = (a \o s) \o b
  BY DEF Around
<1> HIDE DEF a, b, m, i
<1>4. ASSUME NEW s \in Seq(Chars)
      PROVE  /\ (a \o s) \o b \in Seq(Chars)
             /\ Len((a \o s) \o b) = m + Len(s) + Len(b)
             /\ Solid((a \o s) \o b) = (Solid(a) \o Solid(s)) \o Solid(b)
  <2>1. a \o s \in Seq(Chars) /\ Len(a \o s) = m + Len(s)
    BY <1>1, ConcatProperties
  <2>2. (a \o s) \o b \in Seq(Chars) /\ Len((a \o s) \o b) = Len(a \o s) + Len(b)
    BY <1>1, <2>1, ConcatProperties
  <2>3. Solid((a \o s) \o b) = Solid(a \o s) \o Solid(b) /\ Solid(a \o s) = Solid(a) \o Solid(s)
    BY <1>1, <2>1, SolidOfBoth
  <2> QED BY <2>1, <2>2, <2>3
<1>5. m + Len(t) \in 0..(m + Len(t) + Len(b))
  BY <1>1
<1>6. Around(at, t) \in Seq(Chars) /\ Len(Around(at, t)) = m + Len(t) + Len(b)
  BY <1>3, <1>4
<1>7. Solid(Around(at, i)) = Solid(Around(at, t))
  BY <1>2, <1>3, <1>4
<1> QED BY <1>5, <1>6, <1>7 DEF m, i

\* What the daemon makes of an answer of the provider.
LEMMA ReviewIsKept ==
  ASSUME IsALine(asked), NEW op \in {"replace", "insert", "suggest", "none"},
         NEW command \in Commands, NEW cursor \in {0, 1},
         frame' = Reviewed(op, command, cursor, asked), asked' = asked
  PROVE  FrameIsReviewed'
<1> DEFINE candidate == Candidate(op, command, asked)
           given == OrLine(command, asked)
           sent == [op |-> IF op = "none" THEN "suggest" ELSE op,
                    command |-> Inline(given), cursor |-> cursor, exact |-> command # <<>>,
                    assessed |-> candidate, patch |-> Patch(asked.text, candidate)]
<1>1. command \in Seq(Chars) /\ asked.text \in Seq(Chars) /\ given \in Seq(Chars)
  BY ProposalsAssumption DEF Given, OrLine, IsALine
<1>2. candidate \in Seq(Chars)
  <2>1. op = "insert" => candidate = Around(asked, command)
    BY DEF Candidate, Around
  <2>2. op # "insert" => candidate \in {command, asked.text}
    BY DEF Candidate
  <2> QED BY <1>1, <2>1, <2>2, AroundIsText
<1>3. Inline(candidate) \in Seq(Chars) /\ Inline(given) \in Seq(Chars)
      /\ Solid(Inline(given)) = Solid(given)
  BY <1>1, <1>2, InlineIsText
<1>4. command # <<>> => given = command
  BY DEF OrLine
<1>5. op = "replace" => candidate = command
  BY DEF Candidate
<1>6. op = "insert" /\ command # <<>> => Solid(Around(asked, Inline(given))) = Solid(candidate)
  BY <1>1, <1>4, AroundIsText DEF Candidate, Around
<1>7. frame' = IF Assess(candidate) THEN [sent EXCEPT !.op = "suggest", !.command = Inline(candidate)]
               ELSE sent
  BY DEF Reviewed
<1>8. CASE Assess(candidate)
  <2> HIDE DEF candidate, given
  <2>1. /\ frame'.op = "suggest" /\ frame'.command = Inline(candidate)
        /\ frame'.cursor = cursor
    BY <1>7, <1>8
  <2> HIDE DEF sent
  <2> QED BY <1>3, <2>1 DEF FrameIsReviewed
<1>9. CASE ~ Assess(candidate)
  <2> HIDE DEF candidate, given
  <2>1. /\ frame'.op = (IF op = "none" THEN "suggest" ELSE op) /\ frame'.command = Inline(given)
        /\ frame'.cursor = cursor /\ frame'.exact = (command # <<>>)
        /\ frame'.assessed = candidate
    BY <1>7, <1>9
  <2> HIDE DEF sent
  <2>2. frame'.exact /\ frame'.op = "replace" => Solid(frame'.command) = Solid(frame'.assessed)
    BY <1>3, <1>4, <1>5, <2>1
  <2>3. frame'.exact /\ frame'.op = "insert" =>
          Solid(Around(asked', frame'.command)) = Solid(frame'.assessed)
    BY <1>6, <2>1
  <2> QED BY <1>3, <2>1, <2>2, <2>3 DEF FrameIsReviewed
<1> QED BY <1>8, <1>9

\* A step of the shell: what it makes of a completion.
LEMMA AppliedIsALine ==
  ASSUME IsALine(line), IsALine(asked), FrameIsReviewed, AppliedIsReviewed, LabelIsOfTheLine,
         ReceiveCompletion
  PROVE  IsALine(line)' /\ AppliedIsReviewed' /\ LabelIsOfTheLine'
<1>1. rules' = rules
  BY DEF ReceiveCompletion
<1>2. CASE line' = line
  BY <1>1, <1>2 DEF IsALine, AppliedIsReviewed, LabelIsOfTheLine, LocalDanger, Level, Assess
<1>3. CASE line' = Applied(frame, asked) /\ frame # Failure /\ frame # NoFrame /\ frame.op # "suggest"
  <2>1. /\ frame.op \in {"replace", "insert"} /\ frame.command \in Seq(Chars) /\ frame.cursor \in Nat
        /\ (frame.exact /\ frame.op = "replace") => Solid(frame.command) = Solid(frame.assessed)
        /\ (frame.exact /\ frame.op = "insert") =>
             Solid(Around(asked, frame.command)) = Solid(frame.assessed)
    BY <1>3 DEF FrameIsReviewed
  <2>2. CASE frame.op = "replace"
    <3>1. /\ line'.text = frame.command
          /\ line'.cursor = (IF frame.cursor > Len(frame.command) THEN Len(frame.command)
                             ELSE frame.cursor)
          /\ line'.from = [kind |-> "completed", assessed |-> frame.assessed, exact |-> frame.exact]
      BY <1>3, <2>2 DEF Applied
    <3> QED BY <2>1, <2>2, <3>1 DEF IsALine, AppliedIsReviewed, LabelIsOfTheLine
  <2>3. CASE frame.op = "insert"
    <3>1. /\ line'.text = Around(asked, frame.command)
          /\ line'.cursor = asked.cursor + Len(frame.command)
          /\ line'.from = [kind |-> "completed", assessed |-> frame.assessed, exact |-> frame.exact]
      BY <1>3, <2>3 DEF Applied, Around
    <3>2. IsALine(line)'
      BY <2>1, <3>1, AroundIsText DEF IsALine
    <3> QED BY <2>1, <2>3, <3>1, <3>2 DEF AppliedIsReviewed, LabelIsOfTheLine
  <2> QED BY <2>1, <2>2, <2>3
<1> QED BY <1>2, <1>3 DEF ReceiveCompletion

LEMMA ProposalsStart == ProposalsInit => ProposalsInv
<1>1. ProposalsInit => IsALine(line) /\ line.from.kind = "typed"
  BY DEF ProposalsInit, IsALine, Typed
<1>2. ProposalsInit => IsALine(asked)
  BY DEF ProposalsInit, IsALine, NoLine
<1>3. ProposalsInit => FrameIsReviewed
  BY DEF ProposalsInit, FrameIsReviewed
<1>4. ProposalsInit => InsertsAreLabelled
  BY DEF ProposalsInit, InsertsAreLabelled
<1> QED BY <1>1, <1>2, <1>3, <1>4 DEF ProposalsInv, AppliedIsReviewed, LabelIsOfTheLine

\* The daemon's rules and the shell's are in force or not, and stay so.
LEMMA RulesStay ==
  ASSUME rules' = rules
  PROVE  \A t : Level(t)' = Level(t) /\ Shown(t)' = Shown(t)
BY DEF Level, Assess, Shown, LocalDanger

LEMMA LineStays ==
  ASSUME rules' = rules, line' = line
  PROVE  /\ IsALine(line) => IsALine(line)'
         /\ AppliedIsReviewed => AppliedIsReviewed'
         /\ LabelIsOfTheLine => LabelIsOfTheLine'
BY DEF IsALine, AppliedIsReviewed, LabelIsOfTheLine, Level, Assess, LocalDanger

LEMMA InsertsStay ==
  ASSUME rules' = rules, inserting' = inserting, inserts' = inserts, queued' = queued
  PROVE  InsertsAreLabelled => InsertsAreLabelled'
BY DEF InsertsAreLabelled, Shown, Level, Assess, LocalDanger

\* Insertions of other clients.
LEMMA InsertionsAreLabelled ==
  ASSUME InsertsAreLabelled, InsertBuffer \/ SendInsert \/ ReceiveInsert
  PROVE  InsertsAreLabelled'
<1> DEFINE Labelled == [command : Seq(Chars), label : {"unrated", "low", "high"}]
<1>0. rules' = rules
  BY DEF InsertBuffer, SendInsert, ReceiveInsert
<1>4. \A n \in 1..Len(inserts) : inserts[n].label = Level(inserts[n].command)
  BY DEF InsertsAreLabelled
<1>1. CASE InsertBuffer
  <2>1. UNCHANGED <<inserts, queued>>
    BY <1>1 DEF InsertBuffer
  <2>2. \A i \in inserting' : i.command \in Seq(Chars)
    BY <1>1, ProposalsAssumption DEF InsertBuffer, InsertsAreLabelled, Given
  <2> QED BY <1>0, <2>1, <2>2, RulesStay DEF InsertsAreLabelled
<1>2. CASE SendInsert
  <2>1. PICK i \in inserting :
          /\ inserting' = inserting \ {i}
          /\ inserts' \in {inserts, Append(inserts, [command |-> Inline(i.command),
                                                     label |-> Classified(i)])}
    BY <1>2 DEF SendInsert
  <2>2. queued' = queued
    BY <1>2 DEF SendInsert
  <2> DEFINE new == [command |-> Inline(i.command), label |-> Classified(i)]
  <2>3. new \in Labelled /\ new.label = Level(new.command)
    BY InlineIsText DEF InsertsAreLabelled, Classified, Level
  <2> HIDE DEF new
  <2>4. CASE inserts' = inserts
    BY <1>0, <2>1, <2>2, <2>4, RulesStay DEF InsertsAreLabelled
  <2>5. CASE inserts' = Append(inserts, new)
    <3>1. inserts \in Seq(Labelled)
      BY DEF InsertsAreLabelled
    <3>2. /\ inserts' \in Seq(Labelled) /\ Len(inserts') = Len(inserts) + 1
          /\ \A n \in 1..Len(inserts) : inserts'[n] = inserts[n]
          /\ inserts'[Len(inserts) + 1] = new
      BY <2>3, <2>5, <3>1, AppendProperties
    <3>3. \A n \in 1..Len(inserts') : inserts'[n].label = Level(inserts'[n].command)
      <4> TAKE n \in 1..Len(inserts')
      <4>1. n \in 1..Len(inserts) \/ n = Len(inserts) + 1
        BY <3>1, <3>2
      <4> QED BY <1>4, <2>3, <3>2, <4>1
    <3> QED BY <1>0, <2>1, <2>2, <3>2, <3>3, RulesStay DEF InsertsAreLabelled
  <2> QED BY <2>1, <2>4, <2>5 DEF new
<1>3. CASE ReceiveInsert
  <2> DEFINE i == Head(inserts)
             commands == queued.commands
  <2>1. /\ inserts # <<>> /\ inserts' = Tail(inserts) /\ inserting' = inserting
        /\ queued'.commands = Append(commands, i.command)
        /\ queued'.label = (IF LocalDanger(i.command) THEN "high" ELSE i.label)
    BY <1>3 DEF ReceiveInsert
  <2>2. inserts \in Seq(Labelled) /\ commands \in Seq(Seq(Chars))
    BY DEF InsertsAreLabelled
  <2>3. /\ inserts' \in Seq(Labelled) /\ Len(inserts') = Len(inserts) - 1 /\ Len(inserts) \in Nat
        /\ \A n \in 1..Len(inserts') : inserts'[n] = inserts[n + 1]
        /\ i = inserts[1] /\ 1 \in 1..Len(inserts)
    BY <2>1, <2>2
  <2>4. i \in Labelled /\ i.label = Level(i.command)
    <3>1. inserts[1] \in Labelled
      <4> HIDE DEF Labelled
      <4> QED BY <2>2, <2>3
    <3>2. inserts[1].label = Level(inserts[1].command)
      BY <1>4, <2>3
    <3>3. i = inserts[1]
      BY <2>3
    <3> HIDE DEF i
    <3> QED BY <3>1, <3>2, <3>3
  <2>5. \A n \in 1..Len(inserts') : inserts'[n].label = Level(inserts'[n].command)
    <3> TAKE n \in 1..Len(inserts')
    <3>1. n + 1 \in 1..Len(inserts)
      BY <2>3
    <3> QED BY <1>4, <2>3, <3>1
  <2> HIDE DEF i, commands
  <2>6. queued'.commands \in Seq(Seq(Chars)) /\ Last(queued'.commands) = i.command
    BY <2>1, <2>2, <2>4, NewItem
  <2>7. queued'.label = Shown(Last(queued'.commands))
    BY <2>1, <2>4, <2>6 DEF Shown
  <2> QED BY <1>0, <2>1, <2>3, <2>5, <2>6, <2>7, RulesStay DEF InsertsAreLabelled
<1> QED BY <1>1, <1>2, <1>3

LEMMA ProposalsStep == ProposalsInv /\ [ProposalsNext]_proposalVars => ProposalsInv'
<1> SUFFICES ASSUME ProposalsInv, [ProposalsNext]_proposalVars PROVE ProposalsInv'
  OBVIOUS
<1>0. /\ IsALine(line) /\ IsALine(asked) /\ FrameIsReviewed /\ InsertsAreLabelled
      /\ AppliedIsReviewed /\ LabelIsOfTheLine
  BY DEF ProposalsInv
<1>1. CASE UNCHANGED proposalVars
  <2>1. UNCHANGED <<rules, line, asked, frame, inserting, inserts, queued>>
    BY <1>1 DEF proposalVars
  <2>2. IsALine(asked)' /\ FrameIsReviewed'
    BY <1>0, <2>1 DEF IsALine, FrameIsReviewed, Around
  <2> QED BY <1>0, <2>1, <2>2, LineStays, InsertsStay DEF ProposalsInv
<1>2. CASE Type
  <2>0. PICK t \in Lines : \E c \in 0..Len(t) : line' = Typed(t, c)
    BY <1>2 DEF Type
  <2>1. PICK cursor \in 0..Len(t) : line' = Typed(t, cursor)
    BY <2>0
  <2>2. UNCHANGED <<rules, inserting, inserts, queued>> /\ asked' = NoLine /\ frame' = NoFrame
    BY <1>2 DEF Type
  <2>3. t \in Seq(Chars)
    BY ProposalsAssumption DEF Given
  <2>4. IsALine(line)' /\ line'.from.kind = "typed"
    BY <2>1, <2>3 DEF IsALine, Typed
  <2>5. IsALine(asked)' /\ FrameIsReviewed'
    BY <2>2 DEF IsALine, NoLine, FrameIsReviewed
  <2> QED BY <1>0, <2>2, <2>4, <2>5, InsertsStay
       DEF ProposalsInv, AppliedIsReviewed, LabelIsOfTheLine
<1>3. CASE CompleteWidget
  <2>1. /\ UNCHANGED <<rules, line, inserting, inserts, queued>> /\ frame' = NoFrame
        /\ asked'.text = line.text /\ asked'.cursor = line.cursor
    BY <1>3 DEF CompleteWidget
  <2>2. IsALine(asked)' /\ FrameIsReviewed'
    BY <1>0, <2>1 DEF IsALine, FrameIsReviewed
  <2> QED BY <1>0, <2>1, <2>2, LineStays, InsertsStay DEF ProposalsInv
<1>4. CASE Completion
  <2>1. UNCHANGED <<rules, line, asked, inserting, inserts, queued>>
    BY <1>4 DEF Completion, Answered
  <2>2. PICK op \in {"replace", "insert", "suggest", "none"}, command \in Commands, cursor \in {0, 1} :
          frame' = IF Control \in ToSet(command) THEN Failure ELSE Reviewed(op, command, cursor, asked)
    BY <1>4 DEF Completion, Answered
  <2>3. FrameIsReviewed'
    <3>1. CASE frame' = Failure
      BY <3>1 DEF FrameIsReviewed
    <3>2. CASE frame' = Reviewed(op, command, cursor, asked)
      BY <1>0, <2>1, <3>2, ReviewIsKept
    <3> QED BY <2>2, <3>1, <3>2
  <2>4. IsALine(asked)'
    BY <1>0, <2>1 DEF IsALine
  <2> QED BY <1>0, <2>1, <2>3, <2>4, LineStays, InsertsStay DEF ProposalsInv
<1>5. CASE LocalCompletion
  <2>1. UNCHANGED <<rules, line, asked, inserting, inserts, queued>>
    BY <1>5 DEF LocalCompletion, Answered
  <2>2. PICK command \in Commands :
          LET sent == Inline(OrLine(command, asked))
          IN  frame' = [op |-> IF command = <<>> THEN "suggest" ELSE "replace",
                        command |-> sent, cursor |-> Len(sent), exact |-> TRUE, assessed |-> sent,
                        patch |-> Patch(asked.text, sent)]
    BY <1>5 DEF LocalCompletion, Answered
  <2> DEFINE sent == Inline(OrLine(command, asked))
  <2>3. sent \in Seq(Chars)
    <3>1. OrLine(command, asked) \in Seq(Chars)
      BY <1>0, ProposalsAssumption DEF Given, OrLine, IsALine
    <3> QED BY <3>1, InlineIsText
  <2>4. /\ frame'.op \in {"suggest", "replace"} /\ frame'.command = sent /\ frame'.cursor = Len(sent)
        /\ frame'.assessed = sent
    BY <2>2
  <2> HIDE DEF sent
  <2>5. FrameIsReviewed'
    BY <2>3, <2>4 DEF FrameIsReviewed
  <2>6. IsALine(asked)'
    BY <1>0, <2>1 DEF IsALine
  <2> QED BY <1>0, <2>1, <2>5, <2>6, LineStays, InsertsStay DEF ProposalsInv
<1>6. CASE ReceiveCompletion
  <2>1. UNCHANGED <<rules, inserting, inserts, queued>> /\ asked' = NoLine /\ frame' = NoFrame
    BY <1>6 DEF ReceiveCompletion
  <2>2. IsALine(asked)' /\ FrameIsReviewed'
    BY <2>1 DEF IsALine, NoLine, FrameIsReviewed
  <2> QED BY <1>0, <1>6, <2>1, <2>2, AppliedIsALine, InsertsStay DEF ProposalsInv
<1>7. CASE InsertBuffer \/ SendInsert \/ ReceiveInsert
  <2>1. UNCHANGED <<rules, line, asked, frame>>
    BY <1>7 DEF InsertBuffer, SendInsert, ReceiveInsert
  <2>2. IsALine(asked)' /\ FrameIsReviewed'
    BY <1>0, <2>1 DEF IsALine, FrameIsReviewed, Around
  <2> QED BY <1>0, <1>7, <2>1, <2>2, LineStays, InsertionsAreLabelled DEF ProposalsInv
<1>8. CASE ApplyInserts
  <2> DEFINE t == Last(queued.commands)
  <2>1. /\ queued.commands # <<>> /\ queued' = [commands |-> <<>>, label |-> "unrated"]
        /\ line' = [text |-> t, cursor |-> Len(t), from |-> [kind |-> "inserted", label |-> queued.label]]
        /\ asked' = NoLine /\ frame' = NoFrame /\ UNCHANGED <<rules, inserting, inserts>>
    BY <1>8 DEF ApplyInserts, Newest
  <2>2. t \in Seq(Chars) /\ queued.label = Shown(t)
    BY <1>0, <2>1, FrontAndLast DEF InsertsAreLabelled
  <2>3. IsALine(asked)' /\ FrameIsReviewed'
    BY <2>1 DEF IsALine, NoLine, FrameIsReviewed
  <2>4. InsertsAreLabelled'
    <3>1. queued'.commands = <<>> /\ inserting' = inserting /\ inserts' = inserts
      BY <2>1
    <3>2. <<>> \in Seq(Seq(Chars))
      BY EmptySeq
    <3> QED BY <1>0, <2>1, <3>1, <3>2, RulesStay DEF InsertsAreLabelled
  <2> HIDE DEF t
  <2>5. line'.text = t /\ line'.cursor = Len(t) /\ line'.from = [kind |-> "inserted", label |-> queued.label]
    BY <2>1
  <2>6. IsALine(line)' /\ AppliedIsReviewed'
    BY <2>2, <2>5 DEF IsALine, AppliedIsReviewed
  <2>7. LabelIsOfTheLine'
    BY <2>1, <2>2, <2>5, RulesStay DEF LabelIsOfTheLine, Shown
  <2> QED BY <2>3, <2>4, <2>6, <2>7 DEF ProposalsInv
<1> QED BY <1>1, <1>2, <1>3, <1>4, <1>5, <1>6, <1>7, <1>8 DEF ProposalsNext

\* The inductive invariant of what is proposed holds in every reachable state.
THEOREM ProposalsAreKept == ProposalsSpec => []ProposalsInv
BY ProposalsStart, ProposalsStep, PTL DEF ProposalsSpec

\* For any lines, answers of the provider, rules and order of keys, frames and insertions:
\* what a completion makes of the line is what review_completion assessed as a whole, but
\* for blanks (and but for an empty command, which stands for the line).
THEOREM CompletionsAreReviewed == ProposalsSpec => []AppliedIsReviewed
BY ProposalsAreKept, PTL DEF ProposalsInv

\* For any insertions of other clients, however they are labelled by these, overtake each
\* other or wait: the line shown has the daemon's classification of that line, or the
\* shell's own where its rules fire.
THEOREM LabelsAreOfTheLine == ProposalsSpec => []LabelIsOfTheLine
BY ProposalsAreKept, PTL DEF ProposalsInv

-----------------------------------------------------------------------------
(* CommandProposals: what lcs_hunks computes.                                *)

\* What stands at a place of the tables of Lengths and of Edits.
Cell(of, g, a, b, i, j) ==
  IF of = "lengths"
  THEN IF i > Len(a) \/ j > Len(b) THEN 0
       ELSE IF a[i] = b[j] THEN g[<<i + 1, j + 1>>] + 1
       ELSE IF g[<<i + 1, j>>] < g[<<i, j + 1>>] THEN g[<<i, j + 1>>] ELSE g[<<i + 1, j>>]
  ELSE IF i > Len(a) /\ j > Len(b) THEN <<>>
       ELSE IF i <= Len(a) /\ j <= Len(b) /\ a[i] = b[j]
            THEN <<<<"kept", a[i]>>>> \o g[<<i + 1, j + 1>>]
       ELSE IF i <= Len(a) /\ (j > Len(b) \/ Lengths(a, b)[<<i + 1, j>>] >= Lengths(a, b)[<<i, j + 1>>])
            THEN <<<<"removed", a[i]>>>> \o g[<<i + 1, j>>]
       ELSE <<<<"added", b[j]>>>> \o g[<<i, j + 1>>]

IsTable(of, g, a, b) == g = [at \in Places(a, b) |-> Cell(of, g, a, b, at[1], at[2])]
Table(of, a, b) == CHOOSE g : IsTable(of, g, a, b)

LEMMA LengthsAreATable == ASSUME NEW a, NEW b PROVE Lengths(a, b) = Table("lengths", a, b)
<1>1. ASSUME NEW g
      PROVE  [at \in Places(a, b) |->
                 IF at[1] > Len(a) \/ at[2] > Len(b) THEN 0
                 ELSE IF a[at[1]] = b[at[2]] THEN g[<<at[1] + 1, at[2] + 1>>] + 1
                 ELSE IF g[<<at[1] + 1, at[2]>>] < g[<<at[1], at[2] + 1>>]
                      THEN g[<<at[1], at[2] + 1>>] ELSE g[<<at[1] + 1, at[2]>>]]
             = [at \in Places(a, b) |-> Cell("lengths", g, a, b, at[1], at[2])]
  BY DEF Cell
<1> QED BY <1>1 DEF Lengths, Table, IsTable

LEMMA EditsAreOfATable == ASSUME NEW a, NEW b PROVE Edits(a, b) = Table("edits", a, b)[<<1, 1>>]
<1> DEFINE L == Lengths(a, b)
<1>1. ASSUME NEW g
      PROVE  [at \in Places(a, b) |->
                 IF at[1] > Len(a) /\ at[2] > Len(b) THEN <<>>
                 ELSE IF at[1] <= Len(a) /\ at[2] <= Len(b) /\ a[at[1]] = b[at[2]]
                      THEN <<<<"kept", a[at[1]]>>>> \o g[<<at[1] + 1, at[2] + 1>>]
                 ELSE IF at[1] <= Len(a)
                         /\ (at[2] > Len(b) \/ L[<<at[1] + 1, at[2]>>] >= L[<<at[1], at[2] + 1>>])
                      THEN <<<<"removed", a[at[1]]>>>> \o g[<<at[1] + 1, at[2]>>]
                 ELSE <<<<"added", b[at[2]]>>>> \o g[<<at[1], at[2] + 1>>]]
             = [at \in Places(a, b) |-> Cell("edits", g, a, b, at[1], at[2])]
  BY DEF Cell
<1> QED BY <1>1 DEF Edits, Table, IsTable

\* What stands at a place depends on what stands further on.
LEMMA CellNeeds ==
  ASSUME NEW of, NEW W, NEW a \in Seq(W), NEW b \in Seq(W), NEW g, NEW h,
         NEW i \in 1..Len(a) + 1, NEW j \in 1..Len(b) + 1,
         \A k \in 1..Len(a) + 1, l \in 1..Len(b) + 1 : k + l > i + j => g[<<k, l>>] = h[<<k, l>>]
  PROVE  Cell(of, g, a, b, i, j) = Cell(of, h, a, b, i, j)
<1>1. i <= Len(a) => g[<<i + 1, j>>] = h[<<i + 1, j>>]
  OBVIOUS
<1>2. j <= Len(b) => g[<<i, j + 1>>] = h[<<i, j + 1>>]
  OBVIOUS
<1>3. i <= Len(a) /\ j <= Len(b) => g[<<i + 1, j + 1>>] = h[<<i + 1, j + 1>>]
  OBVIOUS
<1>4. i \in Nat /\ j \in Nat /\ Len(a) \in Nat /\ Len(b) \in Nat
  OBVIOUS
<1>5. (i > Len(a) <=> ~(i <= Len(a))) /\ (j > Len(b) <=> ~(j <= Len(b)))
  BY <1>4
<1> QED BY <1>1, <1>2, <1>3, <1>5 DEF Cell

\* The table as far as the places less than n steps from the end.
Filled(of, g, a, b, n) ==
  g = [at \in Places(a, b) |->
         IF at[1] + at[2] + n < Len(a) + Len(b) + 3 THEN <<>> ELSE Cell(of, g, a, b, at[1], at[2])]

LEMMA FilledExists ==
  ASSUME NEW of, NEW W, NEW a \in Seq(W), NEW b \in Seq(W), NEW m \in Nat
  PROVE  \E g : Filled(of, g, a, b, m)
<1> DEFINE T == {n \in Nat : \E g : Filled(of, g, a, b, n)}
           Far(at, n) == at[1] + at[2] + n < Len(a) + Len(b) + 3
<1>0. Len(a) \in Nat /\ Len(b) \in Nat
  OBVIOUS
<1>1. 0 \in T
  <2> DEFINE g == [at \in Places(a, b) |-> <<>>]
  <2>1. \A at \in Places(a, b) : Far(at, 0)
    BY <1>0 DEF Places
  <2>2. Filled(of, g, a, b, 0)
    BY <2>1 DEF Filled
  <2> HIDE DEF g
  <2> QED BY <2>2
<1>2. ASSUME NEW n \in T PROVE n + 1 \in T
  <2>0. n \in Nat
    BY <1>2
  <2>1. PICK g : Filled(of, g, a, b, n)
    BY <1>2
  <2> DEFINE h == [at \in Places(a, b) |->
                     IF Far(at, n + 1) THEN <<>> ELSE Cell(of, g, a, b, at[1], at[2])]
  <2>2. ASSUME NEW i \in 1..Len(a) + 1, NEW j \in 1..Len(b) + 1
        PROVE  h[<<i, j>>] = IF i + j + (n + 1) < Len(a) + Len(b) + 3 THEN <<>>
                             ELSE Cell(of, g, a, b, i, j)
    <3>1. <<i, j>> \in Places(a, b)
      BY DEF Places
    <3> QED BY <3>1
  <2>3. DOMAIN h = Places(a, b) /\ h = [at \in Places(a, b) |-> h[at]]
    OBVIOUS
  <2> HIDE DEF h
  <2>4. ASSUME NEW i \in 1..Len(a) + 1, NEW j \in 1..Len(b) + 1,
               ~(i + j + (n + 1) < Len(a) + Len(b) + 3)
        PROVE  Cell(of, g, a, b, i, j) = Cell(of, h, a, b, i, j)
    <3>1. ASSUME NEW k \in 1..Len(a) + 1, NEW l \in 1..Len(b) + 1, k + l > i + j
          PROVE  g[<<k, l>>] = h[<<k, l>>]
      <4>1. ~(k + l + n < Len(a) + Len(b) + 3) /\ ~(k + l + (n + 1) < Len(a) + Len(b) + 3)
        BY <1>0, <2>0, <2>4, <3>1
      <4>2. g[<<k, l>>] = Cell(of, g, a, b, k, l)
        <5>1. ~(k + l + n < Len(a) + Len(b) + 3)
          BY <4>1
        <5>2. <<k, l>> \in Places(a, b)
          BY DEF Places
        <5> QED BY <2>1, <5>1, <5>2 DEF Filled
      <4>3. h[<<k, l>>] = IF k + l + (n + 1) < Len(a) + Len(b) + 3 THEN <<>>
                          ELSE Cell(of, g, a, b, k, l)
        BY <2>2
      <4> QED BY <4>1, <4>2, <4>3
    <3> QED BY <3>1, CellNeeds
  <2>5. ASSUME NEW at \in Places(a, b)
        PROVE  h[at] = IF Far(at, n + 1) THEN <<>> ELSE Cell(of, h, a, b, at[1], at[2])
    <3>1. PICK i \in 1..Len(a) + 1, j \in 1..Len(b) + 1 : at = <<i, j>>
      BY DEF Places
    <3> QED BY <2>2, <2>4, <3>1
  <2>6. Filled(of, h, a, b, n + 1)
    BY <2>3, <2>5 DEF Filled
  <2> QED BY <2>0, <2>6
<1> HIDE DEF T
<1>3. T \in SUBSET Nat
  BY DEF T
<1>4. T = Nat
  BY <1>1, <1>2, <1>3, InductionOverNat
<1> QED BY <1>4 DEF T

LEMMA TableAt ==
  ASSUME NEW of, NEW W, NEW a \in Seq(W), NEW b \in Seq(W),
         NEW i \in 1..Len(a) + 1, NEW j \in 1..Len(b) + 1
  PROVE  Table(of, a, b)[<<i, j>>] = Cell(of, Table(of, a, b), a, b, i, j)
<1> DEFINE n == Len(a) + Len(b) + 1
<1>0. n \in Nat /\ Len(a) \in Nat /\ Len(b) \in Nat
  OBVIOUS
<1>1. PICK g : Filled(of, g, a, b, n)
  BY <1>0, FilledExists
<1>2. \A at \in Places(a, b) : ~(at[1] + at[2] + n < Len(a) + Len(b) + 3)
  BY <1>0 DEF Places
<1>3. IsTable(of, g, a, b)
  BY <1>1, <1>2 DEF Filled, IsTable
<1>4. IsTable(of, Table(of, a, b), a, b)
  BY <1>3 DEF Table
<1>5. <<i, j>> \in Places(a, b)
  BY DEF Places
<1> HIDE DEF n
<1> QED BY <1>4, <1>5 DEF IsTable

\* An argument that goes from the ends of two sequences to their beginnings.
LEMMA InductionOverPlaces ==
  ASSUME NEW W, NEW a \in Seq(W), NEW b \in Seq(W), NEW T \in SUBSET Places(a, b),
         \A i \in 1..Len(a) + 1, j \in 1..Len(b) + 1 :
           (\A k \in 1..Len(a) + 1, l \in 1..Len(b) + 1 : k + l > i + j => <<k, l>> \in T)
             => <<i, j>> \in T
  PROVE  \A i \in 1..Len(a) + 1, j \in 1..Len(b) + 1 : <<i, j>> \in T
<1> DEFINE Bad == {n \in Nat : \E i \in 1..Len(a) + 1, j \in 1..Len(b) + 1 :
                                 <<i, j>> \notin T /\ n = Len(a) + Len(b) + 2 - (i + j)}
<1>0. Len(a) \in Nat /\ Len(b) \in Nat
  OBVIOUS
<1>1. SUFFICES ASSUME NEW i \in 1..Len(a) + 1, NEW j \in 1..Len(b) + 1, <<i, j>> \notin T
               PROVE  FALSE
  OBVIOUS
<1>2. Len(a) + Len(b) + 2 - (i + j) \in Bad
  <2>1. i \in Nat /\ j \in Nat /\ i <= Len(a) + 1 /\ j <= Len(b) + 1
    BY <1>0
  <2>2. Len(a) + Len(b) + 2 - (i + j) \in Nat
    BY <1>0, <2>1
  <2> QED BY <1>1, <2>2
<1>3. PICK n \in Bad : \A m \in Bad : n <= m
  <2> HIDE DEF Bad
  <2>1. Bad \in SUBSET Nat
    BY DEF Bad
  <2> QED BY <1>2, <2>1, SmallestNat
<1>4. PICK k \in 1..Len(a) + 1, l \in 1..Len(b) + 1 :
        <<k, l>> \notin T /\ n = Len(a) + Len(b) + 2 - (k + l)
  BY <1>3
<1>5. PICK p \in 1..Len(a) + 1, q \in 1..Len(b) + 1 : p + q > k + l /\ <<p, q>> \notin T
  BY <1>4
<1>6. /\ Len(a) + Len(b) + 2 - (p + q) \in Nat
      /\ ~(n <= Len(a) + Len(b) + 2 - (p + q))
  <2>1. /\ k \in Nat /\ l \in Nat /\ p \in Nat /\ q \in Nat
        /\ p <= Len(a) + 1 /\ q <= Len(b) + 1
    BY <1>0
  <2> DEFINE x == Len(a)  y == Len(b)
  <2>2. x \in Nat /\ y \in Nat /\ n = x + y + 2 - (k + l) /\ p + q > k + l
        /\ p <= x + 1 /\ q <= y + 1
    BY <1>0, <1>4, <1>5, <2>1
  <2> HIDE DEF x, y
  <2>3. x + y + 2 - (p + q) \in Nat /\ ~(n <= x + y + 2 - (p + q))
    BY <2>1, <2>2
  <2> QED BY <2>3 DEF x, y
<1>7. Len(a) + Len(b) + 2 - (p + q) \in Bad
  BY <1>5, <1>6
<1> HIDE DEF Bad
<1> QED BY <1>3, <1>6, <1>7

LEMMA LengthsAt ==
  ASSUME NEW W, NEW a \in Seq(W), NEW b \in Seq(W),
         NEW i \in 1..Len(a) + 1, NEW j \in 1..Len(b) + 1
  PROVE  Lengths(a, b)[<<i, j>>] = Cell("lengths", Lengths(a, b), a, b, i, j)
<1>1. Table("lengths", a, b)[<<i, j>>] = Cell("lengths", Table("lengths", a, b), a, b, i, j)
  BY TableAt
<1>2. Lengths(a, b) = Table("lengths", a, b)
  BY LengthsAreATable
<1> QED BY <1>1, <1>2

LEMMA LengthsAreNat ==
  ASSUME NEW W, NEW a \in Seq(W), NEW b \in Seq(W)
  PROVE  \A i \in 1..Len(a) + 1, j \in 1..Len(b) + 1 : Lengths(a, b)[<<i, j>>] \in Nat
<1> DEFINE L == Lengths(a, b)
           T == {at \in Places(a, b) : L[at] \in Nat}
<1>1. ASSUME NEW i \in 1..Len(a) + 1, NEW j \in 1..Len(b) + 1,
             \A k \in 1..Len(a) + 1, l \in 1..Len(b) + 1 : k + l > i + j => <<k, l>> \in T
      PROVE  <<i, j>> \in T
  <2>1. L[<<i, j>>] = IF i > Len(a) \/ j > Len(b) THEN 0
                      ELSE IF a[i] = b[j] THEN L[<<i + 1, j + 1>>] + 1
                      ELSE IF L[<<i + 1, j>>] < L[<<i, j + 1>>]
                           THEN L[<<i, j + 1>>] ELSE L[<<i + 1, j>>]
    <3> HIDE DEF T
    <3>1. L[<<i, j>>] = Cell("lengths", L, a, b, i, j)
      BY LengthsAt
    <3> HIDE DEF L
    <3> QED BY <3>1 DEF Cell
  <2>2. <<i, j>> \in Places(a, b)
    BY DEF Places
  <2>3. i <= Len(a) /\ j <= Len(b) =>
          /\ <<i + 1, j + 1>> \in T /\ <<i + 1, j>> \in T /\ <<i, j + 1>> \in T
    <3>1. i <= Len(a) /\ j <= Len(b) => i + 1 \in 1..Len(a) + 1 /\ j + 1 \in 1..Len(b) + 1
      OBVIOUS
    <3>2. i + 1 + (j + 1) > i + j /\ i + 1 + j > i + j /\ i + (j + 1) > i + j
      OBVIOUS
    <3> HIDE DEF T
    <3> QED BY <1>1, <3>1, <3>2
  <2>4. i <= Len(a) /\ j <= Len(b) =>
          L[<<i + 1, j + 1>>] \in Nat /\ L[<<i + 1, j>>] \in Nat /\ L[<<i, j + 1>>] \in Nat
    BY <2>3
  <2> HIDE DEF L, T
  <2>5. L[<<i, j>>] \in Nat
    <3>1. CASE i > Len(a) \/ j > Len(b)
      BY <2>1, <3>1
    <3>2. CASE i <= Len(a) /\ j <= Len(b)
      <4>1. ~(i > Len(a) \/ j > Len(b))
        BY <3>2
      <4>2. L[<<i, j>>] \in {L[<<i + 1, j + 1>>] + 1, L[<<i, j + 1>>], L[<<i + 1, j>>]}
        BY <2>1, <4>1
      <4>3. L[<<i + 1, j + 1>>] \in Nat /\ L[<<i + 1, j>>] \in Nat /\ L[<<i, j + 1>>] \in Nat
        BY <2>4, <3>2
      <4>4. L[<<i + 1, j + 1>>] + 1 \in Nat
        BY <4>3
      <4> QED BY <4>2, <4>3, <4>4, ZenonT(20)
    <3>3. (i > Len(a) \/ j > Len(b)) \/ (i <= Len(a) /\ j <= Len(b))
      OBVIOUS
    <3> QED BY <3>1, <3>2, <3>3, ZenonT(20)
  <2> QED BY <2>2, <2>5 DEF T
<1>2. T \in SUBSET Places(a, b)
  OBVIOUS
<1> HIDE DEF T
<1>3. \A i \in 1..Len(a) + 1, j \in 1..Len(b) + 1 : <<i, j>> \in T
  BY <1>1, <1>2, InductionOverPlaces
<1> QED BY <1>3 DEF T

-----------------------------------------------------------------------------
(* The words of a patch.                                                     *)

Entries(W) == {"kept", "removed", "added"} \X W
Sides == {"before", "after", "both"}

LEMMA WordsOfAreMade ==
  ASSUME NEW side \in Sides, NEW patch
  PROVE  WordsOf(patch, KindsOf[side]) = Made(side, patch)
<1>1. ASSUME NEW g
      PROVE  [n \in 0..Len(patch) |->
                IF n = 0 THEN <<>>
                ELSE IF patch[n][1] \in KindsOf[side] THEN Append(g[n - 1], patch[n][2]) ELSE g[n - 1]]
             = [n \in 0..Len(patch) |-> IF n = 0 THEN <<>> ELSE Grow(side, g[n - 1], patch, n)]
  BY DEF Grow, Sides
<1> QED BY <1>1 DEF WordsOf, Made, Grown

LEMMA SideOfMore ==
  ASSUME NEW side \in Sides, NEW S, NEW items \in Seq(S), NEW x \in S
  PROVE  Made(side, Append(items, x)) =
           IF x[1] \in KindsOf[side] THEN Append(Made(side, items), x[2]) ELSE Made(side, items)
<1> DEFINE more == Append(items, x)
           n == Len(items) + 1
           made == Made(side, items)
<1>1. more[n] = x
  BY AppendProperties
<1>2. Made(side, more) = Grow(side, made, more, n)
  BY MadeOfMore
<1> HIDE DEF more, n, made
<1>3. Grow(side, made, more, n) = IF more[n][1] \in KindsOf[side] THEN Append(made, more[n][2]) ELSE made
  BY DEF Grow, Sides
<1> QED BY <1>1, <1>2, <1>3 DEF more, made

LEMMA SidesAreTexts ==
  ASSUME NEW side \in Sides, NEW W, NEW patch \in Seq(Entries(W))
  PROVE  Made(side, patch) \in Seq(W)
<1> DEFINE T == {n \in Nat : \A u \in Seq(Entries(W)) : Len(u) = n => Made(side, u) \in Seq(W)}
<1>1. 0 \in T
  <2>1. \A u \in Seq(Entries(W)) : Len(u) = 0 => u = <<>>
    OBVIOUS
  <2>2. <<>> \in Seq(W)
    BY EmptySeq
  <2> QED BY <2>1, <2>2, MadeOfNone
<1>2. ASSUME NEW n \in T PROVE n + 1 \in T
  <2>1. SUFFICES ASSUME NEW u \in Seq(Entries(W)), Len(u) = n + 1 PROVE Made(side, u) \in Seq(W)
    BY <1>2
  <2>2. PICK before \in Seq(Entries(W)), x \in Entries(W) : u = Append(before, x) /\ Len(before) = n
    BY <1>2, <2>1, LastOne
  <2>3. Made(side, before) \in Seq(W) /\ x[2] \in W
    BY <1>2, <2>2 DEF Entries
  <2>4. Append(Made(side, before), x[2]) \in Seq(W)
    BY <2>3
  <2> QED BY <2>2, <2>3, <2>4, SideOfMore
<1> HIDE DEF T
<1>3. T \in SUBSET Nat
  BY DEF T
<1>4. T = Nat
  BY <1>1, <1>2, <1>3, InductionOverNat
<1> QED BY <1>4 DEF T

LEMMA SideOfBoth ==
  ASSUME NEW side \in Sides, NEW W, NEW s \in Seq(Entries(W)), NEW t \in Seq(Entries(W))
  PROVE  Made(side, s \o t) = Made(side, s) \o Made(side, t)
<1> DEFINE S == Entries(W)
           T == {n \in Nat : \A u \in Seq(S) : Len(u) = n =>
                               Made(side, s \o u) = Made(side, s) \o Made(side, u)}
<1>0. Made(side, s) \in Seq(W)
  BY SidesAreTexts
<1>1. 0 \in T
  <2>1. \A u \in Seq(S) : Len(u) = 0 => u = <<>>
    OBVIOUS
  <2>2. s \o <<>> = s /\ Made(side, s) \o <<>> = Made(side, s)
    BY <1>0, ConcatEmptySeq
  <2> QED BY <2>1, <2>2, MadeOfNone
<1>2. ASSUME NEW n \in T PROVE n + 1 \in T
  <2>1. SUFFICES ASSUME NEW u \in Seq(S), Len(u) = n + 1
                 PROVE  Made(side, s \o u) = Made(side, s) \o Made(side, u)
    BY <1>2
  <2>2. PICK before \in Seq(S), x \in S : u = Append(before, x) /\ Len(before) = n
    BY <1>2, <2>1, LastOne
  <2>3. Made(side, s \o before) = Made(side, s) \o Made(side, before)
    BY <1>2, <2>2
  <2>4. s \o u = Append(s \o before, x) /\ s \o before \in Seq(S)
    BY <2>2, MoreItems
  <2>5. Made(side, s \o u) = IF x[1] \in KindsOf[side] THEN Append(Made(side, s \o before), x[2])
                             ELSE Made(side, s \o before)
    <3> DEFINE b == s \o before
    <3>1. b \in Seq(S) /\ s \o u = Append(b, x)
      BY <2>4
    <3> HIDE DEF b, S
    <3>2. Made(side, Append(b, x)) = IF x[1] \in KindsOf[side] THEN Append(Made(side, b), x[2])
                                     ELSE Made(side, b)
      BY <2>2, <3>1, SideOfMore
    <3> QED BY <3>1, <3>2 DEF b
  <2>6. Made(side, u) = IF x[1] \in KindsOf[side] THEN Append(Made(side, before), x[2])
                        ELSE Made(side, before)
    BY <2>2, SideOfMore
  <2>7. Made(side, s) \o Append(Made(side, before), x[2])
          = Append(Made(side, s) \o Made(side, before), x[2])
    <3>1. Made(side, before) \in Seq(W) /\ x[2] \in W
      BY <2>2, SidesAreTexts DEF Entries
    <3> QED BY <1>0, <3>1, MoreItems
  <2> QED BY <2>3, <2>5, <2>6, <2>7
<1> HIDE DEF T
<1>3. T \in SUBSET Nat
  BY DEF T
<1>4. T = Nat
  BY <1>1, <1>2, <1>3, InductionOverNat
<1> QED BY <1>4 DEF T

LEMMA SideOfFirst ==
  ASSUME NEW side \in Sides, NEW W, NEW x \in Entries(W), NEW patch \in Seq(Entries(W))
  PROVE  Made(side, <<x>> \o patch) =
           IF x[1] \in KindsOf[side] THEN <<x[2]>> \o Made(side, patch) ELSE Made(side, patch)
<1>1. <<x>> = Append(<<>>, x) /\ <<>> \in Seq(Entries(W)) /\ <<x>> \in Seq(Entries(W))
  OBVIOUS
<1>2. Made(side, <<x>>) = IF x[1] \in KindsOf[side] THEN Append(<<>>, x[2]) ELSE <<>>
  <2> DEFINE none == <<>>
             one == <<x>>
  <2>1. none \in Seq(Entries(W)) /\ one = Append(none, x) /\ Made(side, none) = <<>>
    BY <1>1, MadeOfNone
  <2> HIDE DEF none, one
  <2>2. Made(side, Append(none, x)) =
          IF x[1] \in KindsOf[side] THEN Append(Made(side, none), x[2]) ELSE Made(side, none)
    BY <2>1, SideOfMore
  <2> QED BY <2>1, <2>2 DEF one
<1>3. Made(side, <<x>> \o patch) = Made(side, <<x>>) \o Made(side, patch)
  BY <1>1, SideOfBoth
<1>4. Made(side, patch) \in Seq(W)
  BY SidesAreTexts
<1>5. Append(<<>>, x[2]) = <<x[2]>> /\ <<>> \o Made(side, patch) = Made(side, patch)
  BY <1>4, ConcatEmptySeq
<1> QED BY <1>2, <1>3, <1>5

LEMMA RestOf ==
  ASSUME NEW W, NEW a \in Seq(W), NEW i \in 1..Len(a) + 1
  PROVE  /\ SubSeq(a, i, Len(a)) \in Seq(W)
         /\ i <= Len(a) => SubSeq(a, i, Len(a)) = <<a[i]>> \o SubSeq(a, i + 1, Len(a))
         /\ i > Len(a) => SubSeq(a, i, Len(a)) = <<>>
<1>1. i <= Len(a) => SubSeq(a, i, Len(a)) = <<a[i]>> \o SubSeq(a, i + 1, Len(a))
  OBVIOUS
<1> QED BY <1>1

\* What the rest of the edits leads from, to, and keeps.
Leads(a, b, i, j) ==
  LET left == Table("edits", a, b)[<<i, j>>] IN
  /\ Made("before", left) = SubSeq(a, i, Len(a))
  /\ Made("after", left) = SubSeq(b, j, Len(b))
  /\ Len(Made("both", left)) = Lengths(a, b)[<<i, j>>]

LEMMA EditsAreEntries ==
  ASSUME NEW W, NEW a \in Seq(W), NEW b \in Seq(W)
  PROVE  \A i \in 1..Len(a) + 1, j \in 1..Len(b) + 1 : Table("edits", a, b)[<<i, j>>] \in Seq(Entries(W))
<1> DEFINE E == Table("edits", a, b)
           L == Lengths(a, b)
           T == {at \in Places(a, b) : E[at] \in Seq(Entries(W))}
<1>1. ASSUME NEW i \in 1..Len(a) + 1, NEW j \in 1..Len(b) + 1,
             \A k \in 1..Len(a) + 1, l \in 1..Len(b) + 1 : k + l > i + j => <<k, l>> \in T
      PROVE  <<i, j>> \in T
  <2>1. E[<<i, j>>] =
           IF i > Len(a) /\ j > Len(b) THEN <<>>
           ELSE IF i <= Len(a) /\ j <= Len(b) /\ a[i] = b[j]
                THEN <<<<"kept", a[i]>>>> \o E[<<i + 1, j + 1>>]
           ELSE IF i <= Len(a) /\ (j > Len(b) \/ L[<<i + 1, j>>] >= L[<<i, j + 1>>])
                THEN <<<<"removed", a[i]>>>> \o E[<<i + 1, j>>]
           ELSE <<<<"added", b[j]>>>> \o E[<<i, j + 1>>]
    <3> HIDE DEF T
    <3>1. E[<<i, j>>] = Cell("edits", E, a, b, i, j)
      BY TableAt
    <3> HIDE DEF E
    <3>2. "edits" # "lengths"
      OBVIOUS
    <3> QED BY <3>1, <3>2 DEF Cell
  <2>2. <<i, j>> \in Places(a, b)
    BY DEF Places
  <2>3. /\ i <= Len(a) => <<i + 1, j>> \in T
        /\ j <= Len(b) => <<i, j + 1>> \in T
        /\ i <= Len(a) /\ j <= Len(b) => <<i + 1, j + 1>> \in T
    <3>1. /\ i <= Len(a) => i + 1 \in 1..Len(a) + 1
          /\ j <= Len(b) => j + 1 \in 1..Len(b) + 1
      OBVIOUS
    <3>2. i + 1 + (j + 1) > i + j /\ i + 1 + j > i + j /\ i + (j + 1) > i + j
      OBVIOUS
    <3> HIDE DEF T
    <3> QED BY <1>1, <3>1, <3>2
  <2>4. /\ i <= Len(a) => E[<<i + 1, j>>] \in Seq(Entries(W))
        /\ j <= Len(b) => E[<<i, j + 1>>] \in Seq(Entries(W))
        /\ i <= Len(a) /\ j <= Len(b) => E[<<i + 1, j + 1>>] \in Seq(Entries(W))
    BY <2>3
  <2>5. /\ i <= Len(a) => <<"kept", a[i]>> \in Entries(W) /\ <<"removed", a[i]>> \in Entries(W)
        /\ j <= Len(b) => <<"added", b[j]>> \in Entries(W)
    BY DEF Entries
  <2>6. i <= Len(a) \/ i > Len(a)
    OBVIOUS
  <2>7. j <= Len(b) \/ j > Len(b)
    OBVIOUS
  <2> HIDE DEF E, L
  <2>8. \A x \in Entries(W), u \in Seq(Entries(W)) : <<x>> \o u \in Seq(Entries(W))
    OBVIOUS
  <2>9. E[<<i, j>>] \in Seq(Entries(W))
    <3>1. CASE i > Len(a) /\ j > Len(b)
      <4>1. E[<<i, j>>] = <<>>
        BY <2>1, <3>1
      <4> QED BY <4>1, EmptySeq
    <3>2. CASE i <= Len(a) /\ j <= Len(b)
      <4>1. E[<<i, j>>] \in {<<<<"kept", a[i]>>>> \o E[<<i + 1, j + 1>>],
                             <<<<"removed", a[i]>>>> \o E[<<i + 1, j>>],
                             <<<<"added", b[j]>>>> \o E[<<i, j + 1>>]}
        BY <2>1, <3>2
      <4> QED BY <2>4, <2>5, <2>8, <3>2, <4>1
    <3>3. CASE i <= Len(a) /\ j > Len(b)
      <4>0. ~(i > Len(a) /\ j > Len(b)) /\ ~(i <= Len(a) /\ j <= Len(b) /\ a[i] = b[j])
        BY <3>3
      <4>1. E[<<i, j>>] = <<<<"removed", a[i]>>>> \o E[<<i + 1, j>>]
        BY <2>1, <3>3, <4>0, ZenonT(20)
      <4> QED BY <2>4, <2>5, <2>8, <3>3, <4>1
    <3>4. CASE i > Len(a) /\ j <= Len(b)
      <4>0. ~(j > Len(b)) /\ ~(i <= Len(a))
        BY <3>4
      <4>1. E[<<i, j>>] = <<<<"added", b[j]>>>> \o E[<<i, j + 1>>]
        BY <2>1, <4>0, ZenonT(20)
      <4> QED BY <2>4, <2>5, <2>8, <3>4, <4>1
    <3> QED BY <2>6, <2>7, <3>1, <3>2, <3>3, <3>4
  <2> QED BY <2>2, <2>9
<1>2. T \in SUBSET Places(a, b)
  OBVIOUS
<1> HIDE DEF T
<1>3. \A i \in 1..Len(a) + 1, j \in 1..Len(b) + 1 : <<i, j>> \in T
  BY <1>1, <1>2, InductionOverPlaces
<1> QED BY <1>3 DEF T

\* One entry more at the beginning.
LEMMA EntryLeads ==
  ASSUME NEW W, NEW x \in Entries(W), NEW left \in Seq(Entries(W)), NEW patch, patch = <<x>> \o left
  PROVE  /\ Made("before", patch) = IF x[1] \in {"kept", "removed"}
                                    THEN <<x[2]>> \o Made("before", left) ELSE Made("before", left)
         /\ Made("after", patch) = IF x[1] \in {"kept", "added"}
                                   THEN <<x[2]>> \o Made("after", left) ELSE Made("after", left)
         /\ Len(Made("both", patch)) = IF x[1] = "kept" THEN Len(Made("both", left)) + 1
                                       ELSE Len(Made("both", left))
<1>1. /\ KindsOf["before"] = {"kept", "removed"} /\ KindsOf["after"] = {"kept", "added"}
      /\ KindsOf["both"] = {"kept"}
  BY DEF KindsOf
<1>2. "before" \in Sides /\ "after" \in Sides /\ "both" \in Sides
  BY DEF Sides
<1>3. ASSUME NEW side \in Sides
      PROVE  Made(side, patch) = IF x[1] \in KindsOf[side] THEN <<x[2]>> \o Made(side, left)
                                 ELSE Made(side, left)
  BY SideOfFirst
<1>4. Made("both", left) \in Seq(W) /\ x[2] \in W
  BY <1>2, SidesAreTexts DEF Entries
<1>5. Len(<<x[2]>> \o Made("both", left)) = Len(Made("both", left)) + 1
  BY <1>4
<1>6. Made("both", patch) = IF x[1] = "kept" THEN <<x[2]>> \o Made("both", left) ELSE Made("both", left)
  BY <1>1, <1>2, <1>3
<1>7. Made("before", patch) = IF x[1] \in {"kept", "removed"}
                              THEN <<x[2]>> \o Made("before", left) ELSE Made("before", left)
  BY <1>1, <1>2, <1>3
<1>8. Made("after", patch) = IF x[1] \in {"kept", "added"}
                             THEN <<x[2]>> \o Made("after", left) ELSE Made("after", left)
  BY <1>1, <1>2, <1>3
<1> QED BY <1>5, <1>6, <1>7, <1>8

\* How the rest of the edits begins.
NextIs(E, L, a, b, i, j) ==
  \/ /\ i > Len(a) /\ j > Len(b) /\ E[<<i, j>>] = <<>> /\ L[<<i, j>>] = 0
  \/ /\ i <= Len(a) /\ j <= Len(b) /\ a[i] = b[j]
     /\ E[<<i, j>>] = <<<<"kept", a[i]>>>> \o E[<<i + 1, j + 1>>]
     /\ L[<<i, j>>] = L[<<i + 1, j + 1>>] + 1
  \/ /\ i <= Len(a) /\ E[<<i, j>>] = <<<<"removed", a[i]>>>> \o E[<<i + 1, j>>]
     /\ L[<<i, j>>] = L[<<i + 1, j>>]
  \/ /\ j <= Len(b) /\ E[<<i, j>>] = <<<<"added", b[j]>>>> \o E[<<i, j + 1>>]
     /\ L[<<i, j>>] = L[<<i, j + 1>>]

LEMMA NextEdit ==
  ASSUME NEW W, NEW a \in Seq(W), NEW b \in Seq(W), NEW L, NEW E,
         L = Lengths(a, b), E = Table("edits", a, b),
         NEW i \in 1..Len(a) + 1, NEW j \in 1..Len(b) + 1
  PROVE  NextIs(E, L, a, b, i, j)
<1>1. E[<<i, j>>] = Cell("edits", E, a, b, i, j)
  BY TableAt
<1>2. ASSUME NEW k \in 1..Len(a) + 1, NEW l \in 1..Len(b) + 1
      PROVE  L[<<k, l>>] = Cell("lengths", L, a, b, k, l) /\ L[<<k, l>>] \in Nat
  BY TableAt, LengthsAreATable, LengthsAreNat
<1>3. "edits" # "lengths"
  OBVIOUS
<1>4. /\ i <= Len(a) => i + 1 \in 1..Len(a) + 1
      /\ j <= Len(b) => j + 1 \in 1..Len(b) + 1
      /\ (i > Len(a) <=> ~(i <= Len(a))) /\ (j > Len(b) <=> ~(j <= Len(b)))
  OBVIOUS
<1>5. CASE i > Len(a) /\ j > Len(b)
  BY <1>1, <1>2, <1>3, <1>4, <1>5 DEF Cell, NextIs
<1>6. CASE i <= Len(a) /\ j > Len(b)
  <2>1. E[<<i, j>>] = <<<<"removed", a[i]>>>> \o E[<<i + 1, j>>]
    BY <1>1, <1>3, <1>4, <1>6 DEF Cell
  <2>2. L[<<i, j>>] = 0 /\ L[<<i + 1, j>>] = 0
    BY <1>2, <1>4, <1>6 DEF Cell
  <2> QED BY <1>6, <2>1, <2>2 DEF NextIs
<1>7. CASE i > Len(a) /\ j <= Len(b)
  <2>1. E[<<i, j>>] = <<<<"added", b[j]>>>> \o E[<<i, j + 1>>]
    BY <1>1, <1>3, <1>4, <1>7 DEF Cell
  <2>2. L[<<i, j>>] = 0 /\ L[<<i, j + 1>>] = 0
    BY <1>2, <1>4, <1>7 DEF Cell
  <2> QED BY <1>7, <2>1, <2>2 DEF NextIs
<1>8. CASE i <= Len(a) /\ j <= Len(b) /\ a[i] = b[j]
  <2>1. E[<<i, j>>] = <<<<"kept", a[i]>>>> \o E[<<i + 1, j + 1>>]
    BY <1>1, <1>3, <1>4, <1>8 DEF Cell
  <2>2. L[<<i, j>>] = L[<<i + 1, j + 1>>] + 1
    BY <1>2, <1>4, <1>8 DEF Cell
  <2> QED BY <1>8, <2>1, <2>2 DEF NextIs
<1>9. CASE i <= Len(a) /\ j <= Len(b) /\ a[i] # b[j]
  <2>1. E[<<i, j>>] = IF L[<<i + 1, j>>] >= L[<<i, j + 1>>]
                      THEN <<<<"removed", a[i]>>>> \o E[<<i + 1, j>>]
                      ELSE <<<<"added", b[j]>>>> \o E[<<i, j + 1>>]
    BY <1>1, <1>3, <1>4, <1>9 DEF Cell
  <2>2. L[<<i, j>>] = IF L[<<i + 1, j>>] < L[<<i, j + 1>>] THEN L[<<i, j + 1>>] ELSE L[<<i + 1, j>>]
    BY <1>2, <1>4, <1>9 DEF Cell
  <2>3. L[<<i + 1, j>>] \in Nat /\ L[<<i, j + 1>>] \in Nat
    BY <1>2, <1>4, <1>9
  <2>4. CASE L[<<i + 1, j>>] >= L[<<i, j + 1>>]
    <3>1. ~(L[<<i + 1, j>>] < L[<<i, j + 1>>])
      BY <2>3, <2>4
    <3> QED BY <1>9, <2>1, <2>2, <2>4, <3>1 DEF NextIs
  <2>5. CASE ~(L[<<i + 1, j>>] >= L[<<i, j + 1>>])
    <3>1. L[<<i + 1, j>>] < L[<<i, j + 1>>]
      BY <2>3, <2>5
    <3> QED BY <1>9, <2>1, <2>2, <2>5, <3>1 DEF NextIs
  <2> QED BY <2>4, <2>5
<1> QED BY <1>4, <1>5, <1>6, <1>7, <1>8, <1>9

LEMMA EditsLead ==
  ASSUME NEW W, NEW a \in Seq(W), NEW b \in Seq(W)
  PROVE  \A i \in 1..Len(a) + 1, j \in 1..Len(b) + 1 : Leads(a, b, i, j)
<1> DEFINE E == Table("edits", a, b)
           L == Lengths(a, b)
           T == {at \in Places(a, b) : Leads(a, b, at[1], at[2])}
<1>1. ASSUME NEW i \in 1..Len(a) + 1, NEW j \in 1..Len(b) + 1,
             \A k \in 1..Len(a) + 1, l \in 1..Len(b) + 1 : k + l > i + j => <<k, l>> \in T
      PROVE  <<i, j>> \in T
  <2>1. <<i, j>> \in Places(a, b)
    BY DEF Places
  <2>2. /\ i <= Len(a) => Leads(a, b, i + 1, j)
        /\ j <= Len(b) => Leads(a, b, i, j + 1)
        /\ i <= Len(a) /\ j <= Len(b) => Leads(a, b, i + 1, j + 1)
    <3>1. /\ i <= Len(a) => i + 1 \in 1..Len(a) + 1
          /\ j <= Len(b) => j + 1 \in 1..Len(b) + 1
      OBVIOUS
    <3>2. i + 1 + (j + 1) > i + j /\ i + 1 + j > i + j /\ i + (j + 1) > i + j
      OBVIOUS
    <3>3. \A k, l : <<k, l>> \in T => Leads(a, b, k, l)
      OBVIOUS
    <3> HIDE DEF T
    <3> QED BY <1>1, <3>1, <3>2, <3>3
  <2>3. /\ i <= Len(a) => E[<<i + 1, j>>] \in Seq(Entries(W))
        /\ j <= Len(b) => E[<<i, j + 1>>] \in Seq(Entries(W))
        /\ i <= Len(a) /\ j <= Len(b) => E[<<i + 1, j + 1>>] \in Seq(Entries(W))
    <3>1. /\ i <= Len(a) => i + 1 \in 1..Len(a) + 1
          /\ j <= Len(b) => j + 1 \in 1..Len(b) + 1
      OBVIOUS
    <3> HIDE DEF T
    <3> QED BY <3>1, EditsAreEntries
  <2>4. /\ i <= Len(a) => <<"kept", a[i]>> \in Entries(W) /\ <<"removed", a[i]>> \in Entries(W)
        /\ j <= Len(b) => <<"added", b[j]>> \in Entries(W)
    BY DEF Entries
  <2>5. /\ i <= Len(a) => SubSeq(a, i, Len(a)) = <<a[i]>> \o SubSeq(a, i + 1, Len(a))
        /\ i > Len(a) => SubSeq(a, i, Len(a)) = <<>>
        /\ j <= Len(b) => SubSeq(b, j, Len(b)) = <<b[j]>> \o SubSeq(b, j + 1, Len(b))
        /\ j > Len(b) => SubSeq(b, j, Len(b)) = <<>>
    BY RestOf
  <2>6. \A side : Made(side, <<>>) = <<>>
    BY MadeOfNone
  <2>7. NextIs(E, L, a, b, i, j)
    <3> HIDE DEF T
    <3> QED BY NextEdit
  <2>8. ASSUME NEW k, NEW l
        PROVE  Leads(a, b, k, l) <=> /\ Made("before", E[<<k, l>>]) = SubSeq(a, k, Len(a))
                                     /\ Made("after", E[<<k, l>>]) = SubSeq(b, l, Len(b))
                                     /\ Len(Made("both", E[<<k, l>>])) = L[<<k, l>>]
    BY DEF Leads
  <2> HIDE DEF E, L, T
  <2> DEFINE e == E[<<i, j>>]
  <2>9. Leads(a, b, i, j)
    <3>1. CASE i > Len(a) /\ j > Len(b) /\ e = <<>> /\ L[<<i, j>>] = 0
      <4>1. Len(<<>>) = 0
        OBVIOUS
      <4> QED BY <2>5, <2>6, <2>8, <3>1, <4>1
    <3>2. CASE /\ i <= Len(a) /\ j <= Len(b) /\ a[i] = b[j]
               /\ e = <<<<"kept", a[i]>>>> \o E[<<i + 1, j + 1>>]
               /\ L[<<i, j>>] = L[<<i + 1, j + 1>>] + 1
      <4> DEFINE x == <<"kept", a[i]>>
                 after == E[<<i + 1, j + 1>>]
      <4>1. x \in Entries(W) /\ after \in Seq(Entries(W)) /\ e = <<x>> \o after
            /\ x[1] = "kept" /\ x[2] = a[i]
        BY <2>3, <2>4, <3>2
      <4>2. Leads(a, b, i + 1, j + 1)
        BY <2>2, <3>2
      <4>3. /\ Made("before", after) = SubSeq(a, i + 1, Len(a))
            /\ Made("after", after) = SubSeq(b, j + 1, Len(b))
            /\ Len(Made("both", after)) = L[<<i + 1, j + 1>>]
        BY <2>8, <4>2
      <4> HIDE DEF x, after, e
      <4>4. /\ Made("before", e) = <<a[i]>> \o Made("before", after)
            /\ Made("after", e) = <<a[i]>> \o Made("after", after)
            /\ Len(Made("both", e)) = Len(Made("both", after)) + 1
        <5>1. /\ Made("before", e) = IF x[1] \in {"kept", "removed"}
                                     THEN <<x[2]>> \o Made("before", after) ELSE Made("before", after)
              /\ Made("after", e) = IF x[1] \in {"kept", "added"}
                                    THEN <<x[2]>> \o Made("after", after) ELSE Made("after", after)
              /\ Len(Made("both", e)) = IF x[1] = "kept" THEN Len(Made("both", after)) + 1
                                        ELSE Len(Made("both", after))
          BY <4>1, EntryLeads
        <5> QED BY <3>2, <4>1, <5>1
      <4> QED BY <2>5, <2>8, <3>2, <4>3, <4>4 DEF e
    <3>3. CASE /\ i <= Len(a) /\ e = <<<<"removed", a[i]>>>> \o E[<<i + 1, j>>]
               /\ L[<<i, j>>] = L[<<i + 1, j>>]
      <4> DEFINE x == <<"removed", a[i]>>
                 after == E[<<i + 1, j>>]
      <4>1. x \in Entries(W) /\ after \in Seq(Entries(W)) /\ e = <<x>> \o after
            /\ x[1] = "removed" /\ x[2] = a[i]
        BY <2>3, <2>4, <3>3
      <4>2. Leads(a, b, i + 1, j)
        BY <2>2, <3>3
      <4>3. /\ Made("before", after) = SubSeq(a, i + 1, Len(a))
            /\ Made("after", after) = SubSeq(b, j, Len(b))
            /\ Len(Made("both", after)) = L[<<i + 1, j>>]
        BY <2>8, <4>2
      <4> HIDE DEF x, after, e
      <4>4. /\ Made("before", e) = <<a[i]>> \o Made("before", after)
            /\ Made("after", e) = Made("after", after)
            /\ Len(Made("both", e)) = Len(Made("both", after))
        <5>1. /\ Made("before", e) = IF x[1] \in {"kept", "removed"}
                                     THEN <<x[2]>> \o Made("before", after) ELSE Made("before", after)
              /\ Made("after", e) = IF x[1] \in {"kept", "added"}
                                    THEN <<x[2]>> \o Made("after", after) ELSE Made("after", after)
              /\ Len(Made("both", e)) = IF x[1] = "kept" THEN Len(Made("both", after)) + 1
                                        ELSE Len(Made("both", after))
          BY <4>1, EntryLeads
        <5> QED BY <3>3, <4>1, <5>1
      <4> QED BY <2>5, <2>8, <3>3, <4>3, <4>4 DEF e
    <3>4. CASE /\ j <= Len(b) /\ e = <<<<"added", b[j]>>>> \o E[<<i, j + 1>>]
               /\ L[<<i, j>>] = L[<<i, j + 1>>]
      <4> DEFINE x == <<"added", b[j]>>
                 after == E[<<i, j + 1>>]
      <4>1. x \in Entries(W) /\ after \in Seq(Entries(W)) /\ e = <<x>> \o after
            /\ x[1] = "added" /\ x[2] = b[j]
        BY <2>3, <2>4, <3>4
      <4>2. Leads(a, b, i, j + 1)
        BY <2>2, <3>4
      <4>3. /\ Made("before", after) = SubSeq(a, i, Len(a))
            /\ Made("after", after) = SubSeq(b, j + 1, Len(b))
            /\ Len(Made("both", after)) = L[<<i, j + 1>>]
        BY <2>8, <4>2
      <4> HIDE DEF x, after, e
      <4>4. /\ Made("before", e) = Made("before", after)
            /\ Made("after", e) = <<b[j]>> \o Made("after", after)
            /\ Len(Made("both", e)) = Len(Made("both", after))
        <5>1. /\ Made("before", e) = IF x[1] \in {"kept", "removed"}
                                     THEN <<x[2]>> \o Made("before", after) ELSE Made("before", after)
              /\ Made("after", e) = IF x[1] \in {"kept", "added"}
                                    THEN <<x[2]>> \o Made("after", after) ELSE Made("after", after)
              /\ Len(Made("both", e)) = IF x[1] = "kept" THEN Len(Made("both", after)) + 1
                                        ELSE Len(Made("both", after))
          BY <4>1, EntryLeads
        <5> QED BY <3>4, <4>1, <5>1
      <4> QED BY <2>5, <2>8, <3>4, <4>3, <4>4 DEF e
    <3> QED BY <2>7, <3>1, <3>2, <3>3, <3>4 DEF NextIs
  <2> QED BY <2>1, <2>9 DEF T
<1>2. T \in SUBSET Places(a, b)
  OBVIOUS
<1> HIDE DEF T
<1>3. \A i \in 1..Len(a) + 1, j \in 1..Len(b) + 1 : <<i, j>> \in T
  BY <1>1, <1>2, InductionOverPlaces
<1> QED BY <1>3 DEF T

-----------------------------------------------------------------------------
(* No two sequences have more in common than Lengths says.                   *)

NoLonger(a, b, i, j) ==
  \A S \in SUBSET (i..Len(a)) : \A at \in [S -> j..Len(b)] :
    InCommon(at, S, a, b) => Cardinality(S) <= Lengths(a, b)[<<i, j>>]

\* What is in common without some words of it.
LEMMA LessInCommon ==
  ASSUME NEW W, NEW a \in Seq(W), NEW b \in Seq(W), NEW i \in Nat, NEW j \in Nat,
         NoLonger(a, b, i, j), NEW S, NEW at, InCommon(at, S, a, b),
         NEW R \in SUBSET S, R \subseteq i..Len(a), \A s \in R : at[s] \in j..Len(b)
  PROVE  Cardinality(R) <= Lengths(a, b)[<<i, j>>]
<1> DEFINE to == [s \in R |-> at[s]]
<1>1. to \in [R -> j..Len(b)]
  OBVIOUS
<1>2. InCommon(to, R, a, b)
  BY DEF InCommon
<1> HIDE DEF to
<1> QED BY <1>1, <1>2 DEF NoLonger

LEMMA NoneIsLonger ==
  ASSUME NEW W, NEW a \in Seq(W), NEW b \in Seq(W)
  PROVE  \A i \in 1..Len(a) + 1, j \in 1..Len(b) + 1 : NoLonger(a, b, i, j)
<1> DEFINE L == Lengths(a, b)
           T == {p \in Places(a, b) : NoLonger(a, b, p[1], p[2])}
<1>0. Len(a) \in Nat /\ Len(b) \in Nat
  OBVIOUS
<1>1. ASSUME NEW i \in 1..Len(a) + 1, NEW j \in 1..Len(b) + 1,
             \A k \in 1..Len(a) + 1, l \in 1..Len(b) + 1 : k + l > i + j => <<k, l>> \in T
      PROVE  <<i, j>> \in T
  <2>1. <<i, j>> \in Places(a, b)
    BY DEF Places
  <2>2. /\ i <= Len(a) => NoLonger(a, b, i + 1, j)
        /\ j <= Len(b) => NoLonger(a, b, i, j + 1)
        /\ i <= Len(a) /\ j <= Len(b) => NoLonger(a, b, i + 1, j + 1)
    <3>1. /\ i <= Len(a) => i + 1 \in 1..Len(a) + 1
          /\ j <= Len(b) => j + 1 \in 1..Len(b) + 1
      OBVIOUS
    <3>2. i + 1 + (j + 1) > i + j /\ i + 1 + j > i + j /\ i + (j + 1) > i + j
      OBVIOUS
    <3>3. \A k, l : <<k, l>> \in T => NoLonger(a, b, k, l)
      OBVIOUS
    <3> HIDE DEF T
    <3> QED BY <1>1, <3>1, <3>2, <3>3
  <2>3. ASSUME NEW k \in 1..Len(a) + 1, NEW l \in 1..Len(b) + 1
        PROVE  L[<<k, l>>] \in Nat
    <3> HIDE DEF T
    <3> QED BY LengthsAreNat
  <2>4. L[<<i, j>>] = IF i > Len(a) \/ j > Len(b) THEN 0
                      ELSE IF a[i] = b[j] THEN L[<<i + 1, j + 1>>] + 1
                      ELSE IF L[<<i + 1, j>>] < L[<<i, j + 1>>]
                           THEN L[<<i, j + 1>>] ELSE L[<<i + 1, j>>]
    <3> HIDE DEF T
    <3>1. L[<<i, j>>] = Cell("lengths", L, a, b, i, j)
      BY LengthsAt
    <3> HIDE DEF L
    <3> QED BY <3>1 DEF Cell
  <2> HIDE DEF T
  <2>5. SUFFICES ASSUME NEW S \in SUBSET (i..Len(a)), NEW at \in [S -> j..Len(b)],
                        InCommon(at, S, a, b)
                 PROVE  Cardinality(S) <= L[<<i, j>>]
    BY <2>1 DEF T, NoLonger
  <2>6. IsFiniteSet(S)
    <3>1. IsFiniteSet(i..Len(a))
      BY <1>0, FS_Interval
    <3> QED BY <3>1, FS_Subset
  <2> HIDE DEF L
  <2>7. CASE i > Len(a) \/ j > Len(b)
    <3>1. S = {}
      BY <1>0, <2>7
    <3>2. Cardinality(S) = 0
      BY <3>1, FS_EmptySet
    <3> QED BY <2>4, <2>7, <3>2
  <2>8. CASE i <= Len(a) /\ j <= Len(b)
    <3>1. /\ i \in Nat /\ j \in Nat /\ i + 1 \in Nat /\ j + 1 \in Nat
          /\ L[<<i + 1, j + 1>>] \in Nat /\ L[<<i + 1, j>>] \in Nat /\ L[<<i, j + 1>>] \in Nat
      <4>1. i + 1 \in 1..Len(a) + 1 /\ j + 1 \in 1..Len(b) + 1
        BY <1>0, <2>8
      <4> QED BY <1>0, <2>3, <4>1
    <3>2. \A s \in S : s \in Nat /\ s >= i /\ s <= Len(a) /\ at[s] \in Nat /\ at[s] >= j /\ at[s] <= Len(b)
      BY <1>0, <3>1
    <3>3. CASE a[i] = b[j]
      <4> DEFINE R == {s \in S : s # i /\ at[s] # j}
      <4>1. Cardinality(R) <= L[<<i + 1, j + 1>>]
        <5>0. ASSUME NEW s \in R PROVE s \in i + 1..Len(a) /\ at[s] \in j + 1..Len(b)
          <6>1. s \in S /\ s # i /\ at[s] # j
            OBVIOUS
          <6> HIDE DEF R
          <6>2. s \in Nat /\ s >= i /\ s <= Len(a) /\ at[s] \in Nat /\ at[s] >= j /\ at[s] <= Len(b)
            BY <3>2, <6>1
          <6> QED BY <1>0, <3>1, <6>1, <6>2
        <5>1. R \in SUBSET S /\ R \subseteq i + 1..Len(a) /\ \A s \in R : at[s] \in j + 1..Len(b)
          BY <5>0
        <5>2. NoLonger(a, b, i + 1, j + 1)
          BY <2>2, <2>8
        <5> HIDE DEF R
        <5> QED BY <2>5, <3>1, <5>1, <5>2, LessInCommon DEF L
      <4>2. ASSUME NEW s \in S \ R, NEW t \in S \ R PROVE ~(s < t)
        <5>1. SUFFICES ASSUME s < t PROVE FALSE
          OBVIOUS
        <5>2. at[s] < at[t]
          BY <2>5, <5>1 DEF InCommon
        <5>3. t # i
          BY <3>1, <3>2, <5>1
        <5>4. at[t] = j
          BY <5>3
        <5> QED BY <3>1, <3>2, <5>2, <5>4
      <4>3. R \in SUBSET S /\ IsFiniteSet(R) /\ Cardinality(R) \in Nat
        <5>1. R \in SUBSET S
          OBVIOUS
        <5> HIDE DEF R
        <5> QED BY <2>6, <5>1, FS_Subset, FS_CardinalityType
      <4> HIDE DEF R
      <4>4. Cardinality(S) <= Cardinality(R) + 1
        <5>1. CASE S = R
          BY <4>3, <5>1
        <5>2. CASE S # R
          <6>1. PICK s \in S \ R : TRUE
            BY <4>3, <5>2
          <6>2. S = R \cup {s}
            <7>1. \A t \in S \ R : t = s
              <8> TAKE t \in S \ R
              <8>1. ~(s < t) /\ ~(t < s)
                BY <4>2
              <8>2. s \in Nat /\ t \in Nat
                BY <3>2
              <8> QED BY <8>1, <8>2
            <7> QED BY <4>3, <7>1
          <6>3. Cardinality(R \cup {s}) = Cardinality(R) + 1
            BY <4>3, FS_AddElement
          <6> QED BY <4>3, <6>2, <6>3
        <5> QED BY <5>1, <5>2
      <4>5. L[<<i, j>>] = L[<<i + 1, j + 1>>] + 1
        BY <1>0, <2>4, <2>8, <3>1, <3>3
      <4>6. Cardinality(S) \in Nat
        BY <2>6, FS_CardinalityType
      <4>7. \A x, y, z \in Nat : x <= y + 1 /\ y <= z => x <= z + 1
        OBVIOUS
      <4>8. Cardinality(S) <= L[<<i + 1, j + 1>>] + 1
        BY <3>1, <4>1, <4>3, <4>4, <4>6, <4>7
      <4> QED BY <4>5, <4>8
    <3>4. CASE a[i] # b[j]
      <4>1. L[<<i, j>>] >= L[<<i + 1, j>>] /\ L[<<i, j>>] >= L[<<i, j + 1>>] /\ L[<<i, j>>] \in Nat
        <5>1. L[<<i, j>>] = IF L[<<i + 1, j>>] < L[<<i, j + 1>>] THEN L[<<i, j + 1>>] ELSE L[<<i + 1, j>>]
          BY <1>0, <2>4, <2>8, <3>1, <3>4
        <5> QED BY <3>1, <5>1
      <4>2. Cardinality(S) \in Nat
        BY <2>6, FS_CardinalityType
      <4>3. CASE i \notin S
        <5>0. ASSUME NEW s \in S PROVE s \in i + 1..Len(a) /\ at[s] \in j..Len(b)
          <6>1. s # i
            BY <4>3
          <6> QED BY <1>0, <3>1, <3>2, <6>1
        <5>1. S \subseteq i + 1..Len(a) /\ \A s \in S : at[s] \in j..Len(b)
          BY <5>0
        <5>2. NoLonger(a, b, i + 1, j)
          BY <2>2, <2>8
        <5>3. Cardinality(S) <= L[<<i + 1, j>>]
          BY <2>5, <3>1, <5>1, <5>2, LessInCommon DEF L
        <5> QED BY <3>1, <4>1, <4>2, <5>3
      <4>4. CASE i \in S
        <5>1. at[i] > j
          <6>1. a[i] = b[at[i]]
            BY <2>5, <4>4 DEF InCommon
          <6> QED BY <3>1, <3>2, <3>4, <4>4, <6>1
        <5>2. \A s \in S : at[s] \in j + 1..Len(b)
          <6> TAKE s \in S
          <6>1. s = i \/ i < s
            BY <3>1, <3>2
          <6>2. i < s => at[i] < at[s]
            BY <2>5, <4>4 DEF InCommon
          <6>3. at[s] \in Nat /\ at[i] \in Nat /\ at[s] <= Len(b)
            BY <3>2, <4>4
          <6>4. at[s] > j
            BY <3>1, <5>1, <6>1, <6>2, <6>3
          <6> QED BY <1>0, <3>1, <6>3, <6>4
        <5>3. NoLonger(a, b, i, j + 1)
          BY <2>2, <2>8
        <5>4. Cardinality(S) <= L[<<i, j + 1>>]
          BY <2>5, <3>1, <5>2, <5>3, LessInCommon DEF L
        <5> QED BY <3>1, <4>1, <4>2, <5>4
      <4> QED BY <4>3, <4>4
    <3> QED BY <3>3, <3>4
  <2>9. i \in Nat /\ j \in Nat
    BY <1>0
  <2> QED BY <1>0, <2>7, <2>8, <2>9
<1>2. T \in SUBSET Places(a, b)
  OBVIOUS
<1>3. \A k, l : <<k, l>> \in T => NoLonger(a, b, k, l)
  OBVIOUS
<1> HIDE DEF T
<1>4. \A i \in 1..Len(a) + 1, j \in 1..Len(b) + 1 : <<i, j>> \in T
  BY <1>1, <1>2, InductionOverPlaces
<1> QED BY <1>3, <1>4

-----------------------------------------------------------------------------
(* CommandPatch::between.                                                    *)

LEMMA WholeIs ==
  ASSUME NEW W, NEW a \in Seq(W), NEW kind \in {"removed", "added"}
  PROVE  /\ Whole(kind, a) \in Seq(Entries(W))
         /\ \A side \in Sides : Made(side, Whole(kind, a)) = IF kind \in KindsOf[side] THEN a ELSE <<>>
<1> DEFINE Is(u) == /\ Whole(kind, u) \in Seq(Entries(W))
                    /\ \A side \in Sides :
                         Made(side, Whole(kind, u)) = IF kind \in KindsOf[side] THEN u ELSE <<>>
           T == {n \in Nat : \A u \in Seq(W) : Len(u) = n => Is(u)}
<1>1. 0 \in T
  <2>1. \A u \in Seq(W) : Len(u) = 0 => u = <<>>
    OBVIOUS
  <2>2. Whole(kind, <<>>) = <<>>
    BY DEF Whole
  <2>3. Is(<<>>)
    BY <2>2, MadeOfNone, EmptySeq
  <2> HIDE DEF Is
  <2> QED BY <2>1, <2>3
<1>2. ASSUME NEW n \in T PROVE n + 1 \in T
  <2>0. n \in Nat
    BY <1>2
  <2>1. SUFFICES ASSUME NEW u \in Seq(W), Len(u) = n + 1 PROVE Is(u)
    <3> HIDE DEF Is
    <3> QED BY <2>0
  <2>2. PICK before \in Seq(W), x \in W : u = Append(before, x) /\ Len(before) = n
    BY <2>0, <2>1, LastOne
  <2>3. Is(before)
    <3> HIDE DEF Is
    <3> QED BY <1>2, <2>2
  <2>4. Whole(kind, u) = Append(Whole(kind, before), <<kind, x>>)
    BY <2>2 DEF Whole
  <2> DEFINE w == Whole(kind, before)
             e == <<kind, x>>
  <2>5. w \in Seq(Entries(W)) /\ e \in Entries(W) /\ e[1] = kind /\ e[2] = x /\ Whole(kind, u) = Append(w, e)
    BY <2>3, <2>4 DEF Entries
  <2>6. ASSUME NEW side \in Sides
        PROVE  Made(side, w) = IF kind \in KindsOf[side] THEN before ELSE <<>>
    BY <2>3
  <2> HIDE DEF w, e
  <2>7. Append(w, e) \in Seq(Entries(W))
    BY <2>5
  <2>8. ASSUME NEW side \in Sides
        PROVE  Made(side, Append(w, e)) = IF kind \in KindsOf[side] THEN u ELSE <<>>
    <3>1. Made(side, Append(w, e)) =
            IF e[1] \in KindsOf[side] THEN Append(Made(side, w), e[2]) ELSE Made(side, w)
      BY <2>5, SideOfMore
    <3> QED BY <2>2, <2>5, <2>6, <3>1
  <2> QED BY <2>5, <2>7, <2>8
<1> HIDE DEF T
<1>3. T \in SUBSET Nat
  BY DEF T
<1>4. T = Nat
  BY <1>1, <1>2, <1>3, InductionOverNat
<1> QED BY <1>4 DEF T

LEMMA SidesAre ==
  ASSUME NEW patch
  PROVE  /\ WordsOf(patch, {"kept", "removed"}) = Made("before", patch)
         /\ WordsOf(patch, {"kept", "added"}) = Made("after", patch)
         /\ WordsOf(patch, {"kept"}) = Made("both", patch)
<1>1. /\ KindsOf["before"] = {"kept", "removed"} /\ KindsOf["after"] = {"kept", "added"}
      /\ KindsOf["both"] = {"kept"}
  BY DEF KindsOf
<1>2. "before" \in Sides /\ "after" \in Sides /\ "both" \in Sides
  BY DEF Sides
<1>3. \A side \in Sides : WordsOf(patch, KindsOf[side]) = Made(side, patch)
  BY WordsOfAreMade
<1> QED BY <1>1, <1>2, <1>3

LEMMA EditsAreTheChange ==
  ASSUME NEW W, NEW a \in Seq(W), NEW b \in Seq(W), a # b
  PROVE  IsTheChange(Edits(a, b), a, b)
<1> DEFINE p == Edits(a, b)
<1>1. 1 \in 1..Len(a) + 1 /\ 1 \in 1..Len(b) + 1
  OBVIOUS
<1>2. Leads(a, b, 1, 1) /\ NoLonger(a, b, 1, 1)
  BY <1>1, EditsLead, NoneIsLonger
<1>3. SubSeq(a, 1, Len(a)) = a /\ SubSeq(b, 1, Len(b)) = b
  OBVIOUS
<1>4. p = Table("edits", a, b)[<<1, 1>>]
  BY EditsAreOfATable
<1> HIDE DEF p
<1>5. /\ Made("before", p) = a /\ Made("after", p) = b
      /\ Len(Made("both", p)) = Lengths(a, b)[<<1, 1>>]
  BY <1>2, <1>3, <1>4 DEF Leads
<1>6. p # <<>>
  BY <1>5, MadeOfNone
<1>7. ASSUME NEW S \in SUBSET DOMAIN a, NEW at \in [S -> DOMAIN b], InCommon(at, S, a, b)
      PROVE  Cardinality(S) <= Len(Made("both", p))
  <2>1. S \in SUBSET (1..Len(a)) /\ at \in [S -> 1..Len(b)]
    OBVIOUS
  <2> QED BY <1>2, <1>5, <1>7, <2>1 DEF NoLonger
<1> QED BY <1>5, <1>6, <1>7, SidesAre DEF IsTheChange, p

LEMMA PatchIsTrue ==
  ASSUME NEW before \in Seq(Chars), NEW after \in Seq(Chars)
  PROVE  IsTheChange(Patch(before, after), Words(before), Words(after))
<1> DEFINE a == Words(before)
           b == Words(after)
           W == Seq(Chars)
<1>1. a \in Seq(W) /\ b \in Seq(W)
  <2>1. Blank \in Chars
    BY DEF Chars
  <2> QED BY <2>1, InlineIsWritten DEF Written
<1>2. Patch(before, after) = IF a = b THEN <<>>
                             ELSE IF Len(a) > MaxTokens \/ Len(b) > MaxTokens
                                  THEN Whole("removed", a) \o Whole("added", b)
                             ELSE Edits(a, b)
  BY DEF Patch
<1> HIDE DEF a, b, W
<1>3. CASE a = b
  BY <1>2, <1>3 DEF IsTheChange, a, b
<1>4. CASE a # b /\ ~(Len(a) > MaxTokens \/ Len(b) > MaxTokens)
  BY <1>1, <1>2, <1>4, EditsAreTheChange DEF a, b
<1>5. CASE a # b /\ (Len(a) > MaxTokens \/ Len(b) > MaxTokens)
  <2> DEFINE r == Whole("removed", a)
             s == Whole("added", b)
             p == r \o s
  <2>1. /\ r \in Seq(Entries(W))
        /\ \A side \in Sides : Made(side, r) = IF "removed" \in KindsOf[side] THEN a ELSE <<>>
    BY <1>1, WholeIs
  <2>2. /\ s \in Seq(Entries(W))
        /\ \A side \in Sides : Made(side, s) = IF "added" \in KindsOf[side] THEN b ELSE <<>>
    BY <1>1, WholeIs
  <2>3. Patch(before, after) = p
    BY <1>2, <1>5
  <2> HIDE DEF r, s
  <2>4. ASSUME NEW side \in Sides PROVE Made(side, p) = Made(side, r) \o Made(side, s)
    BY <2>1, <2>2, SideOfBoth
  <2> HIDE DEF p
  <2>5. /\ KindsOf["before"] = {"kept", "removed"} /\ KindsOf["after"] = {"kept", "added"}
        /\ "before" \in Sides /\ "after" \in Sides
    BY DEF KindsOf, Sides
  <2>6. /\ Made("before", r) = a /\ Made("before", s) = <<>>
        /\ Made("after", r) = <<>> /\ Made("after", s) = b
    BY <2>1, <2>2, <2>5
  <2>7. a \o <<>> = a /\ <<>> \o b = b
    BY <1>1, ConcatEmptySeq
  <2>8. Made("before", p) = a /\ Made("after", p) = b
    BY <2>4, <2>5, <2>6, <2>7
  <2>9. p # <<>>
    BY <1>5, <2>8, MadeOfNone
  <2>10. ~(Len(a) <= MaxTokens /\ Len(b) <= MaxTokens)
    <3>1. Len(a) \in Nat /\ Len(b) \in Nat /\ MaxTokens \in Nat
      BY <1>1, ProposalsAssumption
    <3> QED BY <1>5, <3>1
  <2>11. IsTheChange(p, a, b)
    BY <2>8, <2>9, <2>10, SidesAre DEF IsTheChange
  <2> QED BY <2>3, <2>11 DEF a, b
<1> QED BY <1>3, <1>4, <1>5

\* The patch of a completion on its way is that of the line it was asked for, which stays
\* as long as the completion is awaited, and of the line assessed.
PatchIsOfTheLines ==
  frame \in {NoFrame, Failure} \/ (/\ frame.assessed \in Seq(Chars)
                                   /\ frame.patch = Patch(asked.text, frame.assessed))

LEMMA ReviewedPatch ==
  ASSUME IsALine(asked), NEW op \in {"replace", "insert", "suggest", "none"},
         NEW command \in Commands, NEW cursor \in {0, 1},
         frame' = Reviewed(op, command, cursor, asked), asked' = asked
  PROVE  PatchIsOfTheLines'
<1> DEFINE candidate == Candidate(op, command, asked)
           sent == [op |-> IF op = "none" THEN "suggest" ELSE op,
                    command |-> Inline(OrLine(command, asked)), cursor |-> cursor,
                    exact |-> command # <<>>, assessed |-> candidate,
                    patch |-> Patch(asked.text, candidate)]
<1>1. command \in Seq(Chars) /\ asked.text \in Seq(Chars)
  BY ProposalsAssumption DEF Given, IsALine
<1>2. candidate \in Seq(Chars)
  <2>1. op = "insert" => candidate = Around(asked, command)
    BY DEF Candidate, Around
  <2>2. op # "insert" => candidate \in {command, asked.text}
    BY DEF Candidate
  <2> QED BY <1>1, <2>1, <2>2, AroundIsText
<1>3. frame' = IF Assess(candidate) THEN [sent EXCEPT !.op = "suggest", !.command = Inline(candidate)]
               ELSE sent
  BY DEF Reviewed
<1> HIDE DEF candidate
<1>4. frame'.assessed = candidate /\ frame'.patch = Patch(asked.text, candidate)
  BY <1>3
<1> QED BY <1>2, <1>4 DEF PatchIsOfTheLines

LEMMA PatchesStay ==
  ProposalsInv /\ PatchIsOfTheLines /\ [ProposalsNext]_proposalVars => PatchIsOfTheLines'
<1> SUFFICES ASSUME ProposalsInv, PatchIsOfTheLines, [ProposalsNext]_proposalVars
             PROVE  PatchIsOfTheLines'
  OBVIOUS
<1>0. IsALine(asked)
  BY DEF ProposalsInv
<1>1. CASE UNCHANGED <<asked, frame>>
  BY <1>1 DEF PatchIsOfTheLines
<1>2. CASE frame' = NoFrame
  BY <1>2 DEF PatchIsOfTheLines
<1>3. CASE Completion
  <2>1. asked' = asked
    BY <1>3 DEF Completion, Answered
  <2>2. PICK op \in {"replace", "insert", "suggest", "none"}, command \in Commands, cursor \in {0, 1} :
          frame' = IF Control \in ToSet(command) THEN Failure ELSE Reviewed(op, command, cursor, asked)
    BY <1>3 DEF Completion, Answered
  <2>3. CASE frame' = Failure
    BY <2>3 DEF PatchIsOfTheLines
  <2>4. CASE frame' = Reviewed(op, command, cursor, asked)
    BY <1>0, <2>1, <2>4, ReviewedPatch
  <2> QED BY <2>2, <2>3, <2>4
<1>4. CASE LocalCompletion
  <2>1. asked' = asked
    BY <1>4 DEF LocalCompletion, Answered
  <2>2. PICK command \in Commands :
          LET sent == Inline(OrLine(command, asked))
          IN  frame' = [op |-> IF command = <<>> THEN "suggest" ELSE "replace",
                        command |-> sent, cursor |-> Len(sent), exact |-> TRUE, assessed |-> sent,
                        patch |-> Patch(asked.text, sent)]
    BY <1>4 DEF LocalCompletion, Answered
  <2> DEFINE sent == Inline(OrLine(command, asked))
  <2>3. sent \in Seq(Chars)
    <3>1. OrLine(command, asked) \in Seq(Chars)
      BY <1>0, ProposalsAssumption DEF Given, OrLine, IsALine
    <3> QED BY <3>1, InlineIsText
  <2>4. frame'.assessed = sent /\ frame'.patch = Patch(asked.text, sent)
    BY <2>2
  <2> HIDE DEF sent
  <2> QED BY <2>1, <2>3, <2>4 DEF PatchIsOfTheLines
<1>5. CASE Type \/ CompleteWidget \/ ReceiveCompletion \/ ApplyInserts
  BY <1>2, <1>5 DEF Type, CompleteWidget, ReceiveCompletion, ApplyInserts
<1>6. CASE InsertBuffer \/ SendInsert \/ ReceiveInsert \/ UNCHANGED proposalVars
  BY <1>1, <1>6 DEF InsertBuffer, SendInsert, ReceiveInsert, proposalVars
<1> QED BY <1>3, <1>4, <1>5, <1>6 DEF ProposalsNext

\* For any texts, rules and limit of words: the patch shown with a completion leads from
\* the words of the line to those of the line assessed, and keeps as many as any could.
THEOREM PatchesAreTheChange == ProposalsSpec => []PatchIsTheChange
<1>1. ProposalsInit => PatchIsOfTheLines
  BY DEF ProposalsInit, PatchIsOfTheLines
<1>2. ProposalsInv /\ PatchIsOfTheLines => PatchIsTheChange
  <2> SUFFICES ASSUME ProposalsInv, PatchIsOfTheLines,
                      frame.op \in {"replace", "insert", "suggest"}
               PROVE  IsTheChange(frame.patch, Words(asked.text), Words(frame.assessed))
    BY DEF PatchIsTheChange
  <2>1. frame # NoFrame /\ frame # Failure
    BY DEF NoFrame, Failure
  <2>2. /\ frame.assessed \in Seq(Chars) /\ frame.patch = Patch(asked.text, frame.assessed)
        /\ asked.text \in Seq(Chars)
    BY <2>1 DEF PatchIsOfTheLines, ProposalsInv, IsALine
  <2> QED BY <2>2, PatchIsTrue
<1> QED BY <1>1, <1>2, PatchesStay, ProposalsAreKept, PTL DEF ProposalsSpec
=============================================================================

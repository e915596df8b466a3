------------------------- MODULE CoachWindowProofs -------------------------
(***************************************************************************)
(* CoachWindow for any number of questions, any bound of the list and any   *)
(* length of the event queue: the selection stays in the list, no message   *)
(* of the coach mixes two answers while nothing was late or cut, and a      *)
(* question leaves the line only when the daemon took it.                   *)
(*                                                                         *)
(* A question is safe because a handler waits for the last request only,    *)
(* which names the question that is still on the line.  Answers stay apart  *)
(* because a stream is accepted before another question may be asked, all   *)
(* that is told of it comes before its last word, and the window leaves     *)
(* the streaming state no earlier than that word.                           *)
(***************************************************************************)
EXTENDS CoachWindow, TLAPS, FiniteSetTheorems

Kinds == {"delta", "done", "failed", "cancelled", "hint", "cleared", "airlock"}
Waits == {"chat", "airlock", "context", "insert"}

Messages == [who : {"user", "coach", "system"}, of : SUBSET Nat]
Window ==
  [messages : Seq(Messages), input : Nat, streaming : BOOLEAN, open : BOOLEAN,
   recs : Seq(Commands), selected : Nat, waiting : Waits \cup {"none"}, quit : BOOLEAN]
EventType == [kind : Kinds, of : Nat, open : BOOLEAN, everything : BOOLEAN]
RequestType ==
  [kind : Waits, of : Nat, question : Nat, open : BOOLEAN, awaited : BOOLEAN]
AnswerType ==
  [kind : {"none", "closed", "error", "inserted"}] \cup [kind : {"context", "status"}, open : BOOLEAN]
    \cup [kind : {"accepted", "chat"}, of : Nat]
DaemonType ==
  [open : BOOLEAN, up : BOOLEAN, chat : [Chats -> {"none", "running", "cancelled", "over"}],
   took : SUBSET Nat, news : SUBSET [n : Nat, open : BOOLEAN]]
SpentType == [questions : Nat, chats : Nat, other : Nat, calm : BOOLEAN]

\* The list is bounded, and the selection is in it.
Listed(w) ==
  /\ Len(w.recs) <= MaxRecs
  /\ IF w.recs = <<>> THEN w.selected = 0 ELSE w.selected \in DOMAIN w.recs

Shapes ==
  /\ win \in Window /\ Listed(win)
  /\ queue \in Seq(EventType) /\ Len(queue) <= QueueLength
  /\ asked \in Seq(RequestType) /\ answer \in AnswerType /\ daemon \in DaemonType
  /\ IsFiniteSet(daemon.news) /\ spent \in SpentType

\* A handler waits for the last request, and for the question that is still on the line.
WaitInv ==
  /\ \A i \in DOMAIN asked : asked[i].awaited =>
       /\ i = Len(asked) /\ win.waiting = asked[i].kind /\ answer.kind = "none"
       /\ asked[i].kind = "chat" => asked[i].question = win.input
  /\ win.waiting = "none" => answer.kind = "none"
  /\ win.waiting = "chat" => ~win.streaming
  /\ answer.kind \in {"accepted", "chat"} => win.waiting = "chat" /\ win.input \in daemon.took

\* The answer that streams, or has been accepted, and what is told of it.
Underway == win.streaming \/ answer.kind = "accepted"
ChatEvents == {"delta", "done", "failed"}
LastWords == {"done", "failed"}

OneRuns ==
  \A c \in Chats : /\ daemon.chat[c] # "cancelled"
                   /\ daemon.chat[c] = "running" => c = spent.chats /\ Underway

ToldInOrder ==
  /\ \A i \in DOMAIN queue : /\ queue[i].kind \notin {"cancelled", "cleared"}
                             /\ queue[i].kind \in ChatEvents => queue[i].of = spent.chats /\ Underway
  /\ \A i, j \in DOMAIN queue :
       queue[i].kind \in LastWords /\ queue[j].kind \in ChatEvents => j <= i
  /\ \A i \in DOMAIN queue : queue[i].kind \in LastWords =>
       \A c \in Chats : daemon.chat[c] # "running"

Addressed ==
  /\ \A i \in DOMAIN asked : asked[i].awaited /\ (asked[i].kind = "chat" => asked[i].of = spent.chats)
  /\ answer.kind \in {"accepted", "chat"} => answer.of = spent.chats

Apart(w, k) ==
  /\ w.streaming /\ w.messages # <<>> /\ Last(w.messages).who = "coach" =>
       Last(w.messages).of \subseteq {k}
  /\ \A i \in DOMAIN w.messages :
       w.messages[i].who = "coach" => \A a, b \in w.messages[i].of : a = b

QuietInv == spent.calm => OneRuns /\ ToldInOrder /\ Addressed /\ Apart(win, spent.chats)

IInv == Shapes /\ WaitInv /\ QuietInv

-----------------------------------------------------------------------------
(* What the handlers do to the window                                      *)

LEMMA AppendedElements ==
  ASSUME NEW S, NEW seq \in Seq(S), NEW e \in S
  PROVE  /\ Append(seq, e) \in Seq(S) /\ Len(Append(seq, e)) = Len(seq) + 1
         /\ Append(seq, e) # <<>> /\ Last(Append(seq, e)) = e
         /\ \A i \in DOMAIN Append(seq, e) :
              \/ i \in DOMAIN seq /\ Append(seq, e)[i] = seq[i]
              \/ i = Len(seq) + 1 /\ Append(seq, e)[i] = e
<1>1. /\ Append(seq, e) \in Seq(S) /\ Len(Append(seq, e)) = Len(seq) + 1
      /\ Append(seq, e)[Len(seq) + 1] = e /\ Append(seq, e) # <<>>
      /\ \A i \in DOMAIN seq : Append(seq, e)[i] = seq[i]
  OBVIOUS
<1>2. ASSUME NEW i \in DOMAIN Append(seq, e)
      PROVE  i \in DOMAIN seq \/ i = Len(seq) + 1
  BY <1>1
<1>3. QED BY <1>1, <1>2 DEF Last

\* A window that differs from another in its list and its selection only.
SameTalk(v, w) ==
  /\ v.messages = w.messages /\ v.input = w.input /\ v.streaming = w.streaming
  /\ v.waiting = w.waiting

LEMMA Recommended ==
  ASSUME NEW w \in Window, Listed(w), NEW command \in Commands
  PROVE  /\ Recommend(w, command) \in Window /\ Listed(Recommend(w, command))
         /\ SameTalk(Recommend(w, command), w)
<1>1. CASE command \in Range(w.recs)
  BY <1>1 DEF Recommend, SameTalk
<1>2. CASE command \notin Range(w.recs)
  <2> DEFINE more == Append(w.recs, command)
             kept == IF Len(more) > MaxRecs THEN Tail(more) ELSE more
  <2>1. w.recs \in Seq(Commands) /\ Len(w.recs) <= MaxRecs /\ MaxRecs \in Nat \ {0}
    BY CoachWindowAssumption DEF Window, Listed
  <2>2. more \in Seq(Commands) /\ Len(more) = Len(w.recs) + 1 /\ more # <<>>
    BY <2>1, AppendedElements
  <2> HIDE DEF more
  <2>3. kept \in Seq(Commands) /\ Len(kept) <= MaxRecs /\ Len(kept) # 0
    BY <2>1, <2>2
  <2> HIDE DEF kept
  <2>4. Recommend(w, command) = [w EXCEPT !.recs = kept, !.selected = Len(kept)]
    BY <1>2 DEF Recommend, kept, more
  <2>5. Len(kept) \in DOMAIN kept /\ kept # <<>> /\ Len(kept) \in Nat
    BY <2>3
  <2>6. QED BY <2>3, <2>4, <2>5 DEF Window, Listed, SameTalk
<1>3. QED BY <1>1, <1>2

\* A piece of an answer goes to the last message, or begins one.
LEMMA Pushed ==
  ASSUME NEW w \in Window, NEW c \in Nat
  PROVE  /\ PushDelta(w, c) = [w EXCEPT !.messages = PushDelta(w, c).messages]
         /\ PushDelta(w, c).messages \in Seq(Messages)
         /\ w.streaming /\ Apart(w, c) => Apart(PushDelta(w, c), c)
<1> DEFINE ms == w.messages
           n == Len(ms)
<1>1. ms \in Seq(Messages) /\ w = [w EXCEPT !.messages = ms]
  BY DEF Window
<1>2. CASE ms # <<>> /\ Last(ms).who = "coach"
  <2> DEFINE last == [ms[n] EXCEPT !.of = @ \cup {c}]
             more == [ms EXCEPT ![n] = last]
  <2>1. n \in DOMAIN ms /\ ms[n] \in Messages /\ Last(ms) = ms[n]
    BY <1>1, <1>2 DEF Last
  <2>2. last \in Messages /\ last.who = ms[n].who /\ last.of = ms[n].of \cup {c}
    BY <2>1 DEF Messages
  <2>3. PushDelta(w, c) = [w EXCEPT !.messages = more]
    BY <1>1, <1>2 DEF PushDelta, Window
  <2> HIDE DEF last
  <2>4. /\ more \in Seq(Messages) /\ more # <<>> /\ Len(more) = n /\ Last(more) = last
        /\ \A i \in DOMAIN more : i \in DOMAIN ms /\ more[i] = IF i = n THEN last ELSE ms[i]
    BY <1>1, <2>1, <2>2 DEF Last
  <2> HIDE DEF more
  <2>5. PushDelta(w, c).messages = more /\ PushDelta(w, c).streaming = w.streaming
    BY <2>3 DEF Window
  <2>6. ASSUME w.streaming, Apart(w, c)
        PROVE  Apart(PushDelta(w, c), c)
    <3>1. ms[n].of \subseteq {c}
      BY <1>2, <2>1, <2>6 DEF Apart
    <3>2. last.of \subseteq {c}
      BY <2>2, <3>1
    <3>3. ASSUME NEW i \in DOMAIN more, more[i].who = "coach"
          PROVE  \A a, b \in more[i].of : a = b
      BY <2>4, <2>6, <3>2, <3>3 DEF Apart
    <3>4. QED BY <2>4, <2>5, <3>2, <3>3 DEF Apart
  <2>7. QED BY <2>3, <2>4, <2>5, <2>6
<1>3. CASE ~ (ms # <<>> /\ Last(ms).who = "coach")
  <2> DEFINE new == Message("coach", {c})
             more == Append(ms, new)
  <2>1. PushDelta(w, c) = [w EXCEPT !.messages = more]
    BY <1>3 DEF PushDelta
  <2>2. new \in Messages /\ new.of = {c}
    BY DEF Message, Messages
  <2> HIDE DEF new
  <2>3. /\ more \in Seq(Messages) /\ Last(more) = new
        /\ \A i \in DOMAIN more : more[i] = new \/ (i \in DOMAIN ms /\ more[i] = ms[i])
    BY <1>1, <2>2, AppendedElements
  <2> HIDE DEF more
  <2>4. PushDelta(w, c).messages = more /\ PushDelta(w, c).streaming = w.streaming
    BY <2>1 DEF Window
  <2>5. ASSUME w.streaming, Apart(w, c)
        PROVE  Apart(PushDelta(w, c), c)
    BY <2>2, <2>3, <2>4, <2>5 DEF Apart
  <2>6. QED BY <2>1, <2>3, <2>4, <2>5
<1>4. QED BY <1>2, <1>3

LEMMA Finished ==
  ASSUME NEW w \in Window, Listed(w), NEW v \in FinishStream(w)
  PROVE  /\ v \in Window /\ Listed(v) /\ v.streaming = FALSE
         /\ v.messages = w.messages /\ v.input = w.input /\ v.waiting = w.waiting
<1> DEFINE over == [w EXCEPT !.streaming = FALSE]
<1>1. /\ over \in Window /\ Listed(over) /\ over.streaming = FALSE
      /\ over.messages = w.messages /\ over.input = w.input /\ over.waiting = w.waiting
  BY DEF Window, Listed
<1>2. v = over \/ \E c \in Commands : v = Recommend(over, c)
  BY DEF FinishStream
<1> HIDE DEF over
<1>3. QED BY <1>1, <1>2, Recommended DEF SameTalk

LEMMA ApartWhenSilent ==
  ASSUME NEW w, NEW v, NEW k, Apart(w, k), v.messages = w.messages,
         v.streaming => w.streaming
  PROVE  Apart(v, k)
BY DEF Apart

LEMMA SystemMessage ==
  ASSUME NEW w \in Window, Listed(w)
  PROVE  LET v == [w EXCEPT !.messages = Append(@, Message("system", {}))]
         IN  /\ v \in Window /\ Listed(v) /\ v.input = w.input /\ v.waiting = w.waiting
             /\ v.streaming = w.streaming /\ \A k : Apart(w, k) => Apart(v, k)
<1> DEFINE new == Message("system", {})
           more == Append(w.messages, new)
           v == [w EXCEPT !.messages = more]
<1>1. w.messages \in Seq(Messages) /\ new \in Messages /\ new.who = "system"
  BY DEF Window, Message, Messages
<1> HIDE DEF new
<1>2. /\ more \in Seq(Messages) /\ Last(more) = new
      /\ \A i \in DOMAIN more :
           \/ i \in DOMAIN w.messages /\ more[i] = w.messages[i]
           \/ more[i] = new
  BY <1>1, AppendedElements
<1> HIDE DEF more
<1>3. /\ v \in Window /\ Listed(v) /\ v.input = w.input /\ v.waiting = w.waiting
      /\ v.streaming = w.streaming /\ v.messages = more
  BY <1>2 DEF Window, Listed
<1> HIDE DEF v
<1>4. ASSUME NEW k, Apart(w, k)
      PROVE  Apart(v, k)
  BY <1>1, <1>2, <1>3, <1>4 DEF Apart
<1>5. QED BY <1>3, <1>4 DEF v, more, new

\* An event keeps the shape of the window and what its handler waits for; the line is
\* emptied only with the messages.
LEMMA EventHandled ==
  ASSUME NEW w \in Window, Listed(w), NEW e \in EventType, NEW v \in Handled(w, e)
  PROVE  /\ v \in Window /\ Listed(v) /\ v.waiting = w.waiting
         /\ v.input = w.input \/ v.messages = <<>>
         /\ e.kind \notin LastWords \cup {"cancelled", "cleared"} => v.streaming = w.streaming
         /\ v.streaming => w.streaming
         /\ \A k : Apart(w, k) /\ (e.kind \in ChatEvents => e.of = k /\ w.streaming)
                     => Apart(v, k)
<1> DEFINE Keeps ==
      /\ v \in Window /\ Listed(v) /\ v.waiting = w.waiting
      /\ v.input = w.input \/ v.messages = <<>>
      /\ e.kind \notin LastWords \cup {"cancelled", "cleared"} => v.streaming = w.streaming
      /\ v.streaming => w.streaming
      /\ \A k : Apart(w, k) /\ (e.kind \in ChatEvents => e.of = k /\ w.streaming) => Apart(v, k)
<1>1. e.kind \in Kinds /\ e.of \in Nat /\ e.open \in BOOLEAN
  BY DEF EventType
<1>2. CASE e.kind = "delta"
  <2>1. v = PushDelta(w, e.of)
    BY <1>2 DEF Handled
  <2>2. /\ v = [w EXCEPT !.messages = v.messages] /\ v.messages \in Seq(Messages)
        /\ w.streaming /\ Apart(w, e.of) => Apart(v, e.of)
    BY <1>1, <2>1, Pushed
  <2>3. /\ v \in Window /\ Listed(v) /\ v.waiting = w.waiting
        /\ v.input = w.input /\ v.streaming = w.streaming
    BY <2>2 DEF Window, Listed
  <2>4. QED BY <1>2, <2>2, <2>3 DEF ChatEvents
<1>3. CASE e.kind = "done"
  <2>1. v \in FinishStream(w)
    BY <1>3 DEF Handled
  <2>2. /\ v \in Window /\ Listed(v) /\ v.streaming = FALSE
        /\ v.messages = w.messages /\ v.input = w.input /\ v.waiting = w.waiting
    BY <2>1, Finished
  <2>3. QED BY <1>3, <2>2, ApartWhenSilent DEF LastWords
<1>4. CASE e.kind = "failed"
  <2> DEFINE u == PushDelta(w, e.of)
  <2>1. v \in FinishStream(u)
    BY <1>4 DEF Handled
  <2>2. /\ u = [w EXCEPT !.messages = u.messages] /\ u.messages \in Seq(Messages)
        /\ w.streaming /\ Apart(w, e.of) => Apart(u, e.of)
    BY <1>1, Pushed
  <2> HIDE DEF u
  <2>3. /\ u \in Window /\ Listed(u) /\ u.waiting = w.waiting /\ u.input = w.input
    BY <2>2 DEF Window, Listed
  <2>4. /\ v \in Window /\ Listed(v) /\ v.streaming = FALSE
        /\ v.messages = u.messages /\ v.input = u.input /\ v.waiting = u.waiting
    BY <2>1, <2>3, Finished
  <2>5. QED BY <1>4, <2>2, <2>3, <2>4, ApartWhenSilent DEF LastWords, ChatEvents
<1>5. CASE e.kind = "cancelled"
  <2>1. v = [w EXCEPT !.streaming = FALSE]
    BY <1>5 DEF Handled, RequestCancelled
  <2>2. /\ v \in Window /\ Listed(v) /\ v.streaming = FALSE
        /\ v.messages = w.messages /\ v.input = w.input /\ v.waiting = w.waiting
    BY <2>1 DEF Window, Listed
  <2>3. QED BY <1>5, <2>2, ApartWhenSilent
<1>6. CASE e.kind = "hint"
  <2>1. \E h \in {w} \cup {Recommend(w, c) : c \in Commands} :
          v = [h EXCEPT !.messages = Append(@, Message("system", {}))]
    BY <1>6 DEF Handled
  <2>2. PICK h : /\ h = w \/ \E c \in Commands : h = Recommend(w, c)
                 /\ v = [h EXCEPT !.messages = Append(@, Message("system", {}))]
    BY <2>1
  <2>3. h \in Window /\ Listed(h) /\ SameTalk(h, w)
    BY <2>2, Recommended DEF SameTalk
  <2>4. /\ v \in Window /\ Listed(v) /\ v.input = h.input /\ v.waiting = h.waiting
        /\ v.streaming = h.streaming /\ \A k : Apart(h, k) => Apart(v, k)
    BY <2>2, <2>3, SystemMessage
  <2>5. \A k : Apart(w, k) => Apart(h, k)
    BY <2>3, ApartWhenSilent DEF SameTalk
  <2>6. QED BY <1>6, <2>3, <2>4, <2>5 DEF SameTalk
<1>7. CASE e.kind = "cleared"
  <2>1. v = DataCleared(w, e.everything)
    BY <1>7 DEF Handled
  <2>2. /\ v \in Window /\ Listed(v) /\ v.streaming = FALSE
        /\ v.messages = <<>> /\ v.waiting = w.waiting
    <3>1. PICK q \in Nat : v = [w EXCEPT !.messages = <<>>, !.streaming = FALSE, !.recs = <<>>,
                                          !.selected = 0, !.input = q]
      <4>1. w.input \in Nat /\ NoQuestion \in Nat
        BY DEF Window, NoQuestion
      <4>2. (IF e.everything THEN NoQuestion ELSE w.input) \in Nat
        BY <4>1
      <4>3. QED BY <2>1, <4>2 DEF DataCleared
    <3>2. <<>> \in Seq(Messages) /\ <<>> \in Seq(Commands) /\ Len(<<>>) <= MaxRecs
      BY CoachWindowAssumption
    <3>3. QED BY <3>1, <3>2 DEF Window, Listed
  <2>3. \A k : Apart(v, k)
    BY <2>2 DEF Apart
  <2>4. QED BY <1>7, <2>2, <2>3
<1>8. CASE e.kind = "airlock"
  <2>1. v = [w EXCEPT !.open = e.open]
    BY <1>8 DEF Handled
  <2>2. /\ v \in Window /\ Listed(v) /\ v.streaming = w.streaming
        /\ v.messages = w.messages /\ v.input = w.input /\ v.waiting = w.waiting
    BY <1>1, <2>1 DEF Window, Listed
  <2>3. QED BY <2>2, ApartWhenSilent
<1>9. Keeps
  BY <1>1, <1>2, <1>3, <1>4, <1>5, <1>6, <1>7, <1>8 DEF Kinds
<1>10. QED BY <1>9

\* A question the daemon took is shown, with an empty message for its answer.
LEMMA QuestionTaken ==
  ASSUME NEW w \in Window, Listed(w)
  PROVE  LET n == Len(w.messages)
         IN  /\ Taken(w) \in Window /\ Listed(Taken(w)) /\ Taken(w).waiting = w.waiting
             /\ Taken(w).streaming = w.streaming
             /\ n + 2 \in DOMAIN Taken(w).messages /\ Len(Taken(w).messages) = n + 2
             /\ Taken(w).messages[n + 2] = Message("coach", {})
             /\ \A i \in DOMAIN Taken(w).messages :
                  \/ i \in DOMAIN w.messages /\ Taken(w).messages[i] = w.messages[i]
                  \/ i = n + 1 /\ Taken(w).messages[i].who = "user"
                  \/ i = n + 2
<1> DEFINE n == Len(w.messages)
           user == Message("user", {w.input})
           coach == Message("coach", {})
           more == w.messages \o <<user, coach>>
<1>1. w.messages \in Seq(Messages) /\ user \in Messages /\ coach \in Messages /\ user.who = "user"
  BY DEF Window, Message, Messages
<1>2. <<user, coach>> \in Seq(Messages) /\ Len(<<user, coach>>) = 2
      /\ <<user, coach>>[1] = user /\ <<user, coach>>[2] = coach
  BY <1>1
<1>3. Taken(w) = [w EXCEPT !.input = NoQuestion, !.messages = more]
  BY DEF Taken
<1> HIDE DEF user, coach
<1>4. /\ n \in Nat /\ more \in Seq(Messages) /\ Len(more) = n + 2
      /\ \A i \in 1..n + 2 : more[i] = IF i <= n THEN w.messages[i] ELSE <<user, coach>>[i - n]
  BY <1>1, <1>2
<1>5. more[n + 1] = user /\ more[n + 2] = coach
  BY <1>2, <1>4
<1>6. \A i \in DOMAIN more : \/ i \in DOMAIN w.messages /\ more[i] = w.messages[i]
                             \/ i = n + 1
                             \/ i = n + 2
  <2>1. DOMAIN more = 1..n + 2 /\ DOMAIN w.messages = 1..n
    BY <1>1, <1>4
  <2>2. \A i \in 1..n + 2 : (i \in 1..n /\ i <= n) \/ i = n + 1 \/ i = n + 2
    BY <1>4
  <2>3. QED BY <1>4, <2>1, <2>2
<1> HIDE DEF more
<1>7. /\ Taken(w) \in Window /\ Listed(Taken(w)) /\ Taken(w).waiting = w.waiting
      /\ Taken(w).streaming = w.streaming /\ Taken(w).messages = more
  <2>1. NoQuestion \in Nat
    BY DEF NoQuestion
  <2>2. QED BY <1>3, <1>4, <2>1 DEF Window, Listed
<1>8. QED BY <1>1, <1>4, <1>5, <1>6, <1>7 DEF coach

\* A response keeps the shape of the window; the line is emptied only when it says that
\* the question was taken.
LEMMA ResponseHandled ==
  ASSUME NEW w \in Window, Listed(w), NEW r \in AnswerType, w.waiting # "none",
         w.waiting = "chat" => ~w.streaming, NEW v \in After(w, r)
  PROVE  /\ v \in Window /\ Listed(v)
         /\ v.input = w.input \/ (w.waiting = "chat" /\ r.kind \in {"accepted", "chat"})
         /\ v.streaming => (w.streaming \/ (w.waiting = "chat" /\ r.kind = "accepted"))
         /\ w.streaming \/ (w.waiting = "chat" /\ r.kind = "accepted") => v.streaming
         /\ \A k : Apart(w, k) => Apart(v, k)
<1>1. w.waiting \in Waits
  BY DEF Window
<1>2. CASE w.waiting = "chat"
  <2>1. CASE r.kind = "accepted"
    <3> DEFINE t == Taken(w)
               n == Len(w.messages)
    <3>1. v = [t EXCEPT !.streaming = TRUE]
      BY <1>2, <2>1 DEF After, Accepted
    <3>2. /\ t \in Window /\ Listed(t) /\ t.waiting = w.waiting /\ t.streaming = w.streaming
          /\ n + 2 \in DOMAIN t.messages /\ Len(t.messages) = n + 2
          /\ t.messages[n + 2] = Message("coach", {})
          /\ \A i \in DOMAIN t.messages :
               \/ i \in DOMAIN w.messages /\ t.messages[i] = w.messages[i]
               \/ i = n + 1 /\ t.messages[i].who = "user"
               \/ i = n + 2
      BY QuestionTaken
    <3> HIDE DEF t
    <3>3. v \in Window /\ Listed(v) /\ v.streaming = TRUE /\ v.messages = t.messages
      BY <3>1, <3>2 DEF Window, Listed
    <3>4. t.messages[n + 2].of = {} /\ Last(t.messages) = t.messages[n + 2]
      BY <3>2 DEF Message, Last
    <3>5. ASSUME NEW k, Apart(w, k)
          PROVE  Apart(v, k)
      BY <3>2, <3>3, <3>4, <3>5 DEF Apart
    <3>6. QED BY <1>2, <2>1, <3>3, <3>5
  <2>2. CASE r.kind = "chat"
    <3> DEFINE t == Taken(w)
               n == Len(w.messages)
               last == [t.messages[n + 2] EXCEPT !.of = {r.of}]
               more == [t.messages EXCEPT ![n + 2] = last]
               u == [t EXCEPT !.messages = more]
    <3>1. /\ t \in Window /\ Listed(t) /\ t.waiting = w.waiting /\ t.streaming = w.streaming
          /\ n + 2 \in DOMAIN t.messages /\ Len(t.messages) = n + 2
          /\ t.messages[n + 2] = Message("coach", {})
          /\ \A i \in DOMAIN t.messages :
               \/ i \in DOMAIN w.messages /\ t.messages[i] = w.messages[i]
               \/ i = n + 1 /\ t.messages[i].who = "user"
               \/ i = n + 2
      BY QuestionTaken
    <3>2. r.of \in Nat
      BY <2>2 DEF AnswerType
    <3>3. v \in FinishStream(u)
      <4>1. v \in Answered(w, r.of)
        BY <1>2, <2>2 DEF After
      <4>2. [t EXCEPT !.messages[n + 2].of = {r.of}] = u
        OBVIOUS
      <4>3. QED BY <4>1, <4>2 DEF Answered
    <3> HIDE DEF t
    <3>4. last \in Messages /\ last.of = {r.of} /\ t.messages \in Seq(Messages)
      BY <3>1, <3>2 DEF Message, Messages, Window
    <3> HIDE DEF last
    <3>5. /\ more \in Seq(Messages) /\ DOMAIN more = DOMAIN t.messages
          /\ \A i \in DOMAIN more : more[i] = IF i = n + 2 THEN last ELSE t.messages[i]
      BY <3>1, <3>4
    <3> HIDE DEF more
    <3>6. u \in Window /\ Listed(u) /\ u.messages = more
      BY <3>1, <3>5 DEF Window, Listed
    <3> HIDE DEF u
    <3>7. v \in Window /\ Listed(v) /\ v.streaming = FALSE /\ v.messages = more
      BY <3>3, <3>6, Finished
    <3>8. ASSUME NEW k, Apart(w, k)
          PROVE  Apart(v, k)
      BY <3>1, <3>4, <3>5, <3>7, <3>8 DEF Apart
    <3>9. QED BY <1>2, <2>2, <3>7, <3>8
  <2>3. CASE r.kind \notin {"accepted", "chat"}
    <3>1. v = w
      BY <1>2, <2>3 DEF After
    <3>2. QED BY <1>2, <2>3, <3>1
  <2>4. QED BY <2>1, <2>2, <2>3
<1>3. CASE w.waiting \in {"airlock", "context"}
  <2>1. v = w \/ \E open \in BOOLEAN : v = [w EXCEPT !.open = open]
    BY <1>3 DEF After, Refreshed, AnswerType
  <2>2. /\ v \in Window /\ Listed(v) /\ v.streaming = w.streaming
        /\ v.messages = w.messages /\ v.input = w.input
    BY <2>1 DEF Window, Listed
  <2>3. QED BY <1>3, <2>2, ApartWhenSilent
<1>4. CASE w.waiting = "insert"
  <2>1. \E quit \in BOOLEAN : v = [w EXCEPT !.quit = quit]
    <3>1. \/ v = [w EXCEPT !.quit = r.kind \in {"none", "closed"}]
          \/ v = [w EXCEPT !.quit = TRUE]
      BY <1>4 DEF After
    <3>2. (r.kind \in {"none", "closed"}) \in BOOLEAN /\ TRUE \in BOOLEAN
      OBVIOUS
    <3> DEFINE ends == r.kind \in {"none", "closed"}
    <3> HIDE DEF ends
    <3>3. ends \in BOOLEAN /\ (v = [w EXCEPT !.quit = ends] \/ v = [w EXCEPT !.quit = TRUE])
      BY <3>1, <3>2 DEF ends
    <3>4. QED BY <3>2, <3>3
  <2>2. /\ v \in Window /\ Listed(v) /\ v.streaming = w.streaming
        /\ v.messages = w.messages /\ v.input = w.input
    BY <2>1 DEF Window, Listed
  <2>3. QED BY <1>4, <2>2, ApartWhenSilent
<1>5. QED BY <1>1, <1>2, <1>3, <1>4 DEF Waits

-----------------------------------------------------------------------------
(* The queue of events                                                     *)

\* Events are received behind the others, and the oldest give way.
LEMMA Received ==
  ASSUME Shapes, NEW events \in Seq(EventType), NEW untold, Tells(events, untold)
  PROVE  /\ queue' \in Seq(EventType) /\ Len(queue') <= QueueLength
         /\ \E over \in Nat :
              \A i \in DOMAIN queue' : /\ i + over \in 1..Len(queue) + Len(events)
                                       /\ queue'[i] = (queue \o events)[i + over]
                                       /\ i + over = Len(queue) + Len(events) <=> i = Len(queue')
<1> DEFINE all == queue \o events
           over == IF Len(all) > QueueLength THEN Len(all) - QueueLength ELSE 0
<1>1. queue' = SubSeq(all, over + 1, Len(all))
  BY DEF Tells
<1>2. all \in Seq(EventType) /\ Len(all) = Len(queue) + Len(events) /\ QueueLength \in Nat
  BY CoachWindowAssumption DEF Shapes
<1> HIDE DEF all
<1>3. over \in Nat /\ Len(all) - over <= QueueLength /\ over <= Len(all)
  BY <1>2
<1> HIDE DEF over
<1>4. /\ queue' \in Seq(EventType) /\ Len(queue') = Len(all) - over
      /\ \A i \in DOMAIN queue' : i \in Nat /\ i + over \in 1..Len(all) /\ queue'[i] = all[i + over]
  <2> DEFINE kept == SubSeq(all, over + 1, Len(all))
  <2>1. kept \in Seq(EventType) /\ Len(kept) = Len(all) - over
    BY <1>2, <1>3
  <2>2. DOMAIN kept = 1..Len(all) - over
    BY <2>1, <1>2, <1>3
  <2>3. ASSUME NEW i \in 1..Len(all) - over
        PROVE  i \in Nat /\ i + over \in 1..Len(all) /\ kept[i] = all[i + over]
    <3>1. Len(all) \in Nat
      BY <1>2
    <3>2. i \in Nat /\ i + over \in 1..Len(all)
      BY <1>3, <3>1
    <3>3. kept[i] = all[i + over]
      BY <1>2, <1>3, <3>1, <3>2
    <3>4. QED BY <3>2, <3>3
  <2> HIDE DEF kept
  <2>4. queue' = kept
    BY <1>1 DEF kept
  <2>5. QED BY <2>1, <2>2, <2>3, <2>4
<1>5. \A i \in DOMAIN queue' : i + over = Len(all) <=> i = Len(queue')
  BY <1>2, <1>3, <1>4, SMTT(30)
<1>6. QED BY <1>2, <1>3, <1>4, <1>5 DEF all

LEMMA ReceivedNone ==
  ASSUME Shapes, NEW untold, Tells(<<>>, untold)
  PROVE  queue' = queue
<1> DEFINE all == queue \o <<>>
           over == IF Len(all) > QueueLength THEN Len(all) - QueueLength ELSE 0
<1>1. queue' = SubSeq(all, over + 1, Len(all))
  BY DEF Tells
<1>2. all = queue
  BY DEF Shapes
<1> HIDE DEF all
<1>3. over = 0
  BY <1>2, CoachWindowAssumption DEF Shapes
<1> HIDE DEF over
<1>4. queue' = SubSeq(queue, 1, Len(queue))
  BY <1>1, <1>2, <1>3
<1>5. QED BY <1>4 DEF Shapes

LEMMA ReceivedOne ==
  ASSUME Shapes, NEW e \in EventType, NEW untold, Tells(<<e>>, untold)
  PROVE  /\ queue' \in Seq(EventType) /\ Len(queue') <= QueueLength
         /\ \E over \in Nat :
              \A i \in DOMAIN queue' :
                \/ i + over \in DOMAIN queue /\ queue'[i] = queue[i + over]
                \/ i = Len(queue') /\ queue'[i] = e
<1> DEFINE one == <<e>>
<1>1. one \in Seq(EventType) /\ Len(one) = 1 /\ one[1] = e
  OBVIOUS
<1> HIDE DEF one
<1>2. Tells(one, untold)
  BY DEF one
<1>3. queue' \in Seq(EventType) /\ Len(queue') <= QueueLength
  BY <1>1, <1>2, Received
<1>4. PICK over \in Nat :
        \A i \in DOMAIN queue' : /\ i + over \in 1..Len(queue) + Len(one)
                                 /\ queue'[i] = (queue \o one)[i + over]
                                 /\ i + over = Len(queue) + Len(one) <=> i = Len(queue')
  BY <1>1, <1>2, Received
<1>5. queue \in Seq(EventType) /\ Len(queue) \in Nat
  BY DEF Shapes
<1>6. /\ \A n \in DOMAIN queue : (queue \o one)[n] = queue[n]
      /\ (queue \o one)[Len(queue) + 1] = e
  <2>1. ASSUME NEW n \in 1..Len(queue) + Len(one)
        PROVE  (queue \o one)[n] = IF n <= Len(queue) THEN queue[n] ELSE one[n - Len(queue)]
    <3>1. queue \in Seq(EventType) /\ one \in Seq(EventType)
      BY <1>1, <1>5
    <3>2. QED BY <3>1, SMTT(30)
  <2>2. Len(queue) + 1 \in 1..Len(queue) + Len(one) /\ ~ (Len(queue) + 1 <= Len(queue))
        /\ (Len(queue) + 1) - Len(queue) = 1
    BY <1>1, <1>5
  <2>3. DOMAIN queue = 1..Len(queue)
    BY <1>5
  <2>4. (queue \o one)[Len(queue) + 1] = one[(Len(queue) + 1) - Len(queue)]
    BY <2>1, <2>2
  <2>5. \A n \in DOMAIN queue : (queue \o one)[n] = queue[n]
    BY <1>1, <1>5, <2>1, <2>3
  <2>6. QED BY <1>1, <2>2, <2>4, <2>5
<1>7. \A n \in 1..Len(queue) + 1 : n \in DOMAIN queue \/ n = Len(queue) + 1
  BY <1>5
<1>8. \A i \in DOMAIN queue' :
        \/ i + over \in DOMAIN queue /\ queue'[i] = queue[i + over]
        \/ i = Len(queue') /\ queue'[i] = e
  BY <1>1, <1>4, <1>6, <1>7
<1>9. QED BY <1>3, <1>4, <1>8

\* A piece or the last word of the running answer may come; after its last word nothing runs.
LEMMA OrderIsKept ==
  ASSUME Shapes, ToldInOrder, NEW e \in EventType, NEW untold, Tells(<<e>>, untold),
         e.kind \notin {"cancelled", "cleared"},
         e.kind \in ChatEvents => /\ e.of = spent.chats /\ Underway
                                  /\ \E c \in Chats : daemon.chat[c] = "running",
         \A c \in Chats : daemon'.chat[c] = "running" =>
                            daemon.chat[c] = "running" /\ e.kind \notin LastWords,
         spent'.chats = spent.chats, UNCHANGED <<win, answer>>
  PROVE  ToldInOrder'
<1>1. PICK over \in Nat :
        \A i \in DOMAIN queue' :
          \/ i + over \in DOMAIN queue /\ queue'[i] = queue[i + over]
          \/ i = Len(queue') /\ queue'[i] = e
  BY ReceivedOne
<1>2. queue' \in Seq(EventType) /\ DOMAIN queue' = 1..Len(queue') /\ Len(queue') \in Nat
  BY ReceivedOne
<1>3. Underway' = Underway
  BY DEF Underway
<1>4. ASSUME NEW i \in DOMAIN queue'
      PROVE  /\ queue'[i].kind \notin {"cancelled", "cleared"}
             /\ queue'[i].kind \in ChatEvents => queue'[i].of = spent'.chats /\ Underway'
             /\ queue'[i].kind \in LastWords => \A c \in Chats : daemon'.chat[c] # "running"
  BY <1>1, <1>3 DEF ToldInOrder
<1>5. ASSUME NEW i \in DOMAIN queue', NEW j \in DOMAIN queue',
             queue'[i].kind \in LastWords, queue'[j].kind \in ChatEvents
      PROVE  j <= i
  <2>1. i \in Nat /\ j \in Nat /\ i <= Len(queue') /\ j <= Len(queue')
    BY <1>2
  <2>2. CASE i = Len(queue')
    BY <2>1, <2>2
  <2>3. CASE i + over \in DOMAIN queue /\ queue'[i] = queue[i + over]
    <3>1. ~ \E c \in Chats : daemon.chat[c] = "running"
      BY <1>5, <2>3 DEF ToldInOrder
    <3>2. CASE j + over \in DOMAIN queue /\ queue'[j] = queue[j + over]
      <4>1. j + over <= i + over
        BY <1>5, <2>3, <3>2 DEF ToldInOrder
      <4>2. QED BY <2>1, <4>1
    <3>3. CASE queue'[j] = e
      BY <1>5, <3>1, <3>3
    <3>4. QED BY <1>1, <3>2, <3>3
  <2>4. QED BY <1>1, <2>2, <2>3
<1>6. QED BY <1>4, <1>5 DEF ToldInOrder

-----------------------------------------------------------------------------
(* The invariant: initially and step by step                               *)

LEMMA Disturbed ==
  ASSUME spent \in SpentType, NEW really, Disturbs(really)
  PROVE  /\ spent' \in SpentType /\ spent'.chats = spent.chats
         /\ spent'.calm => spent.calm /\ ~ really
<1> DEFINE still == spent.calm /\ ~ really
<1>1. spent' = [spent EXCEPT !.other = @ + 1, !.calm = still]
  BY DEF Disturbs
<1>2. still \in BOOLEAN /\ (still => spent.calm /\ ~ really)
  OBVIOUS
<1> HIDE DEF still
<1>3. PICK b \in BOOLEAN : /\ spent' = [spent EXCEPT !.other = @ + 1, !.calm = b]
                           /\ b => spent.calm /\ ~ really
  BY <1>1, <1>2, Zenon
<1> DEFINE counted == [spent EXCEPT !.other = @ + 1]
<1>4. counted \in SpentType /\ counted.chats = spent.chats
  BY DEF SpentType
<1> HIDE DEF counted
<1>5. spent' = [counted EXCEPT !.calm = b]
  BY <1>3 DEF counted
<1>6. spent' \in SpentType /\ spent'.chats = counted.chats
  BY <1>4, <1>5 DEF SpentType
<1>7. spent'.calm = b
  BY <1>4, <1>5 DEF SpentType
<1>8. QED BY <1>3, <1>4, <1>6, <1>7

LEMMA InitHolds == Init => IInv
<1> SUFFICES ASSUME Init PROVE IInv
  OBVIOUS
<1>1. /\ Len(<<>>) = 0 /\ DOMAIN <<>> = {} /\ \A S : <<>> \in Seq(S)
      /\ MaxRecs \in Nat /\ QueueLength \in Nat
  BY CoachWindowAssumption
<1>2. win \in Window /\ Listed(win) /\ win.messages = <<>> /\ win.waiting = "none"
  BY <1>1 DEF Init, NoQuestion, Window, Listed
<1>3. /\ daemon \in DaemonType /\ IsFiniteSet(daemon.news)
      /\ \A c \in Chats : daemon.chat[c] = "none"
  BY FS_EmptySet, ZenonT(30) DEF Init, DaemonType
<1>4. answer \in AnswerType /\ answer.kind = "none" /\ spent \in SpentType
  BY DEF Init, NoAnswer, AnswerType, SpentType
<1>5. Shapes
  BY <1>1, <1>2, <1>3, <1>4 DEF Init, Shapes
<1>6. WaitInv
  BY <1>1, <1>2, <1>4 DEF Init, WaitInv
<1>7. QuietInv
  BY <1>1, <1>2, <1>3, <1>4 DEF Init, QuietInv, OneRuns, ToldInOrder, Addressed, Apart
<1>8. QED BY <1>5, <1>6, <1>7 DEF IInv

\* Between two handlers nobody waits, and no answer lies there.
LEMMA IdleAlone ==
  ASSUME IInv, Idle
  PROVE  /\ win.waiting = "none" /\ answer.kind = "none"
         /\ \A i \in DOMAIN asked : ~ asked[i].awaited
         /\ Underway => win.streaming
         /\ spent.calm => asked = <<>>
<1>1. win.waiting = "none" /\ answer.kind = "none"
  BY DEF Idle, IInv, WaitInv
<1>2. \A i \in DOMAIN asked : asked[i].kind # "none"
  <2>1. asked \in Seq(RequestType)
    BY DEF IInv, Shapes
  <2>2. \A i \in DOMAIN asked : asked[i] \in RequestType
    BY <2>1
  <2>3. QED BY <2>2 DEF RequestType, Waits
<1>3. \A i \in DOMAIN asked : ~ asked[i].awaited
  BY <1>1, <1>2 DEF IInv, WaitInv
<1>4. spent.calm => DOMAIN asked = {}
  BY <1>3 DEF IInv, QuietInv, Addressed
<1>5. asked \in Seq(RequestType) /\ (DOMAIN asked = {} => asked = <<>>)
  BY DEF IInv, Shapes
<1>6. QED BY <1>1, <1>3, <1>4, <1>5 DEF Underway

\* A step of the window's own that says nothing to the daemon.
LEMMA OwnStep ==
  ASSUME IInv, Idle, UNCHANGED <<queue, asked, answer, daemon>>,
         win' \in Window, Listed(win'), win'.waiting = "none",
         win'.messages = win.messages, win'.streaming = win.streaming,
         spent' \in SpentType, spent'.calm = spent.calm, spent'.chats = spent.chats
  PROVE  IInv'
<1>1. Shapes'
  BY DEF IInv, Shapes
<1>2. WaitInv'
  BY IdleAlone DEF WaitInv
<1>3. QuietInv'
  BY DEF IInv, QuietInv, OneRuns, ToldInOrder, Addressed, Apart, Underway
<1>4. QED BY <1>1, <1>2, <1>3 DEF IInv

LEMMA TypeKeeps ==
  ASSUME IInv, Type
  PROVE  IInv'
<1>1. /\ Idle /\ spent' = [spent EXCEPT !.questions = @ + 1]
      /\ win' = [win EXCEPT !.input = spent.questions + 1]
      /\ UNCHANGED <<queue, asked, answer, daemon>>
  BY DEF Type
<1>2. win \in Window /\ Listed(win) /\ spent \in SpentType /\ win.waiting = "none"
  BY <1>1 DEF IInv, Shapes, Idle
<1>3. spent.questions \in Nat /\ spent.questions + 1 \in Nat
  BY <1>2 DEF SpentType
<1>4. spent' \in SpentType /\ spent'.calm = spent.calm /\ spent'.chats = spent.chats
  BY <1>1, <1>2, <1>3 DEF SpentType
<1>5. /\ win' \in Window /\ Listed(win') /\ win'.waiting = "none"
      /\ win'.messages = win.messages /\ win'.streaming = win.streaming
  BY <1>1, <1>2, <1>3 DEF Window, Listed
<1>6. QED BY <1>1, <1>4, <1>5, OwnStep

LEMMA SelectKeeps ==
  ASSUME IInv, Select
  PROVE  IInv'
<1>1. /\ Idle /\ win.recs # <<>>
      /\ \/ win' = [win EXCEPT !.selected = IF @ > 1 THEN @ - 1 ELSE 1]
         \/ win' = [win EXCEPT !.selected = IF @ < Len(win.recs) THEN @ + 1 ELSE @]
      /\ UNCHANGED <<queue, asked, answer, daemon, spent>>
  BY DEF Select
<1>2. win \in Window /\ Listed(win) /\ spent \in SpentType /\ win.waiting = "none"
  BY <1>1 DEF IInv, Shapes, Idle
<1>3. win.recs \in Seq(Commands) /\ win.selected \in 1..Len(win.recs) /\ Len(win.recs) \in Nat
  BY <1>1, <1>2 DEF Window, Listed
<1>4. PICK n \in 1..Len(win.recs) : win' = [win EXCEPT !.selected = n]
  <2>1. /\ (IF win.selected > 1 THEN win.selected - 1 ELSE 1) \in 1..Len(win.recs)
        /\ (IF win.selected < Len(win.recs) THEN win.selected + 1 ELSE win.selected)
             \in 1..Len(win.recs)
    BY <1>3
  <2>2. QED BY <1>1, <2>1
<1>5. n \in Nat /\ n \in DOMAIN win.recs
  BY <1>3
<1>6. /\ win' \in Window /\ Listed(win') /\ win'.waiting = "none"
      /\ win'.messages = win.messages /\ win'.streaming = win.streaming
  BY <1>1, <1>2, <1>4, <1>5 DEF Window, Listed
<1>7. QED BY <1>1, <1>2, <1>6, OwnStep

LEMMA QuitKeeps ==
  ASSUME IInv, Quit
  PROVE  IInv'
<1>1. /\ Idle /\ win' = [win EXCEPT !.quit = TRUE]
      /\ UNCHANGED <<queue, asked, answer, daemon, spent>>
  BY DEF Quit
<1>2. win \in Window /\ Listed(win) /\ spent \in SpentType /\ win.waiting = "none"
  BY <1>1 DEF IInv, Shapes, Idle
<1>3. /\ win' \in Window /\ Listed(win') /\ win'.waiting = "none"
      /\ win'.messages = win.messages /\ win'.streaming = win.streaming
  BY <1>1, <1>2 DEF Window, Listed
<1>4. QED BY <1>1, <1>2, <1>3, OwnStep

\* A handler asks, for a question with the next number or for anything else.
LEMMA AskKeeps ==
  ASSUME IInv, Idle, NEW kind \in Waits, Ask(win, kind, Request(kind)),
         kind = "chat" => ~ win.streaming,
         spent' \in SpentType, spent'.calm => spent.calm,
         spent'.chats = IF kind = "chat" THEN spent.chats + 1 ELSE spent.chats
  PROVE  IInv'
<1> DEFINE r == Request(kind)
<1>1. /\ win' = [win EXCEPT !.waiting = kind] /\ UNCHANGED <<queue, daemon>>
      /\ \/ asked' = Append(asked, r) /\ answer' = NoAnswer
         \/ asked' = asked /\ answer' = [kind |-> "closed"]
  BY DEF Ask
<1>2. /\ win \in Window /\ Listed(win) /\ asked \in Seq(RequestType) /\ spent \in SpentType
      /\ answer.kind = "none" /\ (\A i \in DOMAIN asked : ~ asked[i].awaited)
      /\ (Underway => win.streaming) /\ (spent.calm => asked = <<>>)
  BY IdleAlone DEF IInv, Shapes
<1>3. /\ r \in RequestType /\ r.awaited /\ r.kind = kind /\ r.question = win.input
      /\ r.of = spent.chats + 1
  BY <1>2, SMTT(30) DEF Request, RequestType, Window, SpentType
<1> HIDE DEF r
<1>4. /\ win' \in Window /\ Listed(win') /\ win'.waiting = kind /\ win'.input = win.input
      /\ win'.messages = win.messages /\ win'.streaming = win.streaming
  BY <1>1, <1>2 DEF Window, Listed
<1>5. /\ asked' \in Seq(RequestType)
      /\ \A i \in DOMAIN asked' :
           \/ i \in DOMAIN asked /\ asked'[i] = asked[i]
           \/ i = Len(asked') /\ asked'[i] = r /\ answer'.kind = "none"
  <2>1. CASE asked' = asked
    BY <1>2, <2>1
  <2>2. CASE asked' = Append(asked, r) /\ answer' = NoAnswer
    <3> DEFINE more == Append(asked, r)
    <3>1. /\ more \in Seq(RequestType) /\ Len(more) = Len(asked) + 1
          /\ \A i \in DOMAIN more :
               \/ i \in DOMAIN asked /\ more[i] = asked[i]
               \/ i = Len(asked) + 1 /\ more[i] = r
      BY <1>2, <1>3, AppendedElements
    <3> HIDE DEF more
    <3>2. asked' = more
      BY <2>2 DEF more
    <3>3. QED BY <2>2, <3>1, <3>2 DEF NoAnswer
  <2>3. QED BY <1>1, <2>1, <2>2
<1>6. answer' \in AnswerType /\ answer'.kind \in {"none", "closed"}
  BY <1>1 DEF NoAnswer, AnswerType
<1>7. Shapes'
  BY <1>1, <1>4, <1>5, <1>6 DEF IInv, Shapes
<1>8. WaitInv'
  BY <1>2, <1>3, <1>4, <1>5, <1>6 DEF WaitInv, Waits
<1>9. QuietInv'
  <2> SUFFICES ASSUME spent'.calm
               PROVE  OneRuns' /\ ToldInOrder' /\ Addressed' /\ Apart(win, spent.chats)'
    BY DEF QuietInv
  <2>1. spent.calm /\ OneRuns /\ ToldInOrder /\ Apart(win, spent.chats) /\ asked = <<>>
    BY <1>2 DEF IInv, QuietInv
  <2>2. (Underway' <=> win.streaming) /\ (Underway <=> win.streaming)
    BY <1>2, <1>4, <1>6 DEF Underway
  <2>3. kind = "chat" => ~ Underway
    BY <1>2
  <2>4. spent'.chats # spent.chats => ~ Underway
    BY <2>3
  <2>5. OneRuns'
    BY <1>1, <2>1, <2>2, <2>4, <1>2 DEF OneRuns
  <2>6. ToldInOrder'
    BY <1>1, <2>1, <2>2, <2>4, <1>2 DEF ToldInOrder
  <2>7. DOMAIN asked = {}
    BY <2>1
  <2>8. Addressed'
    BY <1>3, <1>5, <1>6, <2>7 DEF Addressed
  <2>9. Apart(win, spent.chats)'
    BY <1>4, <2>1 DEF Apart
  <2>10. QED BY <2>5, <2>6, <2>8, <2>9
<1>10. QED BY <1>7, <1>8, <1>9 DEF IInv

LEMMA AskersKeep ==
  ASSUME IInv, Submit \/ ToggleAirlock \/ RefreshContext \/ InsertSelected
  PROVE  IInv'
<1>1. spent \in SpentType
  BY DEF IInv, Shapes
<1>2. CASE Submit
  <2>1. /\ Idle /\ ~ win.streaming /\ Ask(win, "chat", Request("chat"))
        /\ spent' = [spent EXCEPT !.chats = @ + 1]
    BY <1>2 DEF Submit, MayAsk, NewChat
  <2>2. spent' \in SpentType /\ (spent'.calm => spent.calm) /\ spent'.chats = spent.chats + 1
    BY <1>1, <2>1 DEF SpentType
  <2>3. QED BY <2>1, <2>2, AskKeeps DEF Waits
<1>3. ASSUME Other
      PROVE  spent' \in SpentType /\ (spent'.calm => spent.calm) /\ spent'.chats = spent.chats
  BY <1>1, <1>3, Disturbed DEF Other
<1>4. CASE ToggleAirlock
  BY <1>3, <1>4, AskKeeps DEF ToggleAirlock, Waits
<1>5. CASE RefreshContext
  <2>1. Idle /\ Ask(win, "context", Request("context")) /\ spent' = spent
    BY <1>5 DEF RefreshContext
  <2>2. "context" \in Waits
    BY DEF Waits
  <2>3. QED BY <1>1, <2>1, <2>2, AskKeeps
<1>6. CASE InsertSelected
  BY <1>3, <1>6, AskKeeps DEF InsertSelected, Waits
<1>7. QED BY <1>2, <1>4, <1>5, <1>6

\* The last word of an answer releases the window, and nothing told of it is left.
LEMMA HandleKeeps ==
  ASSUME IInv, HandleEvent
  PROVE  IInv'
<1> DEFINE e == Head(queue)
<1>1. /\ Idle /\ queue # <<>> /\ win' \in Handled(win, e) /\ queue' = Tail(queue)
      /\ UNCHANGED <<asked, answer, daemon, spent>>
  BY DEF HandleEvent
<1>2. /\ win \in Window /\ Listed(win) /\ queue \in Seq(EventType) /\ Len(queue) <= QueueLength
      /\ QueueLength \in Nat
  BY CoachWindowAssumption DEF IInv, Shapes
<1>3. /\ win.waiting = "none" /\ answer.kind = "none" /\ (Underway => win.streaming)
      /\ \A i \in DOMAIN asked : ~ asked[i].awaited
  BY <1>1, IdleAlone
<1>4. /\ e \in EventType /\ e = queue[1] /\ 1 \in DOMAIN queue
      /\ queue' \in Seq(EventType) /\ Len(queue') <= QueueLength
      /\ \A i \in DOMAIN queue' : i \in Nat /\ i >= 1 /\ i + 1 \in DOMAIN queue
                                  /\ queue'[i] = queue[i + 1]
  BY <1>1, <1>2
<1> HIDE DEF e
<1>5. /\ win' \in Window /\ Listed(win') /\ win'.waiting = win.waiting
      /\ e.kind \notin LastWords \cup {"cancelled", "cleared"} => win'.streaming = win.streaming
      /\ win'.streaming => win.streaming
      /\ \A k : Apart(win, k) /\ (e.kind \in ChatEvents => e.of = k /\ win.streaming)
                  => Apart(win', k)
  BY <1>1, <1>2, <1>4, EventHandled
<1>6. Shapes'
  BY <1>1, <1>4, <1>5 DEF IInv, Shapes
<1>7. WaitInv'
  BY <1>1, <1>3, <1>5 DEF WaitInv
<1>8. QuietInv'
  <2> SUFFICES ASSUME spent'.calm
               PROVE  OneRuns' /\ ToldInOrder' /\ Addressed' /\ Apart(win, spent.chats)'
    BY DEF QuietInv
  <2>1. OneRuns /\ ToldInOrder /\ Addressed /\ Apart(win, spent.chats)
    BY <1>1 DEF IInv, QuietInv
  <2>2. /\ e.kind \notin {"cancelled", "cleared"}
        /\ e.kind \in ChatEvents => e.of = spent.chats /\ win.streaming
    BY <1>3, <1>4, <2>1 DEF ToldInOrder
  <2>3. Apart(win', spent'.chats)
    BY <1>1, <1>5, <2>1, <2>2
  <2>4. Addressed'
    BY <1>1, <2>1 DEF Addressed
  <2>5. CASE e.kind \in LastWords
    <3>1. \A c \in Chats : daemon.chat[c] # "running"
      BY <1>4, <2>1, <2>5 DEF ToldInOrder
    <3>2. \A i \in DOMAIN queue' : queue'[i].kind \notin ChatEvents
      BY <1>4, <2>1, <2>5 DEF ToldInOrder
    <3>3. OneRuns'
      BY <1>1, <2>1, <3>1 DEF OneRuns
    <3>4. LastWords \subseteq ChatEvents
      BY DEF LastWords, ChatEvents
    <3>5. ToldInOrder'
      BY <1>4, <2>1, <3>2, <3>4 DEF ToldInOrder
    <3>6. QED BY <2>3, <2>4, <3>3, <3>5
  <2>6. CASE e.kind \notin LastWords
    <3>1. win'.streaming = win.streaming
      BY <1>5, <2>2, <2>6
    <3>2. Underway => Underway'
      BY <1>1, <3>1 DEF Underway
    <3>3. OneRuns'
      BY <1>1, <2>1, <3>2 DEF OneRuns
    <3>4. \A i, j \in DOMAIN queue' :
            queue'[i].kind \in LastWords /\ queue'[j].kind \in ChatEvents => j <= i
      <4>1. SUFFICES ASSUME NEW i \in DOMAIN queue', NEW j \in DOMAIN queue',
                            queue'[i].kind \in LastWords, queue'[j].kind \in ChatEvents
                     PROVE  j <= i
        OBVIOUS
      <4>2. j + 1 <= i + 1 /\ i \in Nat /\ j \in Nat
        BY <1>4, <2>1, <4>1 DEF ToldInOrder
      <4>3. QED BY <4>2
    <3>5. ToldInOrder'
      BY <1>1, <1>4, <2>1, <3>2, <3>4 DEF ToldInOrder
    <3>6. QED BY <2>3, <2>4, <3>3, <3>5
  <2>7. QED BY <2>5, <2>6
<1>9. QED BY <1>6, <1>7, <1>8 DEF IInv

LEMMA AnswerKeeps ==
  ASSUME IInv, TakeAnswer
  PROVE  IInv'
<1>1. PICK v \in After(win, answer) :
        /\ win.waiting # "none" /\ answer.kind # "none" /\ win' = [v EXCEPT !.waiting = "none"]
        /\ answer' = NoAnswer /\ UNCHANGED <<queue, asked, daemon, spent>>
  BY DEF TakeAnswer
<1>2. /\ win \in Window /\ Listed(win) /\ answer \in AnswerType
      /\ (win.waiting = "chat" => ~ win.streaming)
      /\ (answer.kind \in {"accepted", "chat"} => win.waiting = "chat")
  BY DEF IInv, Shapes, WaitInv
<1>3. /\ v \in Window /\ Listed(v)
      /\ (win.streaming \/ (win.waiting = "chat" /\ answer.kind = "accepted") => v.streaming)
      /\ \A k : Apart(win, k) => Apart(v, k)
  BY <1>1, <1>2, ResponseHandled
<1>4. /\ win' \in Window /\ Listed(win') /\ win'.waiting = "none"
      /\ win'.streaming = v.streaming /\ win'.messages = v.messages
  BY <1>1, <1>3 DEF Window, Listed
<1>5. answer' \in AnswerType /\ answer'.kind = "none"
  BY <1>1 DEF NoAnswer, AnswerType
<1>6. Shapes'
  BY <1>1, <1>4, <1>5 DEF IInv, Shapes
<1>7. \A i \in DOMAIN asked : ~ asked[i].awaited
  BY <1>1 DEF IInv, WaitInv
<1>8. WaitInv'
  BY <1>1, <1>4, <1>5, <1>7 DEF WaitInv
<1>9. QuietInv'
  <2> SUFFICES ASSUME spent'.calm
               PROVE  OneRuns' /\ ToldInOrder' /\ Addressed' /\ Apart(win, spent.chats)'
    BY DEF QuietInv
  <2>1. OneRuns /\ ToldInOrder /\ Addressed /\ Apart(win, spent.chats)
    BY <1>1 DEF IInv, QuietInv
  <2>2. Underway => Underway'
    BY <1>2, <1>3, <1>4 DEF Underway
  <2>3. OneRuns'
    BY <1>1, <2>1, <2>2 DEF OneRuns
  <2>4. ToldInOrder'
    BY <1>1, <2>1, <2>2 DEF ToldInOrder
  <2>5. Addressed'
    BY <1>1, <1>5, <2>1 DEF Addressed
  <2>6. Apart(v, spent.chats)
    BY <1>3, <2>1
  <2>7. Apart(win, spent.chats)'
    BY <1>1, <1>4, <2>6 DEF Apart
  <2>8. QED BY <2>3, <2>4, <2>5, <2>7
<1>10. QED BY <1>6, <1>8, <1>9 DEF IInv

\* After a time-out nobody waits for the response that comes late.
LEMMA TimeOutKeeps ==
  ASSUME IInv, TimeOut
  PROVE  IInv'
<1>1. PICK v \in After(win, NoAnswer) :
        /\ win.waiting # "none" /\ answer.kind = "none" /\ Disturbs(TRUE)
        /\ win' = [v EXCEPT !.waiting = "none"]
        /\ asked' = [i \in DOMAIN asked |-> [asked[i] EXCEPT !.awaited = FALSE]]
        /\ UNCHANGED <<queue, answer, daemon>>
  BY DEF TimeOut
<1>2. /\ win \in Window /\ Listed(win) /\ asked \in Seq(RequestType) /\ spent \in SpentType
      /\ (win.waiting = "chat" => ~ win.streaming)
  BY DEF IInv, Shapes, WaitInv
<1>3. NoAnswer \in AnswerType
  BY DEF NoAnswer, AnswerType
<1>4. v \in Window /\ Listed(v)
  BY <1>1, <1>2, <1>3, ResponseHandled
<1>5. win' \in Window /\ Listed(win') /\ win'.waiting = "none"
  BY <1>1, <1>4 DEF Window, Listed
<1>6. spent' \in SpentType /\ ~ spent'.calm
  BY <1>1, <1>2, Disturbed
<1>7. asked' \in Seq(RequestType) /\ \A i \in DOMAIN asked' : ~ asked'[i].awaited
  <2>1. \A i \in DOMAIN asked : [asked[i] EXCEPT !.awaited = FALSE] \in RequestType
                                /\ ~ [asked[i] EXCEPT !.awaited = FALSE].awaited
    <3>1. \A i \in DOMAIN asked : asked[i] \in RequestType
      BY <1>2
    <3>2. \A r \in RequestType : [r EXCEPT !.awaited = FALSE] \in RequestType
                                 /\ ~ [r EXCEPT !.awaited = FALSE].awaited
      BY DEF RequestType
    <3>3. QED BY <3>1, <3>2
  <2>2. DOMAIN asked = 1..Len(asked) /\ Len(asked) \in Nat
    BY <1>2
  <2>3. /\ DOMAIN asked' = 1..Len(asked)
        /\ asked' = [i \in 1..Len(asked) |-> asked'[i]]
        /\ \A i \in 1..Len(asked) : asked'[i] \in RequestType /\ ~ asked'[i].awaited
    BY <1>1, <2>1, <2>2, Zenon
  <2>4. asked' \in Seq(RequestType)
    BY <2>2, <2>3
  <2>5. QED BY <2>3, <2>4
<1>8. Shapes'
  BY <1>1, <1>5, <1>6, <1>7 DEF IInv, Shapes
<1>9. WaitInv'
  BY <1>1, <1>5, <1>7 DEF WaitInv
<1>10. QED BY <1>6, <1>8, <1>9 DEF IInv, QuietInv

-----------------------------------------------------------------------------
(* Steps of the daemon                                                     *)

LEMMA EventTyped ==
  ASSUME NEW kind \in Kinds, NEW c \in Nat
  PROVE  /\ Event(kind, c) \in EventType /\ Event(kind, c).kind = kind /\ Event(kind, c).of = c
         /\ \A b \in BOOLEAN :
              /\ [Event(kind, c) EXCEPT !.open = b] \in EventType
              /\ [Event(kind, c) EXCEPT !.open = b].kind = kind
              /\ [Event(kind, c) EXCEPT !.everything = b] \in EventType
BY DEF Event, EventType

LEMMA Changed ==
  ASSUME daemon \in DaemonType, IsFiniteSet(daemon.news), NEW open \in BOOLEAN
  PROVE  /\ Changes(open) \in DaemonType /\ IsFiniteSet(Changes(open).news)
         /\ Changes(open).chat = daemon.chat /\ Changes(open).took = daemon.took
         /\ Changes(open).up = daemon.up
<1> DEFINE new == [n |-> Cardinality(daemon.news), open |-> open]
           news == IF open = daemon.open THEN daemon.news ELSE daemon.news \cup {new}
<1>1. new \in [n : Nat, open : BOOLEAN]
  BY FS_CardinalityType
<1> HIDE DEF new
<1>2. IsFiniteSet(daemon.news \cup {new})
  BY FS_AddElement
<1>3. news \in SUBSET [n : Nat, open : BOOLEAN] /\ IsFiniteSet(news)
  BY <1>1, <1>2 DEF DaemonType
<1> HIDE DEF news
<1>4. Changes(open) = [daemon EXCEPT !.open = open, !.news = news]
  BY DEF Changes, news, new
<1>5. QED BY <1>3, <1>4 DEF DaemonType

\* Cancelling leaves no stream running; where none ran it says nothing.
LEMMA Cancelled ==
  ASSUME Shapes, NEW told \in SUBSET Running, NEW next \in DaemonType, IsFiniteSet(next.news),
         next.chat = daemon.chat, next.took = daemon.took, Cancels(told, next)
  PROVE  /\ daemon' \in DaemonType /\ IsFiniteSet(daemon'.news) /\ daemon'.took = daemon.took
         /\ queue' \in Seq(EventType) /\ Len(queue') <= QueueLength
         /\ Running = {} => queue' = queue /\ daemon'.chat = daemon.chat
<1>1. Cut(next) \in [Chats -> {"none", "running", "cancelled", "over"}]
  BY DEF Cut, DaemonType
<1>2. daemon' = [next EXCEPT !.chat = Cut(next)]
  BY DEF Cancels
<1>3. /\ daemon' \in DaemonType /\ IsFiniteSet(daemon'.news) /\ daemon'.took = daemon.took
      /\ daemon'.chat = Cut(next)
  BY <1>1, <1>2 DEF DaemonType
<1> DEFINE events == [i \in 1..Cardinality(told) |-> Event("cancelled", 0)]
<1>4. Tells(events, told # Running)
  BY DEF Cancels
<1>5. Cardinality(told) \in Nat /\ (told = {} => Cardinality(told) = 0)
  <2>1. IsFiniteSet(Chats)
    BY CoachWindowAssumption, FS_Interval DEF Chats
  <2>2. told \subseteq Chats
    BY DEF Running
  <2>3. IsFiniteSet(told)
    BY <2>1, <2>2, FS_Subset
  <2>4. QED BY <2>3, FS_CardinalityType, FS_EmptySet
<1>6. events \in Seq(EventType) /\ (told = {} => events = <<>>)
  <2>1. Event("cancelled", 0) \in EventType
    BY EventTyped DEF Kinds
  <2>2. QED BY <1>5, <2>1
<1> HIDE DEF events
<1>7. queue' \in Seq(EventType) /\ Len(queue') <= QueueLength
  <2> DEFINE untold == told # Running
  <2>1. Tells(events, untold)
    BY <1>4
  <2> HIDE DEF untold
  <2>2. QED BY <1>6, <2>1, Received
<1>8. ASSUME Running = {}
      PROVE  queue' = queue /\ daemon'.chat = daemon.chat
  <2>1. told = {}
    BY <1>8
  <2> DEFINE untold == told # Running
  <2>2. Tells(<<>>, untold)
    BY <1>4, <1>6, <2>1
  <2> HIDE DEF untold
  <2>3. queue' = queue
    BY <2>2, ReceivedNone
  <2>4. \A c \in Chats : next.chat[c] # "running"
    BY <1>8 DEF Running
  <2>5. Cut(next) = next.chat
    BY <2>4 DEF Cut, DaemonType
  <2>6. QED BY <1>3, <2>3, <2>5
<1>9. QED BY <1>3, <1>7, <1>8

\* A step of the daemon that answers nothing.
LEMMA DaemonStep ==
  ASSUME IInv, UNCHANGED <<win, asked, answer>>,
         daemon' \in DaemonType, IsFiniteSet(daemon'.news), daemon.took \subseteq daemon'.took,
         queue' \in Seq(EventType), Len(queue') <= QueueLength,
         spent' \in SpentType, spent'.chats = spent.chats,
         spent'.calm => spent.calm /\ OneRuns' /\ ToldInOrder'
  PROVE  IInv'
<1>1. Shapes'
  BY DEF IInv, Shapes
<1>2. WaitInv'
  BY DEF IInv, WaitInv
<1>3. QuietInv'
  BY DEF IInv, QuietInv, Addressed, Apart
<1>4. QED BY <1>1, <1>2, <1>3 DEF IInv

LEMMA QuietStays ==
  ASSUME UNCHANGED <<win, queue>>, daemon'.chat = daemon.chat, spent'.chats = spent.chats,
         Underway => Underway', OneRuns, ToldInOrder
  PROVE  OneRuns' /\ ToldInOrder'
BY DEF OneRuns, ToldInOrder

\* The last request is answered if somebody waits for it.
LEMMA ServeStep ==
  ASSUME IInv, asked # <<>>, asked' = Tail(asked), UNCHANGED win,
         NEW x \in AnswerType, answer' = IF Head(asked).awaited THEN x ELSE answer,
         x.kind \in {"accepted", "chat"} =>
           /\ Head(asked).kind = "chat" /\ x.of = Head(asked).of
           /\ Head(asked).question \in daemon'.took,
         daemon' \in DaemonType, IsFiniteSet(daemon'.news), daemon.took \subseteq daemon'.took,
         queue' \in Seq(EventType), Len(queue') <= QueueLength,
         spent' \in SpentType, spent'.chats = spent.chats,
         spent'.calm => spent.calm /\ OneRuns' /\ ToldInOrder'
  PROVE  IInv'
<1> DEFINE r == Head(asked)
<1>1. asked \in Seq(RequestType) /\ answer \in AnswerType /\ win \in Window /\ Listed(win)
  BY DEF IInv, Shapes
<1>2. /\ r = asked[1] /\ r \in RequestType /\ 1 \in DOMAIN asked /\ Len(asked) \in Nat
      /\ asked' \in Seq(RequestType) /\ Len(asked') = Len(asked) - 1
      /\ \A i \in DOMAIN asked' : i \in Nat /\ i >= 1 /\ i + 1 \in DOMAIN asked
                                  /\ asked'[i] = asked[i + 1]
  BY <1>1
<1> HIDE DEF r
<1>3. answer' = IF r.awaited THEN x ELSE answer
  BY DEF r
<1>4. Shapes'
  BY <1>1, <1>2, <1>3 DEF IInv, Shapes
<1>5. r.awaited =>
        /\ 1 = Len(asked) /\ win.waiting = r.kind /\ r.kind # "none" /\ answer.kind = "none"
        /\ r.kind = "chat" => r.question = win.input
  <2>1. r.kind # "none"
    BY <1>2 DEF RequestType, Waits
  <2>2. QED BY <1>2, <2>1 DEF IInv, WaitInv
<1>6. WaitInv'
  <2>1. ASSUME NEW i \in DOMAIN asked', asked'[i].awaited
        PROVE  /\ i = Len(asked') /\ win'.waiting = asked'[i].kind /\ answer'.kind = "none"
               /\ asked'[i].kind = "chat" => asked'[i].question = win'.input
    <3>1. asked[i + 1].awaited /\ i + 1 \in DOMAIN asked /\ i \in Nat /\ i >= 1
      BY <1>2, <2>1
    <3>2. /\ i + 1 = Len(asked) /\ win.waiting = asked[i + 1].kind /\ answer.kind = "none"
          /\ asked[i + 1].kind = "chat" => asked[i + 1].question = win.input
      BY <3>1 DEF IInv, WaitInv
    <3>3. ~ r.awaited
      BY <1>2, <1>5, <3>1, <3>2
    <3>4. QED BY <1>2, <1>3, <3>1, <3>2, <3>3
  <2>2. win.waiting = "none" => answer'.kind = "none"
    BY <1>3, <1>5 DEF IInv, WaitInv
  <2>3. win.waiting = "chat" => ~ win.streaming
    BY DEF IInv, WaitInv
  <2>4. answer'.kind \in {"accepted", "chat"} => win.waiting = "chat" /\ win.input \in daemon'.took
    <3>1. CASE r.awaited
      BY <1>3, <1>5, <3>1 DEF r
    <3>2. CASE ~ r.awaited
      BY <1>3, <3>2 DEF IInv, WaitInv
    <3>3. QED BY <3>1, <3>2
  <2>5. QED BY <2>1, <2>2, <2>3, <2>4 DEF WaitInv
<1>7. QuietInv'
  <2> SUFFICES ASSUME spent'.calm
               PROVE  Addressed' /\ Apart(win, spent.chats)'
    BY DEF QuietInv
  <2>1. Addressed /\ Apart(win, spent.chats)
    BY DEF IInv, QuietInv
  <2>2. Addressed'
    <3>1. \A i \in DOMAIN asked' :
            asked'[i].awaited /\ (asked'[i].kind = "chat" => asked'[i].of = spent'.chats)
      BY <1>2, <2>1 DEF Addressed
    <3>2. r.awaited /\ (r.kind = "chat" => r.of = spent.chats)
      BY <1>2, <2>1 DEF Addressed
    <3>3. answer'.kind \in {"accepted", "chat"} => answer'.of = spent'.chats
      BY <1>3, <3>2 DEF r
    <3>4. QED BY <3>1, <3>3 DEF Addressed
  <2>3. QED BY <2>1, <2>2 DEF Apart
<1>8. QED BY <1>4, <1>6, <1>7 DEF IInv

LEMMA ServeKeeps ==
  ASSUME IInv, Serve
  PROVE  IInv'
<1> DEFINE r == Head(asked)
           reply(x) == answer' = IF r.awaited THEN x ELSE answer
<1>1. asked # <<>> /\ asked' = Tail(asked) /\ UNCHANGED win
  BY DEF Serve
<1>2. /\ daemon \in DaemonType /\ IsFiniteSet(daemon.news) /\ spent \in SpentType
      /\ queue \in Seq(EventType) /\ Len(queue) <= QueueLength /\ Shapes
      /\ (spent.calm => OneRuns /\ ToldInOrder)
  BY DEF IInv, Shapes, QuietInv
<1>3. r \in RequestType
  BY <1>1 DEF IInv, Shapes
<1>4. r.awaited => answer.kind = "none" /\ win.waiting = r.kind
  <2>1. r = asked[1] /\ 1 \in DOMAIN asked
    BY <1>1 DEF IInv, Shapes
  <2>2. QED BY <2>1 DEF IInv, WaitInv
<1>5. ASSUME NEW x \in AnswerType, reply(x), x.kind # "accepted"
      PROVE  Underway => Underway'
  BY <1>1, <1>4, <1>5 DEF Underway
<1>6. \/ r.kind = "context"
      \/ r.kind = "insert"
      \/ r.kind = "chat"
      \/ r.kind = "airlock"
  BY <1>3 DEF RequestType, Waits
\* A response that changes nothing in the daemon.
<1>7. ASSUME NEW x \in AnswerType, reply(x), x.kind \notin {"accepted", "chat"},
             UNCHANGED <<queue, spent, daemon>>
      PROVE  IInv'
  <2>1. spent'.calm => spent.calm /\ OneRuns' /\ ToldInOrder'
    BY <1>1, <1>2, <1>5, <1>7, QuietStays
  <2>2. QED BY <1>1, <1>2, <1>7, <2>1, ServeStep
<1>8. CASE r.kind = "context"
  <2> DEFINE x == [kind |-> "context", open |-> daemon.open]
  <2>1. reply(x) /\ UNCHANGED <<queue, spent, daemon>>
    BY <1>8 DEF Serve
  <2>2. x \in AnswerType /\ x.kind = "context"
    BY <1>2 DEF AnswerType, DaemonType
  <2> HIDE DEF x
  <2>3. QED BY <1>7, <2>1, <2>2
<1>9. CASE r.kind = "insert"
  <2>1. PICK kind \in {"inserted", "error"} :
          reply([kind |-> kind]) /\ UNCHANGED <<queue, spent, daemon>>
    BY <1>9 DEF Serve
  <2> DEFINE x == [kind |-> kind]
  <2>2. x \in AnswerType /\ x.kind \in {"inserted", "error"}
    BY DEF AnswerType
  <2> HIDE DEF x
  <2>3. reply(x)
    BY <2>1 DEF x
  <2>4. QED BY <1>7, <2>1, <2>2, <2>3
<1>10. CASE r.kind = "chat"
  <2>1. CASE ~ daemon.open
    <3> DEFINE x == [kind |-> "error"]
    <3>1. reply(x) /\ UNCHANGED <<queue, spent, daemon>>
      BY <1>10, <2>1 DEF Serve
    <3>2. x \in AnswerType /\ x.kind = "error"
      BY DEF AnswerType
    <3> HIDE DEF x
    <3>3. QED BY <1>7, <3>1, <3>2
  <2>2. CASE daemon.open
    <3>1. PICK kind \in {"accepted", "chat"} :
            /\ reply([kind |-> kind, of |-> r.of]) /\ UNCHANGED <<queue, spent>>
            /\ daemon' = [daemon EXCEPT !.took = @ \cup {r.question},
                            !.chat[r.of] = IF kind = "chat" THEN "over" ELSE "running"]
      BY <1>10, <2>2 DEF Serve
    <3> DEFINE x == [kind |-> kind, of |-> r.of]
               state == IF kind = "chat" THEN "over" ELSE "running"
               chats == [daemon.chat EXCEPT ![r.of] = state]
    <3>2. x \in AnswerType /\ x.kind = kind /\ x.of = r.of /\ r.question \in Nat
      BY <1>3 DEF AnswerType, RequestType
    <3> HIDE DEF x
    <3>3. reply(x)
      BY <3>1 DEF x
    <3>4. /\ chats \in [Chats -> {"none", "running", "cancelled", "over"}]
          /\ \A c \in Chats : chats[c] = IF c = r.of THEN state ELSE daemon.chat[c]
      BY <1>2 DEF DaemonType
    <3> HIDE DEF chats
    <3>5. /\ daemon' = [daemon EXCEPT !.took = @ \cup {r.question}, !.chat = chats]
      BY <1>2, <3>1 DEF chats, DaemonType
    <3>6. /\ daemon' \in DaemonType /\ IsFiniteSet(daemon'.news) /\ daemon'.chat = chats
          /\ daemon'.took = daemon.took \cup {r.question}
      BY <1>2, <3>2, <3>4, <3>5 DEF DaemonType
    <3>7. spent'.calm => spent.calm /\ OneRuns' /\ ToldInOrder'
      <4> SUFFICES ASSUME spent.calm
                   PROVE  OneRuns' /\ ToldInOrder'
        BY <3>1
      <4>1. OneRuns /\ ToldInOrder /\ r.awaited /\ r.of = spent.chats
        <5>1. r = asked[1] /\ 1 \in DOMAIN asked
          BY <1>1 DEF IInv, Shapes
        <5>2. QED BY <1>10, <5>1 DEF IInv, QuietInv, Addressed
      <4>2. ~ Underway
        BY <1>4, <1>10, <4>1 DEF Underway, IInv, WaitInv
      <4>3. \A i \in DOMAIN queue : queue[i].kind \notin ChatEvents
        BY <4>1, <4>2 DEF ToldInOrder
      <4>4. LastWords \subseteq ChatEvents
        BY DEF LastWords, ChatEvents
      <4>5. ToldInOrder'
        BY <3>1, <4>1, <4>3, <4>4 DEF ToldInOrder
      <4>6. \A c \in Chats : daemon.chat[c] \notin {"running", "cancelled"}
        BY <4>1, <4>2 DEF OneRuns
      <4>7. kind = "accepted" => Underway'
        BY <3>2, <3>3, <4>1 DEF Underway
      <4>8. OneRuns'
        BY <3>1, <3>4, <3>6, <4>1, <4>6, <4>7 DEF OneRuns
      <4>9. QED BY <4>5, <4>8
    <3>8. daemon.took \subseteq daemon'.took /\ r.question \in daemon'.took
      BY <3>6
    <3>9. QED BY <1>1, <1>2, <1>10, <3>1, <3>2, <3>3, <3>6, <3>7, <3>8, ServeStep
  <2>3. QED BY <2>1, <2>2
<1>11. CASE r.kind = "airlock"
  <2> DEFINE x == [kind |-> "status", open |-> r.open]
  <2>1. reply(x)
    BY <1>11 DEF Serve
  <2>2. x \in AnswerType /\ x.kind = "status"
    BY <1>3 DEF AnswerType, RequestType
  <2> HIDE DEF x
  <2>3. CASE r.open
    <3>1. daemon' = Changes(TRUE) /\ UNCHANGED <<queue, spent>>
      BY <1>11, <2>3 DEF Serve
    <3>2. /\ daemon' \in DaemonType /\ IsFiniteSet(daemon'.news)
          /\ daemon'.chat = daemon.chat /\ daemon'.took = daemon.took
      BY <1>2, <3>1, Changed
    <3>3. spent'.calm => spent.calm /\ OneRuns' /\ ToldInOrder'
      BY <1>1, <1>2, <1>5, <2>1, <2>2, <3>1, <3>2, QuietStays
    <3>4. QED BY <1>1, <1>2, <2>1, <2>2, <3>1, <3>2, <3>3, ServeStep
  <2>4. CASE ~ r.open
    <3>1. PICK told \in SUBSET Running :
            /\ Cancels(told, Changes(FALSE))
            /\ spent' = [spent EXCEPT !.calm = @ /\ Running = {}]
      BY <1>11, <2>4 DEF Serve
    <3> DEFINE still == spent.calm /\ Running = {}
               next == Changes(FALSE)
    <3>2. PICK b \in BOOLEAN : /\ spent' = [spent EXCEPT !.calm = b]
                               /\ b => spent.calm /\ Running = {}
      <4>1. still \in BOOLEAN /\ spent' = [spent EXCEPT !.calm = still]
        BY <3>1
      <4>2. still => spent.calm /\ Running = {}
        OBVIOUS
      <4> HIDE DEF still
      <4>3. QED BY <4>1, <4>2, Zenon
    <3>3. spent' \in SpentType /\ spent'.chats = spent.chats
      BY <1>2, <3>2 DEF SpentType
    <3>4. spent'.calm = b
      BY <1>2, <3>2 DEF SpentType
    <3>5. /\ next \in DaemonType /\ IsFiniteSet(next.news)
          /\ next.chat = daemon.chat /\ next.took = daemon.took
      BY <1>2, Changed
    <3> HIDE DEF next
    <3>6. /\ daemon' \in DaemonType /\ IsFiniteSet(daemon'.news) /\ daemon'.took = daemon.took
          /\ queue' \in Seq(EventType) /\ Len(queue') <= QueueLength
          /\ Running = {} => queue' = queue /\ daemon'.chat = daemon.chat
      <4>1. Cancels(told, next)
        BY <3>1 DEF next
      <4>2. QED BY <1>2, <3>5, <4>1, Cancelled
    <3>7. spent'.calm => spent.calm /\ OneRuns' /\ ToldInOrder'
      <4> SUFFICES ASSUME spent'.calm
                   PROVE  spent.calm /\ OneRuns' /\ ToldInOrder'
        OBVIOUS
      <4>1. spent.calm /\ Running = {}
        BY <3>2, <3>4
      <4>2. QED BY <1>1, <1>2, <1>5, <2>1, <2>2, <3>3, <3>6, <4>1, QuietStays
    <3>8. QED BY <1>1, <1>2, <2>1, <2>2, <3>3, <3>6, <3>7, ServeStep
  <2>5. QED BY <2>3, <2>4
<1>12. QED BY <1>6, <1>8, <1>9, <1>10, <1>11

LEMMA OtherChangesKeeps ==
  ASSUME IInv, OtherChanges
  PROVE  IInv'
<1> DEFINE loud == daemon.open /\ Running # {}
<1>1. PICK told \in SUBSET Running :
        /\ UNCHANGED <<win, asked, answer>>
        /\ IF daemon.open THEN Cancels(told, Changes(FALSE))
           ELSE daemon' = Changes(TRUE) /\ UNCHANGED queue
  BY DEF OtherChanges
<1>2. /\ daemon \in DaemonType /\ IsFiniteSet(daemon.news) /\ spent \in SpentType
      /\ queue \in Seq(EventType) /\ Len(queue) <= QueueLength /\ Shapes
      /\ (spent.calm => OneRuns /\ ToldInOrder)
  BY DEF IInv, Shapes, QuietInv
<1>3. /\ spent' \in SpentType /\ spent'.chats = spent.chats
      /\ spent'.calm => spent.calm /\ ~ loud
  <2>1. Disturbs(loud)
    BY DEF OtherChanges
  <2> HIDE DEF loud
  <2>2. QED BY <1>2, <2>1, Disturbed
<1>4. \A open \in BOOLEAN :
        /\ Changes(open) \in DaemonType /\ IsFiniteSet(Changes(open).news)
        /\ Changes(open).chat = daemon.chat /\ Changes(open).took = daemon.took
  BY <1>2, Changed
<1>5. Underway => Underway'
  BY <1>1 DEF Underway
<1>6. CASE daemon.open
  <2> DEFINE next == Changes(FALSE)
  <2>1. Cancels(told, next) /\ next \in DaemonType /\ IsFiniteSet(next.news)
        /\ next.chat = daemon.chat /\ next.took = daemon.took
    BY <1>1, <1>4, <1>6
  <2> HIDE DEF next
  <2>2. /\ daemon' \in DaemonType /\ IsFiniteSet(daemon'.news) /\ daemon'.took = daemon.took
        /\ queue' \in Seq(EventType) /\ Len(queue') <= QueueLength
        /\ Running = {} => queue' = queue /\ daemon'.chat = daemon.chat
    BY <1>2, <2>1, Cancelled
  <2>3. spent'.calm => spent.calm /\ OneRuns' /\ ToldInOrder'
    BY <1>1, <1>2, <1>3, <1>5, <1>6, <2>2, QuietStays
  <2>4. QED BY <1>1, <1>3, <2>2, <2>3, DaemonStep
<1>7. CASE ~ daemon.open
  <2>1. daemon' = Changes(TRUE) /\ UNCHANGED queue
    BY <1>1, <1>7
  <2>2. /\ daemon' \in DaemonType /\ IsFiniteSet(daemon'.news) /\ daemon'.took = daemon.took
        /\ daemon'.chat = daemon.chat
    BY <1>4, <2>1
  <2>3. spent'.calm => spent.calm /\ OneRuns' /\ ToldInOrder'
    BY <1>1, <1>2, <1>3, <1>5, <2>1, <2>2, QuietStays
  <2>4. QED BY <1>1, <1>2, <1>3, <2>1, <2>2, <2>3, DaemonStep
<1>8. QED BY <1>6, <1>7

LEMMA EraseKeeps ==
  ASSUME IInv, Erase
  PROVE  IInv'
<1>1. PICK told \in SUBSET Running, everything \in BOOLEAN :
        /\ daemon' = [daemon EXCEPT !.chat = Cut(daemon)]
        /\ Tells([i \in 1..Cardinality(told) |-> Event("cancelled", 0)]
                   \o <<[Event("cleared", 0) EXCEPT !.everything = everything]>>, FALSE)
        /\ Disturbs(TRUE) /\ UNCHANGED <<win, asked, answer>>
  BY DEF Erase
<1>2. /\ daemon \in DaemonType /\ IsFiniteSet(daemon.news) /\ spent \in SpentType /\ Shapes
  BY DEF IInv, Shapes
<1>3. Cut(daemon) \in [Chats -> {"none", "running", "cancelled", "over"}]
  BY <1>2 DEF Cut, DaemonType
<1>4. daemon' \in DaemonType /\ IsFiniteSet(daemon'.news) /\ daemon'.took = daemon.took
  BY <1>1, <1>2, <1>3 DEF DaemonType
<1> DEFINE cancelled == [i \in 1..Cardinality(told) |-> Event("cancelled", 0)]
           cleared == <<[Event("cleared", 0) EXCEPT !.everything = everything]>>
<1>5. cancelled \in Seq(EventType) /\ cleared \in Seq(EventType)
  <2>1. IsFiniteSet(Chats) /\ told \subseteq Chats
    BY CoachWindowAssumption, FS_Interval DEF Chats, Running
  <2>2. Cardinality(told) \in Nat
    BY <2>1, FS_Subset, FS_CardinalityType
  <2>3. /\ Event("cancelled", 0) \in EventType
        /\ [Event("cleared", 0) EXCEPT !.everything = everything] \in EventType
    BY EventTyped DEF Kinds
  <2>4. QED BY <2>2, <2>3
<1>6. Tells(cancelled \o cleared, FALSE)
  BY <1>1
<1> HIDE DEF cancelled, cleared
<1>7. queue' \in Seq(EventType) /\ Len(queue') <= QueueLength
  <2> DEFINE events == cancelled \o cleared
  <2>1. events \in Seq(EventType)
    BY <1>5
  <2>2. Tells(events, FALSE)
    BY <1>6
  <2> HIDE DEF events
  <2>3. QED BY <1>2, <2>1, <2>2, Received
<1>8. spent' \in SpentType /\ spent'.chats = spent.chats /\ ~ spent'.calm
  BY <1>1, <1>2, Disturbed
<1>9. QED BY <1>1, <1>4, <1>7, <1>8, DaemonStep

\* Announcements and hints say nothing of an answer.
LEMMA ToldKeeps ==
  ASSUME IInv, SendHint \/ \E news \in daemon.news : Announce(news)
  PROVE  IInv'
<1>1. /\ daemon \in DaemonType /\ IsFiniteSet(daemon.news) /\ spent \in SpentType /\ Shapes
      /\ (spent.calm => OneRuns /\ ToldInOrder)
  BY DEF IInv, Shapes, QuietInv
<1>2. UNCHANGED <<win, asked, answer>>
  BY DEF SendHint, Announce
<1>3. /\ spent' \in SpentType /\ spent'.chats = spent.chats
      /\ spent'.calm => spent.calm
  BY <1>1, Disturbed DEF SendHint, Other, Announce
<1>4. /\ daemon' \in DaemonType /\ IsFiniteSet(daemon'.news) /\ daemon'.chat = daemon.chat
      /\ daemon'.took = daemon.took
  <2>1. CASE SendHint
    BY <1>1, <2>1 DEF SendHint
  <2>2. ASSUME NEW news \in daemon.news, Announce(news)
        PROVE  <1>4
    <3> DEFINE rest == daemon.news \ {news}
    <3>1. rest \in SUBSET [n : Nat, open : BOOLEAN] /\ IsFiniteSet(rest)
      BY <1>1, FS_Subset DEF DaemonType
    <3> HIDE DEF rest
    <3>2. daemon' = [daemon EXCEPT !.news = rest]
      BY <2>2 DEF Announce, rest
    <3>3. QED BY <1>1, <3>1, <3>2 DEF DaemonType
  <2>3. QED BY <2>1, <2>2
<1>5. \E e \in EventType : e.kind \in {"hint", "airlock"} /\ Tells(<<e>>, FALSE)
  <2>1. CASE SendHint
    <3>1. "hint" \in Kinds /\ 0 \in Nat /\ Tells(<<Event("hint", 0)>>, FALSE)
      BY <2>1 DEF SendHint, Kinds
    <3>2. QED BY <3>1, EventTyped
  <2>2. ASSUME NEW news \in daemon.news, Announce(news)
        PROVE  <1>5
    <3>1. news.open \in BOOLEAN
      BY <1>1 DEF DaemonType
    <3>2. Tells(<<[Event("airlock", 0) EXCEPT !.open = news.open]>>, FALSE)
      BY <2>2 DEF Announce
    <3> DEFINE e == [Event("airlock", 0) EXCEPT !.open = news.open]
    <3>3. e \in EventType /\ e.kind = "airlock"
      <4>1. Event("airlock", 0) \in EventType /\ Event("airlock", 0).kind = "airlock"
        BY DEF Event, EventType, Kinds
      <4>2. QED BY <3>1, <4>1 DEF EventType
    <3>4. Tells(<<e>>, FALSE)
      BY <3>2
    <3> HIDE DEF e
    <3>5. QED BY <3>3, <3>4
  <2>3. QED BY <2>1, <2>2
<1>6. PICK e \in EventType : e.kind \in {"hint", "airlock"} /\ Tells(<<e>>, FALSE)
  BY <1>5
<1>7. queue' \in Seq(EventType) /\ Len(queue') <= QueueLength
  BY <1>1, <1>6, ReceivedOne
<1>8. spent'.calm => spent.calm /\ OneRuns' /\ ToldInOrder'
  <2> SUFFICES ASSUME spent.calm
               PROVE  OneRuns' /\ ToldInOrder'
    BY <1>3
  <2>1. e.kind \notin {"cancelled", "cleared"} \cup ChatEvents \cup LastWords
    BY <1>6 DEF ChatEvents, LastWords
  <2>2. ToldInOrder'
    BY <1>1, <1>2, <1>3, <1>4, <1>6, <2>1, OrderIsKept
  <2>3. OneRuns'
    BY <1>1, <1>2, <1>3, <1>4 DEF OneRuns, Underway
  <2>4. QED BY <2>2, <2>3
<1>9. QED BY <1>2, <1>3, <1>4, <1>7, <1>8, DaemonStep

\* Only the answer of the last question streams.
LEMMA DeltaKeeps ==
  ASSUME IInv, NEW c \in Chats, Delta(c)
  PROVE  IInv'
<1> DEFINE e == Event("delta", c)
<1>1. /\ daemon \in DaemonType /\ IsFiniteSet(daemon.news) /\ spent \in SpentType /\ Shapes
      /\ (spent.calm => OneRuns /\ ToldInOrder)
  BY DEF IInv, Shapes, QuietInv
<1>2. /\ daemon.chat[c] \in {"running", "cancelled"} /\ Tells(<<e>>, FALSE)
      /\ UNCHANGED <<win, asked, answer, daemon, spent>>
  BY DEF Delta
<1>3. e \in EventType /\ e.kind = "delta" /\ e.of = c
  BY CoachWindowAssumption, EventTyped DEF Kinds, Chats
<1> HIDE DEF e
<1>4. queue' \in Seq(EventType) /\ Len(queue') <= QueueLength
  BY <1>1, <1>2, <1>3, ReceivedOne
<1>5. spent'.calm => spent.calm /\ OneRuns' /\ ToldInOrder'
  <2> SUFFICES ASSUME spent.calm
               PROVE  OneRuns' /\ ToldInOrder'
    BY <1>2
  <2>1. daemon.chat[c] = "running" /\ c = spent.chats /\ Underway
    BY <1>1, <1>2 DEF OneRuns
  <2>2. e.kind \notin {"cancelled", "cleared"} \cup LastWords
    BY <1>3 DEF LastWords
  <2>3. ToldInOrder'
    BY <1>1, <1>2, <1>3, <2>1, <2>2, OrderIsKept
  <2>4. OneRuns'
    BY <1>1, <1>2 DEF OneRuns, Underway
  <2>5. QED BY <2>3, <2>4
<1>6. QED BY <1>1, <1>2, <1>4, <1>5, DaemonStep

LEMMA EndKeeps ==
  ASSUME IInv, NEW c \in Chats, End(c)
  PROVE  IInv'
<1>1. /\ daemon \in DaemonType /\ IsFiniteSet(daemon.news) /\ spent \in SpentType /\ Shapes
      /\ (spent.calm => OneRuns /\ ToldInOrder)
      /\ queue \in Seq(EventType) /\ Len(queue) <= QueueLength
  BY DEF IInv, Shapes, QuietInv
<1>2. /\ daemon.chat[c] \in {"running", "cancelled"}
      /\ \/ \E kind \in {"done", "failed"} : Tells(<<Event(kind, c)>>, FALSE)
         \/ daemon.chat[c] = "cancelled" /\ UNCHANGED queue
      /\ daemon' = [daemon EXCEPT !.chat[c] = "over"]
      /\ UNCHANGED <<win, asked, answer, spent>>
  BY DEF End
<1> DEFINE chats == [daemon.chat EXCEPT ![c] = "over"]
<1>3. /\ chats \in [Chats -> {"none", "running", "cancelled", "over"}]
      /\ \A d \in Chats : chats[d] = IF d = c THEN "over" ELSE daemon.chat[d]
  BY <1>1 DEF DaemonType
<1>4. daemon' = [daemon EXCEPT !.chat = chats]
  BY <1>2 DEF chats
<1> HIDE DEF chats
<1>5. /\ daemon' \in DaemonType /\ IsFiniteSet(daemon'.news) /\ daemon'.chat = chats
      /\ daemon'.took = daemon.took
  BY <1>1, <1>3, <1>4 DEF DaemonType
<1>6. CASE daemon.chat[c] = "cancelled" /\ UNCHANGED queue
  <2>1. ~ spent.calm
    BY <1>1, <1>6 DEF OneRuns
  <2>2. QED BY <1>1, <1>2, <1>5, <1>6, <2>1, DaemonStep
<1>7. ASSUME NEW kind \in {"done", "failed"}, Tells(<<Event(kind, c)>>, FALSE)
      PROVE  IInv'
  <2> DEFINE e == Event(kind, c)
  <2>1. e \in EventType /\ e.kind \in LastWords /\ e.of = c
    BY CoachWindowAssumption, EventTyped DEF Kinds, Chats, LastWords
  <2>2. Tells(<<e>>, FALSE)
    BY <1>7
  <2> HIDE DEF e
  <2>3. queue' \in Seq(EventType) /\ Len(queue') <= QueueLength
    BY <1>1, <2>1, <2>2, ReceivedOne
  <2>4. spent'.calm => spent.calm /\ OneRuns' /\ ToldInOrder'
    <3> SUFFICES ASSUME spent.calm
                 PROVE  OneRuns' /\ ToldInOrder'
      BY <1>2
    <3>1. daemon.chat[c] = "running" /\ c = spent.chats /\ Underway
      BY <1>1, <1>2 DEF OneRuns
    <3>2. \A d \in Chats : daemon.chat[d] = "running" => d = c
      BY <1>1, <3>1 DEF OneRuns
    <3>3. \A d \in Chats : daemon'.chat[d] # "running"
      BY <1>3, <1>5, <3>2
    <3>4. e.kind \notin {"cancelled", "cleared"}
      BY <2>1 DEF LastWords
    <3>5. ToldInOrder'
      BY <1>1, <1>2, <2>1, <2>2, <3>1, <3>3, <3>4, OrderIsKept
    <3>6. OneRuns'
      BY <1>1, <1>3, <1>5, <3>3 DEF OneRuns
    <3>7. QED BY <3>5, <3>6
  <2>5. QED BY <1>1, <1>2, <1>5, <2>3, <2>4, DaemonStep
<1>8. QED BY <1>2, <1>6, <1>7

LEMMA LoseKeeps ==
  ASSUME IInv, LoseDaemon
  PROVE  IInv'
<1>1. /\ Disturbs(FALSE) /\ daemon' = [daemon EXCEPT !.up = FALSE] /\ asked' = <<>>
      /\ answer' = IF win.waiting # "none" /\ answer.kind = "none" THEN [kind |-> "closed"] ELSE answer
      /\ UNCHANGED <<win, queue>>
  BY DEF LoseDaemon, Other
<1>2. /\ daemon \in DaemonType /\ IsFiniteSet(daemon.news) /\ spent \in SpentType /\ Shapes
  BY DEF IInv, Shapes
<1>3. /\ spent' \in SpentType /\ spent'.chats = spent.chats /\ (spent'.calm => spent.calm)
  BY <1>1, <1>2, Disturbed
<1>4. /\ daemon' \in DaemonType /\ IsFiniteSet(daemon'.news) /\ daemon'.chat = daemon.chat
      /\ daemon'.took = daemon.took
  BY <1>1, <1>2 DEF DaemonType
<1>5. /\ answer' \in AnswerType
      /\ answer' = answer \/ (answer.kind = "none" /\ answer'.kind = "closed" /\ win.waiting # "none")
  BY <1>1, <1>2 DEF AnswerType, Shapes
<1>6. DOMAIN <<>> = {} /\ \A S : <<>> \in Seq(S)
  OBVIOUS
<1>7. Shapes'
  BY <1>1, <1>3, <1>4, <1>5, <1>6 DEF Shapes, IInv
<1>8. WaitInv'
  BY <1>1, <1>4, <1>5, <1>6 DEF WaitInv, IInv
<1>9. QuietInv'
  <2> SUFFICES ASSUME spent'.calm
               PROVE  OneRuns' /\ ToldInOrder' /\ Addressed' /\ Apart(win, spent.chats)'
    BY DEF QuietInv
  <2>1. OneRuns /\ ToldInOrder /\ Addressed /\ Apart(win, spent.chats)
    BY <1>3 DEF IInv, QuietInv
  <2>2. Underway => Underway'
    BY <1>1, <1>5 DEF Underway
  <2>3. OneRuns' /\ ToldInOrder'
    BY <1>1, <1>3, <1>4, <2>1, <2>2, QuietStays
  <2>4. Addressed'
    BY <1>1, <1>3, <1>5, <1>6, <2>1 DEF Addressed
  <2>5. QED BY <1>1, <1>3, <2>1, <2>3, <2>4 DEF Apart
<1>10. QED BY <1>7, <1>8, <1>9 DEF IInv

LEMMA StepHolds == IInv /\ [Next]_vars => IInv'
<1> SUFFICES ASSUME IInv, [Next]_vars PROVE IInv'
  OBVIOUS
<1>1. CASE Type \/ Submit \/ ToggleAirlock \/ RefreshContext \/ InsertSelected \/ Select \/ Quit
  BY <1>1, TypeKeeps, AskersKeep, SelectKeeps, QuitKeeps
<1>2. CASE HandleEvent \/ TakeAnswer \/ TimeOut
  BY <1>2, HandleKeeps, AnswerKeeps, TimeOutKeeps
<1>3. CASE Serve \/ OtherChanges \/ Erase \/ LoseDaemon
  BY <1>3, ServeKeeps, OtherChangesKeeps, EraseKeeps, LoseKeeps
<1>4. CASE SendHint \/ \E news \in daemon.news : Announce(news)
  BY <1>4, ToldKeeps
<1>5. ASSUME NEW c \in Chats, Delta(c) \/ End(c)
      PROVE  IInv'
  BY <1>5, DeltaKeeps, EndKeeps
<1>6. CASE UNCHANGED vars
  <2>1. /\ Shapes' /\ UNCHANGED <<win, queue, asked, answer, daemon, spent>>
    BY <1>6 DEF vars, IInv, Shapes
  <2>2. daemon' \in DaemonType /\ IsFiniteSet(daemon'.news) /\ queue' \in Seq(EventType)
        /\ Len(queue') <= QueueLength /\ spent' \in SpentType
    BY <2>1 DEF Shapes
  <2>3. spent'.calm => spent.calm /\ OneRuns' /\ ToldInOrder'
    BY <2>1 DEF IInv, QuietInv, OneRuns, ToldInOrder, Underway
  <2>4. QED BY <2>1, <2>2, <2>3, DaemonStep
<1>7. QED BY <1>1, <1>2, <1>3, <1>4, <1>5, <1>6 DEF Next

-----------------------------------------------------------------------------
(* The theorems                                                            *)

\* A handler waits for the question on the line, and one answer is under way at a time.
THEOREM OrderHolds == Spec => []IInv
BY InitHolds, StepHolds, PTL DEF Spec

\* The selection stays in the bounded list, and no message of the coach mixes two answers
\* as long as no response was late and no stream was cut.
THEOREM WindowStaysSound == Spec => []WindowIsSound
<1>1. IInv => WindowIsSound
  <2> SUFFICES ASSUME IInv PROVE WindowIsSound
    OBVIOUS
  <2>1. win.recs \in BoundedSeq(Commands, MaxRecs)
    <3>1. win.recs \in Seq(Commands) /\ Len(win.recs) \in 0..MaxRecs
      BY CoachWindowAssumption DEF IInv, Shapes, Window, Listed
    <3>2. win.recs \in [1..Len(win.recs) -> Commands]
      BY <3>1
    <3>3. [1..Len(win.recs) -> Commands] \in {[1..m -> Commands] : m \in 0..MaxRecs}
      BY <3>1, Zenon
    <3>4. QED BY <3>2, <3>3, Zenon DEF BoundedSeq, SeqOf
  <2>2. TypeOK
    BY <2>1 DEF IInv, Shapes, Listed, TypeOK
  <2>3. ASSUME spent.calm, NEW i \in DOMAIN win.messages, win.messages[i].who = "coach"
        PROVE  Cardinality(win.messages[i].of) <= 1
    <3> DEFINE of == win.messages[i].of
    <3>1. \A a, b \in of : a = b
      BY <2>3 DEF IInv, QuietInv, Apart
    <3> HIDE DEF of
    <3>2. CASE of = {}
      <4>1. Cardinality(of) = 0
        BY <3>2, FS_EmptySet
      <4>2. QED BY <4>1 DEF of
    <3>3. CASE of # {}
      <4>1. PICK a \in of : of = {a}
        BY <3>1, <3>3
      <4>2. Cardinality(of) = 1
        BY <4>1, FS_Singleton
      <4>3. QED BY <4>2 DEF of
    <3>4. QED BY <3>2, <3>3
  <2>4. AnswersAreNotMixed
    BY <2>3 DEF AnswersAreNotMixed
  <2>5. QED BY <2>2, <2>4 DEF WindowIsSound
<1>2. QED BY <1>1, OrderHolds, PTL

\* A question leaves the line only when the daemon took it, the user edits the line or the
\* session's data was cleared.
THEOREM QuestionStays == Spec => QuestionIsKept
<1> DEFINE Kept == \/ spent'.questions > spent.questions
                   \/ win.input \in daemon.took
                   \/ win'.messages = <<>>
<1>1. ASSUME IInv, [Next]_vars, win.input # win'.input
      PROVE  Kept
  <2>1. win \in Window /\ Listed(win) /\ answer \in AnswerType /\ spent \in SpentType
    BY <1>1 DEF IInv, Shapes
  <2>2. CASE Type
    BY <2>1, <2>2 DEF Type, SpentType
  <2>3. CASE Submit \/ ToggleAirlock \/ RefreshContext \/ InsertSelected
    <3>1. PICK kind \in Waits : win' = [win EXCEPT !.waiting = kind]
      BY <2>3 DEF Submit, ToggleAirlock, RefreshContext, InsertSelected, Ask, Waits
    <3>2. QED BY <1>1, <2>1, <3>1 DEF Window
  <2>4. CASE Select \/ Quit
    BY <1>1, <2>1, <2>4 DEF Select, Quit, Window
  <2>5. CASE HandleEvent
    <3>1. queue # <<>> /\ win' \in Handled(win, Head(queue))
      BY <2>5 DEF HandleEvent
    <3>2. Head(queue) \in EventType
      BY <1>1, <3>1 DEF IInv, Shapes
    <3>3. win'.input = win.input \/ win'.messages = <<>>
      BY <2>1, <3>1, <3>2, EventHandled
    <3>4. QED BY <1>1, <3>3
  <2>6. CASE TakeAnswer
    <3>1. PICK v \in After(win, answer) :
            win.waiting # "none" /\ win' = [v EXCEPT !.waiting = "none"]
      BY <2>6 DEF TakeAnswer
    <3>2. /\ v \in Window
          /\ v.input = win.input \/ (win.waiting = "chat" /\ answer.kind \in {"accepted", "chat"})
      BY <1>1, <2>1, <3>1, ResponseHandled DEF IInv, WaitInv
    <3>3. win'.input = v.input
      BY <3>1, <3>2 DEF Window
    <3>4. QED BY <1>1, <3>2, <3>3 DEF IInv, WaitInv
  <2>7. CASE TimeOut
    <3>1. PICK v \in After(win, NoAnswer) :
            win.waiting # "none" /\ win' = [v EXCEPT !.waiting = "none"]
      BY <2>7 DEF TimeOut
    <3>2. NoAnswer \in AnswerType /\ NoAnswer.kind = "none"
      BY DEF NoAnswer, AnswerType
    <3>3. v \in Window /\ v.input = win.input
      BY <1>1, <2>1, <3>1, <3>2, ResponseHandled DEF IInv, WaitInv
    <3>4. win'.input = v.input
      BY <3>1, <3>3 DEF Window
    <3>5. QED BY <1>1, <3>3, <3>4
  <2>8. CASE \/ Serve \/ OtherChanges \/ Erase \/ SendHint \/ LoseDaemon
             \/ \E news \in daemon.news : Announce(news)
             \/ \E c \in Chats : Delta(c) \/ End(c)
             \/ UNCHANGED vars
    BY <1>1, <2>8 DEF Serve, OtherChanges, Erase, SendHint, LoseDaemon, Announce, Delta, End, vars
  <2>9. QED BY <1>1, <2>2, <2>3, <2>4, <2>5, <2>6, <2>7, <2>8 DEF Next
<1>2. IInv /\ [Next]_vars => [win.input # win'.input => Kept]_vars
  BY <1>1
<1>3. QED BY <1>2, OrderHolds, PTL DEF Spec, QuestionIsKept
=============================================================================

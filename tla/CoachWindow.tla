------------------------------ MODULE CoachWindow ------------------------------
(***************************************************************************)
(* The Coach window (crates/aicoach-tui): one loop that handles a key, an  *)
(* event of the daemon or a tick at a time, and inside a handler waits for *)
(* one response, at most for IPC_REQUEST_TIMEOUT.  Responses and events    *)
(* come over one socket, but the events wait in a bounded broadcast queue  *)
(* while a handler waits, so the window sees them out of order.  An event  *)
(* names its session only: the window does not look at its request.        *)
(***************************************************************************)
EXTENDS Naturals, FiniteSets, SequencesExt

CONSTANTS Commands,     \* commands that answers and hints suggest
          MaxRecs,      \* recommendations kept (12 in the code)
          QueueLength,  \* events the broadcast queue holds (256 in the code)
          MaxQuestions, \* bound: questions typed
          MaxChats,     \* bound: questions submitted
          MaxAll        \* bound: questions submitted, changes of the airlock, erasures,
                        \* hints, late responses, insertions and lost connections

ASSUME CoachWindowAssumption ==
  /\ {MaxRecs, QueueLength} \subseteq Nat \ {0}
  /\ {MaxQuestions, MaxChats, MaxAll} \subseteq Nat

VARIABLES win,    \* the App, with what its handler waits for
          queue,  \* events not yet received
          asked,  \* requests the daemon has not served
          answer, \* the response that arrived, if any
          daemon, \* the airlock, the chats and the announcements still to be made
          lost,   \* ghost: events that were dropped, not sent or cut off
          spent   \* bounds, and whether no response was late and no stream was cut

vars == <<win, queue, asked, answer, daemon, lost, spent>>

Chats == 1..MaxChats
NoQuestion == 0
NoAnswer == [kind |-> "none"]

Init ==
  /\ win = [messages |-> <<>>, input |-> NoQuestion, streaming |-> FALSE, open |-> TRUE,
            recs |-> <<>>, selected |-> 0, waiting |-> "none", quit |-> FALSE]
  /\ queue = <<>> /\ asked = <<>> /\ answer = NoAnswer /\ lost = FALSE
  /\ daemon \in [open : BOOLEAN, up : {TRUE}, chat : {[c \in Chats |-> "none"]},
                  took : {{}}, news : {{}}]
  /\ spent = [questions |-> 0, chats |-> 0, other |-> 0, calm |-> TRUE]

Disturbs(really) ==
  /\ spent.other + spent.chats < MaxAll
  /\ spent' = [spent EXCEPT !.other = @ + 1, !.calm = @ /\ ~really]
Other == Disturbs(FALSE)

-----------------------------------------------------------------------------
(* What the handlers do to the window.                                       *)

Message(who, of) == [who |-> who, of |-> of]

\* Mutant: the list is cut without moving the selection back.
RecommendPastTheEnd(w, command) ==
  IF command \in Range(w.recs) THEN w
  ELSE LET more == Append(w.recs, command)
       IN  [w EXCEPT !.recs = IF Len(more) > MaxRecs THEN Tail(more) ELSE more,
                     !.selected = Len(more)]

\* add_recommendation: a new command is the last and the selected one.
Recommend(w, command) ==
  IF command \in Range(w.recs) THEN w
  ELSE LET more == Append(w.recs, command)
           kept == IF Len(more) > MaxRecs THEN Tail(more) ELSE more
       IN  [w EXCEPT !.recs = kept, !.selected = Len(kept)]

\* push_assistant_delta: to the last message if it is the coach's.
PushDelta(w, c) ==
  IF w.messages # <<>> /\ Last(w.messages).who = "coach"
  THEN [w EXCEPT !.messages[Len(w.messages)].of = @ \cup {c}]
  ELSE [w EXCEPT !.messages = Append(@, Message("coach", {c}))]

\* finish_stream: the commands of the last message, if it is the coach's.
FinishStream(w) ==
  LET over == [w EXCEPT !.streaming = FALSE]
  IN  {over} \cup (IF w.messages # <<>> /\ Last(w.messages).who = "coach"
                   THEN {Recommend(over, c) : c \in Commands} ELSE {})

\* Mutant: a cancelled request is announced and nothing else.
CancelledIsShown(w) == w

RequestCancelled(w) == [w EXCEPT !.streaming = FALSE]

DataCleared(w, everything) ==
  [w EXCEPT !.messages = <<>>, !.streaming = FALSE, !.recs = <<>>, !.selected = 0,
            !.input = IF everything THEN NoQuestion ELSE @]

\* handle_ipc_event
Handled(w, e) ==
  CASE e.kind = "delta" -> {PushDelta(w, e.of)}
    [] e.kind = "done" -> FinishStream(w)
    [] e.kind = "failed" -> FinishStream(PushDelta(w, e.of))
    [] e.kind = "cancelled" -> {RequestCancelled(w)}
    [] e.kind = "hint" -> {[h EXCEPT !.messages = Append(@, Message("system", {}))] :
                             h \in {w} \cup {Recommend(w, c) : c \in Commands}}
    [] e.kind = "cleared" -> {DataCleared(w, e.everything)}
    [] e.kind = "airlock" -> {[w EXCEPT !.open = e.open]}

\* submit_chat, once the daemon took the question: it is shown, and its answer
\* streams or is there.
Taken(w) ==
  [w EXCEPT !.input = NoQuestion,
            !.messages = @ \o <<Message("user", {w.input}), Message("coach", {})>>]
Accepted(w) == [Taken(w) EXCEPT !.streaming = TRUE]
Answered(w, c) == FinishStream([Taken(w) EXCEPT !.messages[Len(w.messages) + 2].of = {c}])

\* Mutant: the context that was fetched is shown, the airlock as it was.
RefreshedWithoutAirlock(w, r) == w

\* refresh_context
Refreshed(w, r) == IF r.kind = "context" THEN [w EXCEPT !.open = r.open] ELSE w

\* What a handler makes of its response; an error or a time-out leaves the window
\* as it is, save that an insertion that cannot be asked for ends the window.
After(w, r) ==
  CASE w.waiting = "chat" -> IF r.kind = "accepted" THEN {Accepted(w)}
                             ELSE IF r.kind = "chat" THEN Answered(w, r.of) ELSE {w}
    [] w.waiting = "airlock" -> {IF r.kind = "status" THEN [w EXCEPT !.open = r.open] ELSE w}
    [] w.waiting = "context" -> {Refreshed(w, r)}
    [] w.waiting = "insert" ->
         {[w EXCEPT !.quit = r.kind \in {"none", "closed"}]}
           \cup (IF r.kind = "inserted" THEN {[w EXCEPT !.quit = TRUE]} ELSE {})

-----------------------------------------------------------------------------
(* The loop.                                                                 *)

Idle == win.waiting = "none" /\ ~win.quit

Ask(w, kind, request) ==
  /\ win' = [w EXCEPT !.waiting = kind]
  /\ IF daemon.up
     THEN asked' = Append(asked, request) /\ answer' = NoAnswer
     ELSE answer' = [kind |-> "closed"] /\ UNCHANGED asked
  /\ UNCHANGED <<queue, daemon, lost>>

Request(kind) ==
  [kind |-> kind, of |-> spent.chats + 1, question |-> win.input, open |-> ~win.open,
   awaited |-> TRUE]

\* Keys that edit the line.
Type ==
  /\ Idle /\ spent.questions < MaxQuestions
  /\ spent' = [spent EXCEPT !.questions = @ + 1]
  /\ win' = [win EXCEPT !.input = spent.questions + 1]
  /\ UNCHANGED <<queue, asked, answer, daemon, lost>>

\* Mutant: another question while an answer streams.
MayAskAnyTime == win.input # NoQuestion /\ win.open

\* pending_chat_message
MayAsk == win.input # NoQuestion /\ ~win.streaming /\ win.open

NewChat ==
  /\ spent.chats < MaxChats /\ spent.other + spent.chats < MaxAll
  /\ spent' = [spent EXCEPT !.chats = @ + 1]

\* Mutant: the line is emptied when the question is sent.
SubmitAndEmpty ==
  /\ Idle /\ MayAsk /\ NewChat
  /\ Ask([win EXCEPT !.input = NoQuestion], "chat", Request("chat"))

Submit == Idle /\ MayAsk /\ NewChat /\ Ask(win, "chat", Request("chat"))

ToggleAirlock ==
  Idle /\ Other /\ Ask(win, "airlock", Request("airlock"))

RefreshContext == Idle /\ Ask(win, "context", Request("context")) /\ UNCHANGED spent

InsertSelected ==
  /\ Idle /\ win.selected # 0 /\ Other
  /\ Ask(win, "insert", Request("insert"))

\* select_previous and select_next
Select ==
  /\ Idle /\ win.recs # <<>>
  /\ win' \in {[win EXCEPT !.selected = IF @ > 1 THEN @ - 1 ELSE 1],
               [win EXCEPT !.selected = IF @ < Len(win.recs) THEN @ + 1 ELSE @]}
  /\ UNCHANGED <<queue, asked, answer, daemon, lost, spent>>

\* Escape, Ctrl-C
Quit ==
  /\ Idle /\ win' = [win EXCEPT !.quit = TRUE]
  /\ UNCHANGED <<queue, asked, answer, daemon, lost, spent>>

HandleEvent ==
  /\ Idle /\ queue # <<>>
  /\ win' \in Handled(win, Head(queue)) /\ queue' = Tail(queue)
  /\ UNCHANGED <<asked, answer, daemon, lost, spent>>

TakeAnswer ==
  /\ win.waiting # "none" /\ answer.kind # "none"
  /\ \E after \in After(win, answer) : win' = [after EXCEPT !.waiting = "none"]
  /\ answer' = NoAnswer
  /\ UNCHANGED <<queue, asked, daemon, lost, spent>>

\* The response comes too late: nobody will wait for it.
TimeOut ==
  /\ win.waiting # "none" /\ answer.kind = "none" /\ Disturbs(TRUE)
  /\ \E after \in After(win, NoAnswer) : win' = [after EXCEPT !.waiting = "none"]
  /\ asked' = [i \in DOMAIN asked |-> [asked[i] EXCEPT !.awaited = FALSE]]
  /\ UNCHANGED <<queue, answer, daemon, lost>>

-----------------------------------------------------------------------------
(* The daemon, as far as this window sees it.                                *)

Event(kind, c) == [kind |-> kind, of |-> c, open |-> FALSE, everything |-> FALSE]

\* Events are received; the oldest give way in a full queue.
Tells(events, untold) ==
  LET all == queue \o events
      over == IF Len(all) > QueueLength THEN Len(all) - QueueLength ELSE 0
  IN  /\ queue' = SubSeq(all, over + 1, Len(all))
      /\ lost' = (lost \/ untold \/ over > 0)

Running == {c \in Chats : daemon.chat[c] = "running"}
Cut(d) == [c \in Chats |-> IF d.chat[c] = "running" THEN "cancelled" ELSE d.chat[c]]

\* Cancelling tells the window, unless a stream has no route yet.
Cancels(told, next) ==
  /\ daemon' = [next EXCEPT !.chat = Cut(next)]
  /\ Tells([i \in 1..Cardinality(told) |-> Event("cancelled", 0)], told # Running)

Changes(open) ==
  [daemon EXCEPT !.open = open,
                 !.news = IF open = daemon.open THEN @
                          ELSE @ \cup {[n |-> Cardinality(@), open |-> open]}]

Serve ==
  /\ asked # <<>> /\ asked' = Tail(asked) /\ UNCHANGED win
  /\ LET r == Head(asked)
         reply(x) == answer' = IF r.awaited THEN x ELSE answer
         answers(x) == reply(x) /\ UNCHANGED <<queue, lost, spent>>
     IN  CASE r.kind = "context" ->
                answers([kind |-> "context", open |-> daemon.open]) /\ UNCHANGED daemon
           [] r.kind = "insert" ->
                /\ \E kind \in {"inserted", "error"} : answers([kind |-> kind])
                /\ UNCHANGED daemon
           [] r.kind = "chat" ->
                IF ~daemon.open THEN answers([kind |-> "error"]) /\ UNCHANGED daemon
                ELSE \E kind \in {"accepted", "chat"} :
                       /\ answers([kind |-> kind, of |-> r.of])
                       /\ daemon' = [daemon EXCEPT !.took = @ \cup {r.question},
                            !.chat[r.of] = IF kind = "chat" THEN "over" ELSE "running"]
           [] r.kind = "airlock" ->
                /\ reply([kind |-> "status", open |-> r.open])
                /\ IF r.open THEN daemon' = Changes(TRUE) /\ UNCHANGED <<queue, lost, spent>>
                   ELSE \E told \in SUBSET Running :
                          /\ Cancels(told, Changes(FALSE))
                          /\ spent' = [spent EXCEPT !.calm = @ /\ Running = {}]

\* Another client seals or opens the session.
OtherChanges ==
  /\ daemon.up /\ Disturbs(daemon.open /\ Running # {})
  /\ \E told \in SUBSET Running :
       /\ daemon.open \/ told = {}
       /\ IF daemon.open THEN Cancels(told, Changes(FALSE))
          ELSE daemon' = Changes(TRUE) /\ UNCHANGED <<queue, lost>>
  /\ UNCHANGED <<win, asked, answer>>

\* A change is announced by the task that made it, in any order with others.
Announce(news) ==
  /\ daemon.up /\ news \in daemon.news
  /\ Tells(<<[Event("airlock", 0) EXCEPT !.open = news.open]>>, FALSE)
  /\ daemon' = [daemon EXCEPT !.news = @ \ {news}]
  /\ UNCHANGED <<win, asked, answer, spent>>

Erase ==
  /\ daemon.up /\ Disturbs(TRUE)
  /\ \E told \in SUBSET Running, everything \in BOOLEAN :
       /\ daemon' = [daemon EXCEPT !.chat = Cut(daemon)]
       /\ Tells([i \in 1..Cardinality(told) |-> Event("cancelled", 0)]
                  \o <<[Event("cleared", 0) EXCEPT !.everything = everything]>>, FALSE)
  /\ UNCHANGED <<win, asked, answer>>

Delta(c) ==
  /\ daemon.up /\ daemon.chat[c] \in {"running", "cancelled"}
  /\ Tells(<<Event("delta", c)>>, FALSE)
  /\ UNCHANGED <<win, asked, answer, daemon, spent>>

\* A stream ends; one that was cancelled usually says nothing more.
End(c) ==
  /\ daemon.up /\ daemon.chat[c] \in {"running", "cancelled"}
  /\ \/ \E kind \in {"done", "failed"} :
          /\ kind = "failed" => daemon.chat[c] = "running"
          /\ Tells(<<Event(kind, c)>>, FALSE)
     \/ daemon.chat[c] = "cancelled" /\ UNCHANGED <<queue, lost>>
  /\ daemon' = [daemon EXCEPT !.chat[c] = "over"]
  /\ UNCHANGED <<win, asked, answer, spent>>

SendHint ==
  /\ daemon.up /\ Other
  /\ Tells(<<Event("hint", 0)>>, FALSE)
  /\ UNCHANGED <<win, asked, answer, daemon>>

LoseDaemon ==
  /\ daemon.up /\ Other
  /\ daemon' = [daemon EXCEPT !.up = FALSE] /\ asked' = <<>> /\ lost' = TRUE
  /\ answer' = IF win.waiting # "none" /\ answer.kind = "none" THEN [kind |-> "closed"] ELSE answer
  /\ UNCHANGED <<win, queue>>

-----------------------------------------------------------------------------
Next ==
  \/ Type \/ Submit \/ ToggleAirlock \/ RefreshContext \/ InsertSelected \/ Select \/ Quit
  \/ HandleEvent \/ TakeAnswer \/ TimeOut
  \/ Serve \/ OtherChanges \/ Erase \/ SendHint \/ LoseDaemon
  \/ \E news \in daemon.news : Announce(news)
  \/ \E c \in Chats : Delta(c) \/ End(c)

Spec == Init /\ [][Next]_vars

\* The loop goes on, and takes any of its sources in the long run (select!); the
\* context is fetched at every tick; the daemon answers, and its streams end.
FairSpec ==
  /\ Spec
  /\ SF_vars(HandleEvent) /\ WF_vars(TakeAnswer) /\ WF_vars(RefreshContext)
  /\ WF_vars(Serve) /\ WF_vars(\E news \in daemon.news : Announce(news))
  /\ \A c \in Chats : WF_vars(End(c))

-----------------------------------------------------------------------------
\* What the insert and copy keys act on is shown: a bounded list, with a selection
\* in it exactly when there is something to select.
TypeOK ==
  /\ win.recs \in BoundedSeq(Commands, MaxRecs)
  /\ IF win.recs = <<>> THEN win.selected = 0 ELSE win.selected \in DOMAIN win.recs
  /\ Len(queue) <= QueueLength

\* A typed question leaves the line only when the daemon took it, when the user
\* edits it or when the session's data was cleared; a refusal, an error or a
\* late response keeps it.
QuestionIsKept ==
  [][win.input # win'.input =>
       \/ spent'.questions > spent.questions
       \/ win.input \in daemon.took
       \/ win'.messages = <<>>]_vars

\* One answer at a time: as long as no response was late and no stream was cut,
\* no message of the coach holds pieces of two answers.
AnswersAreNotMixed ==
  spent.calm =>
    \A i \in DOMAIN win.messages :
      win.messages[i].who = "coach" => Cardinality(win.messages[i].of) <= 1

\* The window's state is sound, the selection in the list and its messages apart.
WindowIsSound == TypeOK /\ AnswersAreNotMixed

\* The window catches up with the daemon, however events were ordered, announced or
\* lost: it comes to show the airlock as it is, as long as it runs and the connection
\* lives, and takes questions again, unless an event was lost on the way.
WindowCatchesUp ==
  /\ <>(win.quit \/ ~daemon.up) \/ <>[](win.open = daemon.open)
  /\ <>[](win.streaming /\ ~win.quit) => <>lost
=============================================================================

------------------------------ MODULE ShellPlugin ------------------------------
(***************************************************************************)
(* The Zsh integration (shell/aicoach.zsh): the requests a shell has under *)
(* way, what it does to the line being edited when frames arrive, and what *)
(* it shows.  The daemon answers when it likes, several frames may be read *)
(* at once and a frame may be cut, and the connection may go at any time.  *)
(*                                                                         *)
(* A line is its text with the cursor.  Of ZLE it is assumed that a change *)
(* the user makes is redrawn before the socket is looked at, and that it   *)
(* looks at the socket only while a line is edited.                        *)
(***************************************************************************)
EXTENDS Naturals, FiniteSets, SequencesExt

CONSTANTS Texts,       \* lines a user types
          Suggested,   \* a command the daemon completes or inserts
          MaxRequests, \* bound: requests ever made
          MaxFrames,   \* bound: frames under way
          MaxInserts,  \* bound: commands the coach window inserts
          MaxTyping,   \* bound: changes the user makes
          MaxBreaks    \* bound: connections that end

VARIABLES plugin,  \* the integration's globals, see PluginInit
          wire,   \* frames the daemon sent on this connection
          half,   \* a frame of which the first part was read
          owed,   \* requests the daemon has yet to answer
          spent   \* bounds: requests, inserts, typing and breaks so far

pluginVars == <<plugin, wire, half, owed, spent>>

NoText == "nothing"                 \* the empty line
NoRequest == [id |-> 0, base |-> NoText]
NoChat == [id |-> 0, text |-> {}]   \* of its text, whose pieces it holds

PluginInit ==
  /\ plugin = [fd |-> FALSE, editing |-> TRUE, line |-> NoText, typed |-> FALSE,
              completion |-> NoRequest, lens |-> NoRequest, chat |-> NoChat,
              status |-> 0, inserts |-> <<>>, clobbered |-> FALSE]
  /\ wire = <<>> /\ half = "none" /\ owed = {}
  /\ spent = [requests |-> 0, inserts |-> 0, typing |-> 0, breaks |-> 0]

-----------------------------------------------------------------------------
(* Requests that end.                                                        *)

\* _aicoach_request_status_end
StatusEnd(sh, id) == IF id # 0 /\ sh.status = id THEN [sh EXCEPT !.status = 0] ELSE sh

\* _aicoach_completion_finish and _aicoach_risk_lens_finish
CompletionFinish(sh, id) ==
  IF id # 0 /\ id = sh.completion.id
  THEN StatusEnd([sh EXCEPT !.completion = NoRequest], id) ELSE sh
LensFinish(sh, id) ==
  IF id # 0 /\ id = sh.lens.id THEN StatusEnd([sh EXCEPT !.lens = NoRequest], id) ELSE sh

\* _aicoach_chat_stream_reset: the display is put back through a widget, which
\* runs only while a line is edited.
ChatReset(sh) ==
  LET shown == IF sh.editing /\ sh.chat.id # 0 THEN StatusEnd(sh, sh.chat.id) ELSE sh
  IN  [shown EXCEPT !.chat = NoChat]

\* Mutant: the requests outlive their connection.
CloseSocketOnly(sh) == [sh EXCEPT !.fd = FALSE]

\* _aicoach_close
Close(sh) ==
  [ChatReset([sh EXCEPT !.completion = NoRequest, !.lens = NoRequest])
     EXCEPT !.fd = FALSE, !.status = 0]

-----------------------------------------------------------------------------
(* Frames that arrive: _aicoach_handle_line.                                 *)

\* _aicoach_apply_completion_widget, a widget too.  The text replaces the line or
\* the line it was asked for; the line of now is not looked at.
ApplyCompletion(sh, base) ==
  IF ~sh.editing THEN sh
  ELSE [sh EXCEPT !.line = Suggested, !.typed = FALSE,
                  !.clobbered = @ \/ (sh.line # base /\ sh.typed)]

\* COMPLETE: only for the completion the shell waits for.  A suggestion, and a
\* text that is refused, is shown and not applied.
OnComplete(sh, f) ==
  IF f.id # sh.completion.id THEN sh
  ELSE LET ended == CompletionFinish(sh, f.id)
       IN  IF f.apply THEN ApplyCompletion(ended, sh.completion.base) ELSE ended

\* _aicoach_apply_pending_inserts: the last one becomes the line.
ApplyInserts(sh) ==
  IF sh.inserts = <<>> THEN sh
  ELSE [sh EXCEPT !.line = Last(sh.inserts), !.typed = FALSE, !.inserts = <<>>]

\* INSERT waits while no line is edited (AICOACH_DEFER_INSERT).
OnInsert(sh, f) ==
  LET queued == [sh EXCEPT !.inserts = Append(@, f.text)]
  IN  IF sh.editing THEN ApplyInserts(queued) ELSE queued

\* ANSWER_DELTA: text is collected and, from its first rendering on, also shown
\* as the message below the line.
OnDelta(sh, f) ==
  IF sh.chat.id = 0 \/ f.id # sh.chat.id THEN sh
  ELSE LET told == [sh EXCEPT !.chat.text = @ \cup {f.id}]
       IN  IF sh.editing THEN [told EXCEPT !.status = f.id] ELSE told

\* ANSWER, ANSWER_DONE: the whole answer is printed; the stream is over.
OnAnswer(sh, f) == IF f.id # sh.chat.id /\ sh.chat.id # 0 THEN sh ELSE ChatReset(sh)
OnDone(sh, f) == IF sh.chat.id = 0 \/ f.id # sh.chat.id THEN sh ELSE ChatReset(sh)

\* ERROR, CANCELLED: whatever request has this id ends.
OnEnd(sh, f) ==
  LET ended == LensFinish(CompletionFinish(sh, f.id), f.id)
  IN  IF sh.chat.id # 0 /\ f.id = sh.chat.id THEN ChatReset(ended) ELSE ended

HandleLine(sh, f) ==
  CASE f.kind = "COMPLETE" -> OnComplete(sh, f)
    [] f.kind = "LENS" -> LensFinish(sh, f.id)
    [] f.kind = "ANSWER" -> OnAnswer(sh, f)
    [] f.kind = "ANSWER_DELTA" -> OnDelta(sh, f)
    [] f.kind = "ANSWER_DONE" -> OnDone(sh, f)
    [] f.kind = "INSERT" -> OnInsert(sh, f)
    [] f.kind = "END" -> OnEnd(sh, f)

\* What the start of a frame and another whole one amount to: nothing, unless
\* the start is that of an INSERT, cut in its text.
Garbled == [kind |-> "INSERT", id |-> 0, text |-> "garbled", apply |-> FALSE]
Joined(frames) ==
  CASE half = "stale" -> Tail(frames)
    [] half = "stale_insert" -> <<Garbled>> \o Tail(frames)
    [] OTHER -> frames

\* What stays in AICOACH_READ_BUFFER when the connection ends.
Stale(rest) ==
  IF half = "own" THEN IF Head(rest).kind = "INSERT" THEN "stale_insert" ELSE "stale" ELSE half

\* _aicoach_socket_ready: n whole frames of one read, and perhaps the start of the
\* next.
Reads(n, cut) == n <= Len(wire) /\ (cut => n < Len(wire))
Handled(sh, frames) ==
  LET after[k \in 0..Len(frames)] ==
        IF k = 0 THEN sh ELSE HandleLine(after[k - 1], frames[k])
  IN  after[Len(frames)]
Read(sh, n) == Handled(sh, Joined(SubSeq(wire, 1, n)))
LeftOver(n, cut) ==
  /\ wire' = SubSeq(wire, n + 1, Len(wire))
  /\ half' = IF n = 0 THEN IF cut /\ half = "none" THEN "own" ELSE half
             ELSE IF cut THEN "own" ELSE "none"

SocketReady(n, cut) ==
  /\ plugin.fd /\ plugin.editing /\ Reads(n, cut) /\ (n > 0 \/ cut)
  /\ plugin' = IF n = 0 THEN plugin ELSE Read(plugin, n)
  /\ LeftOver(n, cut)
  /\ UNCHANGED <<owed, spent>>

\* ... or the connection ended.
SocketEnds ==
  /\ plugin.fd /\ plugin.editing /\ spent.breaks < MaxBreaks
  /\ spent' = [spent EXCEPT !.breaks = @ + 1]
  /\ plugin' = Close(plugin)
  /\ wire' = <<>> /\ owed' = {} /\ half' = Stale(wire)

-----------------------------------------------------------------------------
(* What the shell sends.                                                     *)

\* The globals after an action, whether its message was sent, and what it did to the
\* connection.
Outcome(sh, said, connection) == [globals |-> sh, said |-> said, connection |-> connection]
Still(sh) == {Outcome(sh, "sent", "kept")}

\* _aicoach_send and _aicoach_connect.
Send(sh) ==
  {Outcome([sh EXCEPT !.fd = TRUE], "sent", "kept")}
    \cup (IF spent.breaks < MaxBreaks
          THEN {Outcome(Close(sh), "unsent", "lost")}
                 \cup (IF sh.fd THEN {} ELSE {Outcome(sh, "unsent", "kept")})
          ELSE {})

\* One after another; what was lost stays lost.
Then(outcomes, F(_)) ==
  UNION {{Outcome(b.globals, b.said, IF a.connection = "lost" THEN "lost" ELSE b.connection) :
            b \in F(a)} : a \in outcomes}

Becomes(after, request) ==
  LET lost == after.connection = "lost"
  IN  /\ plugin' = after.globals
      /\ wire' = IF lost THEN <<>> ELSE wire
      /\ half' = IF lost THEN Stale(wire) ELSE half
      /\ owed' = (IF lost THEN {} ELSE owed)
                   \cup (IF after.said = "sent" THEN request ELSE {})

\* Mutant: typing on does not end the completion.
RedrawLensOnly(sh) ==
  Still(IF sh.lens.id # 0 /\ sh.line # sh.lens.base THEN LensFinish(sh, sh.lens.id) ELSE sh)

\* _aicoach_line_pre_redraw: typing on makes a request stale.
Redraw(sh) ==
  LET lensed(c) == IF c.lens.id # 0 /\ c.line # c.lens.base
                   THEN LensFinish(c, c.lens.id) ELSE c
  IN  IF sh.completion.id # 0 /\ sh.line # sh.completion.base
      THEN Then(Send(sh), LAMBDA a : Still(lensed(CompletionFinish(a.globals, sh.completion.id))))
      ELSE Still(lensed(sh))

Spend(what) ==
  spent' = [spent EXCEPT ![what] = @ + 1,
                         !.breaks = IF plugin.fd /\ ~plugin'.fd THEN @ + 1 ELSE @]

Type(text) ==
  /\ plugin.editing /\ text # plugin.line /\ spent.typing < MaxTyping
  /\ \E after \in Redraw([plugin EXCEPT !.line = text, !.typed = TRUE]) : Becomes(after, {})
  /\ Spend("typing")

NewId == spent.requests + 1

\* _aicoach_complete_widget
CompleteWidget ==
  /\ plugin.editing /\ spent.requests < MaxRequests
  /\ LET old == plugin.completion.id
         cancelled == IF old = 0 THEN Still(plugin)
                      ELSE Then(Send(plugin), LAMBDA a : Still(CompletionFinish(a.globals, old)))
         asks(sh) == [sh EXCEPT !.completion = [id |-> NewId, base |-> sh.line]]
         told(b) == IF b.said = "sent" THEN [b.globals EXCEPT !.status = NewId]
                    ELSE CompletionFinish(b.globals, NewId)
         asked == Then(cancelled, LAMBDA a :
                    {Outcome(told(b), b.said, b.connection) : b \in Send(asks(a.globals))})
     IN  \E after \in asked : Becomes(after, {[id |-> NewId, kind |-> "completion"]})
  /\ Spend("requests")

\* _aicoach_risk_lens_widget
RiskLensWidget ==
  /\ plugin.editing /\ plugin.line # NoText /\ spent.requests < MaxRequests
  /\ LET asks == [LensFinish(plugin, plugin.lens.id)
                    EXCEPT !.lens = [id |-> NewId, base |-> plugin.line]]
         told(b) == IF b.said = "sent" THEN [b.globals EXCEPT !.status = NewId]
                    ELSE LensFinish(b.globals, NewId)
     IN  \E after \in {Outcome(told(b), b.said, b.connection) : b \in Send(asks)} :
           Becomes(after, {[id |-> NewId, kind |-> "lens"]})
  /\ Spend("requests")

\* Mutant: the answer of the chat before is kept.
BeginChatBeside(sh) == [sh EXCEPT !.chat.id = NewId]

\* _aicoach_chat_widget, up to its request: the chat before is over.
BeginChat(sh) == [ChatReset(sh) EXCEPT !.chat = [NoChat EXCEPT !.id = NewId]]

\* ... the line is the question, and is taken only when it was sent.
ChatWidget ==
  /\ plugin.editing /\ plugin.line # NoText /\ spent.requests < MaxRequests
  /\ LET cancelled == IF plugin.chat.id = 0 THEN Still(plugin) ELSE Send(plugin)
         told(b) == IF b.said = "sent"
                    THEN [StatusEnd(b.globals, NewId) EXCEPT !.line = NoText, !.typed = FALSE]
                    ELSE ChatReset(b.globals)
         asked == Then(cancelled, LAMBDA a :
                    {Outcome(told(b), b.said, b.connection) : b \in Send(BeginChat(a.globals))})
     IN  \E sent \in asked : \E after \in Then({sent}, LAMBDA a : Redraw(a.globals)) :
           Becomes(after, IF sent.said = "sent" /\ after.globals.chat.id = NewId
                          THEN {[id |-> NewId, kind |-> "chat"]} ELSE {})
  /\ Spend("requests")

\* _aicoach_preexec: the line is accepted and runs.
Preexec ==
  /\ plugin.editing /\ spent.typing < MaxTyping
  /\ \E after \in Send([plugin EXCEPT !.editing = FALSE, !.line = NoText, !.typed = FALSE]) :
       Becomes(after, {})
  /\ Spend("typing")

\* _aicoach_precmd reads what waits, before there is a line, and reports the
\* command; _aicoach_line_init starts a line with what was inserted meanwhile.
PromptAgain(n, cut) ==
  /\ ~plugin.editing
  /\ IF plugin.fd THEN Reads(n, cut) ELSE n = 0 /\ ~cut
  /\ LET drained == IF n = 0 THEN plugin ELSE Read(plugin, n)
         line(sh) == ApplyInserts([sh EXCEPT !.editing = TRUE])
         reported == Then(Send(drained), LAMBDA a :
                      {Outcome(line(b.globals), b.said, b.connection) : b \in Send(a.globals)})
     IN  \E after \in Then(reported, LAMBDA a : Redraw(a.globals)) :
           /\ plugin' = after.globals
           /\ IF after.connection = "lost"
              THEN wire' = <<>> /\ owed' = {} /\ half' = Stale(wire)
              ELSE LeftOver(n, cut) /\ UNCHANGED owed
  /\ spent' = [spent EXCEPT !.breaks = IF plugin.fd /\ ~plugin'.fd THEN @ + 1 ELSE @]

\* A newer integration is sourced, or the shell exits: the socket is closed.
CloseSocket ==
  /\ plugin.fd /\ ~plugin.editing /\ spent.breaks < MaxBreaks
  /\ spent' = [spent EXCEPT !.breaks = @ + 1]
  /\ plugin' = Close(plugin)
  /\ wire' = <<>> /\ owed' = {} /\ half' = Stale(wire)

-----------------------------------------------------------------------------
(* The daemon.                                                               *)

Frame(kind, id) == [kind |-> kind, id |-> id, text |-> NoText, apply |-> FALSE]

\* A request is answered, in pieces when it is a chat, or ends without answer.
Answer(r) ==
  /\ Len(wire) < MaxFrames
  /\ \E last \in {"COMPLETE", "LENS", "ANSWER", "ANSWER_DONE", "END"} :
       /\ last = "COMPLETE" => r.kind = "completion"
       /\ last = "LENS" => r.kind = "lens"
       /\ last \in {"ANSWER", "ANSWER_DONE"} => r.kind = "chat"
       /\ \E apply \in BOOLEAN :
            /\ apply => last = "COMPLETE"
            /\ wire' = Append(wire, [Frame(last, r.id) EXCEPT !.apply = apply])
  /\ owed' = owed \ {r}
  /\ UNCHANGED <<plugin, half, spent>>

AnswerPart(r) ==
  /\ r.kind = "chat" /\ Len(wire) < MaxFrames
  /\ wire' = Append(wire, Frame("ANSWER_DELTA", r.id))
  /\ UNCHANGED <<plugin, half, owed, spent>>

Insert ==
  /\ plugin.fd /\ Len(wire) < MaxFrames /\ spent.inserts < MaxInserts
  /\ spent' = [spent EXCEPT !.inserts = @ + 1]
  /\ wire' = Append(wire, [Frame("INSERT", 0) EXCEPT !.text = Suggested])
  /\ UNCHANGED <<plugin, half, owed>>

PluginNext ==
  \/ \E n \in 0..MaxFrames, cut \in BOOLEAN : SocketReady(n, cut) \/ PromptAgain(n, cut)
  \/ \E text \in Texts : Type(text)
  \/ \E r \in owed : Answer(r) \/ AnswerPart(r)
  \/ SocketEnds \/ CompleteWidget \/ RiskLensWidget \/ ChatWidget
  \/ Preexec \/ CloseSocket \/ Insert

PluginSpec == PluginInit /\ [][PluginNext]_pluginVars

-----------------------------------------------------------------------------
\* A completion never takes away what the user typed after asking for it,
\* however late it comes and whatever was asked for, run or inserted since.
TypingIsKept == ~plugin.clobbered

\* A shell without a connection waits for nothing and says so: whatever it had
\* asked for is over, and no message promises an answer.
NobodyWaitsInVain ==
  ~plugin.fd => /\ plugin.completion = NoRequest /\ plugin.lens = NoRequest
                /\ plugin.chat = NoChat /\ plugin.status = 0

\* The text collected for a chat is that of this chat, also after chats that
\* were cancelled, cut or replaced.
AnswerIsOfItsChat == plugin.chat.text \subseteq {plugin.chat.id}

\* No request of the shell waits for an answer that can no longer come, and the
\* answer that is shown to a question of the chat is its own.
QuestionsGetTheirAnswers == NobodyWaitsInVain /\ AnswerIsOfItsChat
=============================================================================

------------------------------- MODULE ZshFrames -------------------------------
(***************************************************************************)
(* The line protocol between the shell plug-in (shell/aicoach.zsh) and the *)
(* daemon (crates/aicoach-ipc zsh.rs, wire.rs): frames are lines of fields *)
(* that tabs separate, and each side escapes the text of its fields and    *)
(* reads the other's with code of its own.  A field is found by position.  *)
(*                                                                         *)
(* A text is a sequence of units: reserved characters, hexadecimal digits  *)
(* and whatever else; an id, a number or a word of the protocol is one     *)
(* unit, named for the field.  What requests and answers do is in          *)
(* ShellPlugin and ProviderRequests.                                       *)
(***************************************************************************)
EXTENDS Naturals, SequencesExt

CONSTANTS Texts,     \* per frame of a behaviour: the texts tried in a field of it
          Following, \* bound: verbs and kinds of the frames after the first
          Cuts,      \* bound: lengths of what a read returns, beside all there is
          Variables  \* shell variables of the snapshot, on the allow list

VARIABLES up,      \* what the shell wrote and the daemon has not read
          down,    \* what the daemon wrote and the shell has not read
          partial, \* the shell's read buffer
          open,    \* the connection
          made,    \* requests the shell made
          took,    \* requests the daemon understood
          said,    \* messages the daemon sent
          shown    \* messages the plug-in understood

vars == <<up, down, partial, open, made, took, said, shown>>

Init ==
  /\ up = <<>> /\ down = <<>> /\ partial = <<>> /\ open = TRUE
  /\ made = <<>> /\ took = <<>> /\ said = <<>> /\ shown = <<>>

Invalid == [body |-> "invalid"]

-----------------------------------------------------------------------------
(* Text.                                                                     *)

Code == [ch \in {"%", "tab", "nl", "cr", "nul"} |->
           CASE ch = "%" -> <<"2", "5">> [] ch = "tab" -> <<"0", "9">> [] ch = "nl" -> <<"0", "A">>
             [] ch = "cr" -> <<"0", "D">> [] ch = "nul" -> <<"0", "0">>]
HexDigits == {"0", "2", "5", "9", "A", "D"}
Escape(ch) == <<"%">> \o Code[ch]

\* The first occurrences of a pattern give way, from the left; what took their
\* place is not looked at again.
Replaced(text, pattern, by) ==
  LET Step(acc, ch) ==
        LET window == Append(acc.window, ch)
        IN  IF Len(window) < Len(pattern) THEN [acc EXCEPT !.window = window]
            ELSE IF window = pattern THEN [done |-> acc.done \o by, window |-> <<>>]
            ELSE [done |-> Append(acc.done, Head(window)), window |-> Tail(window)]
      end == FoldLeft(Step, [done |-> <<>>, window |-> <<>>], text)
  IN  end.done \o end.window

\* Pieces of a text between occurrences of a unit.
Split(text, separator) ==
  FoldLeft(LAMBDA pieces, ch : IF ch = separator THEN Append(pieces, <<>>)
                               ELSE [pieces EXCEPT ![Len(pieces)] = Append(@, ch)],
           <<<<>>>>, text)

Joined(fields) == Tail(FlattenSeq([i \in DOMAIN fields |-> <<"tab">> \o fields[i]]))

\* percent_encode: character by character.
PercentEncode(text) ==
  FlattenSeq([i \in DOMAIN text |-> IF text[i] \in DOMAIN Code THEN Escape(text[i]) ELSE <<text[i]>>])

\* percent_decode: a reserved character, or an escape that is cut or no number, is
\* refused.
PercentDecode(raw) ==
  LET Char(digits) == IF \E ch \in DOMAIN Code : Code[ch] = digits
                      THEN CHOOSE ch \in DOMAIN Code : Code[ch] = digits ELSE "byte"
      Step(acc, ch) ==
        CASE ~acc.ok -> acc
          [] acc.escape = <<>> /\ ch = "%" -> [acc EXCEPT !.escape = <<ch>>]
          [] acc.escape = <<>> /\ ch # "%" ->
               [acc EXCEPT !.text = Append(@, ch), !.ok = ch \notin DOMAIN Code]
          [] OTHER ->
               IF ch \notin HexDigits THEN [acc EXCEPT !.ok = FALSE]
               ELSE IF Len(acc.escape) = 1 THEN [acc EXCEPT !.escape = Append(@, ch)]
               ELSE [acc EXCEPT !.text = Append(@, Char(<<acc.escape[2], ch>>)), !.escape = <<>>]
      end == FoldLeft(Step, [ok |-> TRUE, text |-> <<>>, escape |-> <<>>], raw)
  IN  [ok |-> end.ok /\ end.escape = <<>>, text |-> end.text]

Substituted(text, order) == FoldLeft(LAMBDA t, p : Replaced(t, p[1], p[2]), text, order)
Escapes(chars) == [i \in DOMAIN chars |-> <<<<chars[i]>>, Escape(chars[i])>>]
Unescapes(chars) == [i \in DOMAIN chars |-> <<Escape(chars[i]), <<chars[i]>>>>]

\* Mutant: percent is escaped after the others.
EncodePercentLast(text) == Substituted(text, Escapes(<<"tab", "cr", "nl", "%">>))

\* _aicoach_encode and _aicoach_decode: one substitution after the other.  NUL is
\* neither escaped nor restored.
Encode(text) == Substituted(text, Escapes(<<"%", "tab", "cr", "nl">>))

\* Mutant: percent is restored before the others.
DecodePercentFirst(raw) == Substituted(raw, Unescapes(<<"%", "nl", "cr", "tab">>))

Decode(raw) == Substituted(raw, Unescapes(<<"nl", "cr", "tab", "%">>))

-----------------------------------------------------------------------------
(* Variables of the shell, one to a line.                                    *)

Controls == {"tab", "nl", "cr", "nul"}

\* Mutant: the values are taken as they are.
SnapshotAsIs(env) == FlattenSeq([i \in DOMAIN env |-> <<env[i].key, "=">> \o env[i].value \o <<"nl">>])

\* _aicoach_environment_snapshot: line ends become blanks, other controls go.
Snapshot(env) ==
  LET Plain(value) ==
        SelectSeq(Replaced(Replaced(value, <<"nl">>, <<"_">>), <<"cr">>, <<"_">>),
                  LAMBDA ch : ch \notin Controls)
  IN  FlattenSeq([i \in DOMAIN env |-> <<env[i].key, "=">> \o Plain(env[i].value) \o <<"nl">>])

\* sanitize_shell_environment
Sanitized(env) ==
  [key \in DOMAIN env \cap Variables |-> SelectSeq(env[key], LAMBDA ch : ch \notin Controls)]

\* decode_environment: of lines with one key the last counts.
DecodeEnvironment(text) ==
  LET lines == SelectSeq(Split(text, "nl"), LAMBDA l : Contains(l, "="))
      At(l)  == SelectInSeq(l, LAMBDA ch : ch = "=")
      Key(l) == IF At(l) = 2 THEN l[1] ELSE "other"
      Last1(key) == lines[SelectLastInSeq(lines, LAMBDA l : Key(l) = key)]
  IN  Sanitized([key \in {Key(lines[i]) : i \in DOMAIN lines} |->
                   SubSeq(Last1(key), At(Last1(key)) + 1, Len(Last1(key)))])

-----------------------------------------------------------------------------
(* Requests: the fields of a verb, as the plug-in writes them.               *)

ShellSays ==
  {<<"REGISTER", <<"session", "tty", "number", "cwd", "terminal", "environment">>, {}>>,
   <<"PREEXEC", <<"session", "id", "cwd", "text", "number">>, {}>>,
   <<"FINISH", <<"session", "id", "exit", "cwd", "number", "environment">>, {}>>,
   <<"FOCUS", <<"session", "tty">>, {}>>, <<"CANCEL", <<"session", "id">>, {}>>,
   <<"COMPLETE", <<"session", "id", "number", "cwd", "text">>, {}>>,
   <<"CHAT", <<"session", "id", "cwd", "buffer", "text">>, {"buffer"}>>,
   <<"LENS", <<"session", "id", "cwd", "text">>, {}>>, <<"DISCONNECT", <<"session">>, {}>>}

\* Older plug-ins and scripts leave out what may be left out, and know other verbs.
OthersSay ==
  {<<"REGISTER", <<"session", "tty", "number", "cwd">>, {}>>,
   <<"REGISTER", <<"session", "tty", "number", "cwd", "terminal">>, {"session"}>>,
   <<"FINISH", <<"session", "id", "exit", "cwd", "number">>, {}>>,
   <<"CONTEXT", <<"session">>, {}>>, <<"CONTEXT", <<"session", "id", "number">>, {"number"}>>,
   <<"INSERT", <<"session", "unread", "text">>, {"unread"}>>,
   <<"PING", <<>>, {}>>, <<"PING", <<"session", "id">>, {"session", "id"}>>,
   <<"SHUTDOWN", <<>>, {}>>, <<"SHUTDOWN", <<"session", "text">>, {"session"}>>}

Escaped == {"cwd", "text", "terminal", "environment"}

\* A field that is neither empty nor the one a text is tried in holds its own name.
Value(n, holds) ==
  IF n = "environment" THEN <<[key |-> "LANG", value |-> holds], [key |-> "TERM", value |-> <<"v">>]>>
  ELSE holds

Filled(frame, tried, text) ==
  [n \in ToSet(frame[2]) |->
     Value(n, IF n = tried THEN text ELSE IF n \in frame[3] THEN <<>> ELSE <<n>>)]

\* Every request, with each text in each of its escaped fields.
Requests(texts) ==
  {[verb |-> frame[1], names |-> frame[2], values |-> Filled(frame, tried, text)] :
     frame \in ShellSays \cup OthersSay, tried \in Escaped, text \in texts}

RequestLine(r) ==
  LET Field(n) == CASE n = "environment" -> Encode(Snapshot(r.values[n]))
                    [] n \in Escaped \ {"environment"} -> Encode(r.values[n])
                    [] OTHER -> r.values[n]
  IN  Joined(<<<<"ZSH">>, <<r.verb>>>> \o [i \in DOMAIN r.names |-> Field(r.names[i])])

\* decode_fields: the fields a verb takes, how many of them there may be, and which
\* may be empty.
DaemonTakes(verb) ==
  CASE verb = "REGISTER" ->
         [names |-> <<"session", "tty", "number", "cwd", "terminal", "environment">>,
          counts |-> 4..6, empty |-> {"session"}]
    [] verb = "PREEXEC" ->
         [names |-> <<"session", "id", "cwd", "text", "number">>, counts |-> {5}, empty |-> {}]
    [] verb = "FINISH" ->
         [names |-> <<"session", "id", "exit", "cwd", "number", "environment">>,
          counts |-> {5, 6}, empty |-> {}]
    [] verb = "COMPLETE" ->
         [names |-> <<"session", "id", "number", "cwd", "text">>, counts |-> {5}, empty |-> {}]
    [] verb = "LENS" ->
         [names |-> <<"session", "id", "cwd", "text">>, counts |-> {4}, empty |-> {}]
    [] verb = "CHAT" ->
         [names |-> <<"session", "id", "cwd", "buffer", "text">>, counts |-> {5}, empty |-> {}]
    [] OTHER -> [counts |-> {}]

DaemonTakesToo(verb) ==
  CASE verb = "CANCEL" -> [names |-> <<"session", "id">>, counts |-> {2}, empty |-> {}]
    [] verb = "FOCUS" -> [names |-> <<"session", "tty">>, counts |-> {2}, empty |-> {}]
    [] verb = "CONTEXT" ->
         [names |-> <<"session", "id", "number">>, counts |-> {1, 3}, empty |-> {"number"}]
    [] verb = "INSERT" ->
         [names |-> <<"session", "unread", "text">>, counts |-> {3}, empty |-> {}]
    [] verb = "DISCONNECT" -> [names |-> <<"session">>, counts |-> {1}, empty |-> {}]
    [] verb = "PING" ->
         [names |-> <<"session", "id">>, counts |-> 0..2, empty |-> {"session", "id"}]
    [] verb = "SHUTDOWN" ->
         [names |-> <<"session", "text">>, counts |-> Nat, empty |-> {"session"}]
    [] OTHER -> DaemonTakes(verb)

\* Ids, numbers and the exit code are parsed; the session of REGISTER, PING and SHUTDOWN
\* and some others may be empty.
Parses(takes, n, value) ==
  n \in {"session", "id", "number", "exit"} => value = <<n>> \/ (value = <<>> /\ n \in takes.empty)

DecodeFields(verb, fields) ==
  LET takes == DaemonTakesToo(verb)
      At(n) == CHOOSE i \in DOMAIN fields : takes.names[i] = n
      names == {takes.names[i] : i \in DOMAIN fields}
  IN  IF Len(fields) \notin takes.counts THEN Invalid
      ELSE IF \E i \in DOMAIN fields : ~Parses(takes, takes.names[i], fields[i]) THEN Invalid
      ELSE [body |-> verb,
            fields |-> [n \in names |-> IF n = "environment" THEN DecodeEnvironment(fields[At(n)])
                                        ELSE fields[At(n)]]]

\* decode_incoming and decode_request
DecodeRequest(line) ==
  LET raw == Split(line, "tab")
      fields == [i \in 1..Len(raw) - 2 |-> PercentDecode(raw[i + 2])]
  IN  IF Len(raw) < 2 \/ raw[1] # <<"ZSH">> \/ Len(raw[2]) # 1 THEN Invalid
      ELSE IF \E i \in DOMAIN fields : ~fields[i].ok THEN Invalid
      ELSE DecodeFields(raw[2][1], [i \in DOMAIN fields |-> fields[i].text])

-----------------------------------------------------------------------------
(* Messages: encode_message and completion_fields.                           *)

ResponseFields ==
  {<<"ERROR", <<"session", "id", "code", "text", "flag">>>>, <<"WELCOME", <<"id", "number", "text">>>>,
   <<"REGISTERED", <<"session", "id">>>>, <<"OK", <<"session", "id">>>>,
   <<"COMPLETE", <<"session", "id", "operation", "cursor", "command", "text">>>>,
   <<"LENS", <<"session", "id", "level", "text">>>>, <<"ANSWER", <<"session", "id", "text">>>>,
   <<"CONTEXT", <<"session", "id", "text">>>>, <<"AIRLOCK", <<"session", "id", "flag", "number">>>>,
   <<"CHECKPOINT", <<"session", "id", "text">>>>, <<"DATA", <<"session", "id", "text">>>>,
   <<"PONG", <<>>>>, <<"SHUTDOWN", <<"id">>>>}

EventFields ==
  {<<"HINT", <<"session", "id", "level", "text", "command">>>>,
   <<"COMPLETE", <<"session", "id", "operation", "cursor", "command", "text">>>>,
   <<"ANSWER_DELTA", <<"session", "id", "text">>>>, <<"ANSWER_DONE", <<"session", "id">>>>,
   <<"ERROR", <<"session", "id", "code", "text", "flag">>>>,
   <<"INSERT", <<"session", "command", "level", "coverage", "flag">>>>,
   <<"CANCELLED", <<"session", "id">>>>, <<"DATA_CLEARED", <<"session", "scope">>>>,
   <<"AIRLOCK", <<"session", "id", "flag", "number">>>>,
   <<"PRIVACY_RECEIPT", <<"session", "id", "purpose", "outcome", "chars", "items", "number", "flag", "time">>>>,
   <<"CLOSED", <<"session">>>>}

MessageLine(m) ==
  Joined(<<<<m.kind>>>> \o [i \in DOMAIN m.names |-> PercentEncode(m.values[m.names[i]])])

\* A message is for the shell's session, for none, or for another.
Messages(texts) ==
  {[kind |-> f[1], names |-> f[2],
    values |-> [n \in ToSet(f[2]) |-> IF n = tried THEN text ELSE IF n = "session" THEN session ELSE <<n>>]] :
     f \in ResponseFields \cup EventFields, tried \in {"text", "command"}, text \in texts,
     session \in {<<"session">>, <<>>, <<"another">>}}

\* _aicoach_handle_line: where the plug-in looks for what it shows or compares.
ShellTakes ==
  [HINT |-> [level |-> 4, text |-> 5, command |-> 6],
   COMPLETE |-> [id |-> 3, operation |-> 4, cursor |-> 5, command |-> 6, text |-> 7],
   LENS |-> [id |-> 3, level |-> 4, text |-> 5], ANSWER |-> [id |-> 3, text |-> 4],
   ANSWER_DELTA |-> [id |-> 3, text |-> 4], ANSWER_DONE |-> [id |-> 3],
   INSERT |-> [command |-> 3, level |-> 4, coverage |-> 5, flag |-> 6],
   ERROR |-> [id |-> 3, text |-> 5], CANCELLED |-> [id |-> 3]]

\* What the plug-in makes of a line: nothing, if it is for another session or of a
\* kind it does not know.  An error without a message shows its code.
HandleLine(line) ==
  LET fields == Split(line, "tab")
      Field(i) == IF i \in DOMAIN fields THEN fields[i] ELSE <<>>
      kind == fields[1][1]
      takes == ShellTakes[kind]
      Taken(n) == IF kind = "ERROR" /\ n = "text" /\ Field(5) = <<>> THEN Field(4) ELSE Field(takes[n])
  IN  IF Field(2) \notin {<<>>, <<"session">>} \/ fields[1] = <<>> \/ kind \notin DOMAIN ShellTakes
      THEN <<>>
      ELSE <<[kind |-> kind,
              fields |-> [n \in DOMAIN takes |-> IF n \in {"text", "command"} THEN Decode(Taken(n))
                                                 ELSE Taken(n)]]>>

-----------------------------------------------------------------------------
(* The connection.                                                           *)

Turn == Len(made) + Len(said) + 1
MayGoOn == open /\ Turn \in DOMAIN Texts

ShellWrites ==
  /\ MayGoOn
  /\ \E r \in Requests(Texts[Turn]) :
       /\ Turn > 1 => r.verb \in Following
       /\ made' = Append(made, r) /\ up' = up \o RequestLine(r) \o <<"nl">>
  /\ UNCHANGED <<down, partial, open, took, said, shown>>

DaemonWrites ==
  /\ MayGoOn
  /\ \E m \in Messages(Texts[Turn]) :
       /\ Turn > 1 => m.kind \in Following
       /\ said' = Append(said, m) /\ down' = down \o MessageLine(m) \o <<"nl">>
  /\ UNCHANGED <<up, partial, open, made, took, shown>>

FirstLine(wire) == Split(wire, "nl")[1]
Trimmed(line) == IF line # <<>> /\ Last(line) = "cr" THEN Front(line) ELSE line

\* read_bounded_line and the loop of handle_connection: what cannot be decoded ends the
\* connection.
DaemonReads ==
  /\ open /\ Contains(up, "nl")
  /\ up' = SubSeq(up, Len(FirstLine(up)) + 2, Len(up))
  /\ LET request == DecodeRequest(Trimmed(FirstLine(up)))
     IN  IF request = Invalid THEN open' = FALSE /\ UNCHANGED took
         ELSE took' = Append(took, request) /\ UNCHANGED open
  /\ UNCHANGED <<down, partial, made, said, shown>>

\* Mutant: what was read is handled, ended or not.
LinesOfChunk(buffer) ==
  LET lines == Split(buffer, "nl") IN [lines |-> SelectSeq(lines, LAMBDA l : l # <<>>), rest |-> <<>>]

\* _aicoach_socket_ready: the lines that have ended, and what stays in the buffer.
LinesOf(buffer) ==
  LET lines == Split(buffer, "nl")
  IN  [lines |-> SelectSeq(Front(lines), LAMBDA l : l # <<>>), rest |-> Last(lines)]

ShellReads ==
  /\ down # <<>> /\ \E n \in {Len(down)} \cup {k \in Cuts : k < Len(down)} :
       LET read == LinesOf(partial \o SubSeq(down, 1, n))
       IN  /\ down' = SubSeq(down, n + 1, Len(down)) /\ partial' = read.rest
           /\ shown' = shown \o FlattenSeq([i \in DOMAIN read.lines |-> HandleLine(read.lines[i])])
  /\ UNCHANGED <<up, open, made, took, said>>

Next == ShellWrites \/ DaemonWrites \/ DaemonReads \/ ShellReads

Spec == Init /\ [][Next]_vars

-----------------------------------------------------------------------------
HasNul(r) == \E n \in DOMAIN r.values : n \in Escaped \ {"environment"} /\ Contains(r.values[n], "nul")

\* What a request says, in the terms of the daemon: of the variables, what is no control.
Meant(r) ==
  [body |-> r.verb,
   fields |-> [n \in DOMAIN r.values |->
     IF n # "environment" THEN r.values[n]
     ELSE [key \in Variables |->
             LET sent == CHOOSE v \in ToSet(r.values[n]) : v.key = key
             IN  SelectSeq([i \in DOMAIN sent.value |-> IF sent.value[i] \in {"nl", "cr"} THEN "_" ELSE sent.value[i]],
                           LAMBDA ch : ch \notin Controls)]]]

Known == SelectSeq(said, LAMBDA m : m.kind \in DOMAIN ShellTakes /\ m.values["session"] # <<"another">>)

\* What a message says to the plug-in, which shows a NUL by its escape.
Understood(m) ==
  LET Plain(text) == Replaced(text, <<"nul">>, Escape("nul"))
  IN  [kind |-> m.kind,
       fields |-> [n \in DOMAIN ShellTakes[m.kind] |->
         IF m.kind = "ERROR" /\ n = "text" /\ m.values[n] = <<>> THEN m.values["code"]
         ELSE IF n \in {"text", "command"} THEN Plain(m.values[n]) ELSE m.values[n]]]

\* What the shell asks is what the daemon is asked, and what the daemon says is what
\* the plug-in hears, one frame each and in order, whatever the texts hold and however
\* the stream is cut.  A text with a NUL is refused, and the connection with it.
FramesKeepTheirMeaning ==
  /\ \A i \in DOMAIN took : took[i] = Meant(made[i])
  /\ open /\ up = <<>> => Len(took) = Len(made)
  /\ ~open => Len(took) < Len(made) /\ HasNul(made[Len(took) + 1])
  /\ \A i \in DOMAIN shown : shown[i] = Understood(Known[i])
  /\ down = <<>> => partial = <<>> /\ Len(shown) = Len(Known)
=============================================================================

---------------------------- MODULE CommandProposals ----------------------------
(***************************************************************************)
(* What reaches the command line without the user typing it: completions   *)
(* of the provider, which the daemon reviews (server.rs review_completion) *)
(* and explains as a patch (core command_patch.rs), suggestions of the     *)
(* local analyzer, and commands that other clients insert.  One shell; its *)
(* line is the one the completion was asked for (ShellPlugin has the rest).*)
(*                                                                         *)
(* A text is a sequence of characters; what matters of a character is      *)
(* whether it is a blank or a control.  Some words make a line dangerous.  *)
(***************************************************************************)
EXTENDS Naturals, FiniteSets, SequencesExt

CONSTANTS Lines,      \* what the user types
          Commands,   \* what the provider and the analyzer send
          Inserted,   \* what other clients send
          Dangers,    \* words on which the daemon's rules fire
          ShellDangers, \* those the shell knows as well
          MaxTokens,  \* MAX_LCS_TOKENS
          MaxLine,    \* bound: lines completions are asked for
          MaxInserts  \* bound: insertions under way

Blank == "_"
Control == "c"
Given == Lines \cup Commands \cup Inserted
Chars == (UNION {ToSet(t) : t \in Given}) \cup {Blank}

ASSUME ProposalsAssumption == Given \subseteq Seq(Chars) /\ MaxTokens \in Nat

VARIABLES rules,     \* safety.enabled, for daemon and shell
          line,      \* BUFFER, CURSOR and what they come from: [text, cursor, from]
          asked,     \* the line a completion was asked for, or NoLine
          frame,     \* the completion on its way to the shell, or NoFrame
          inserting, \* insertions for which the daemon has found a shell
          inserts,   \* INSERT frames on their way
          queued     \* insertions the shell has yet to show, with one label

proposalVars == <<rules, line, asked, frame, inserting, inserts, queued>>

NoLine == [text |-> <<>>, cursor |-> 0, is |-> "none"]
NoFrame == [op |-> "none"]
Failure == [op |-> "unsafe_completion"]

-----------------------------------------------------------------------------
(* Texts.                                                                    *)

\* shell_tokens, split_whitespace: a word begins after a blank.
Words(t) ==
  LET words[n \in 0..Len(t)] ==
        IF n = 0 THEN <<>>
        ELSE IF t[n] = Blank THEN words[n - 1]
        ELSE IF n = 1 \/ t[n - 1] = Blank THEN Append(words[n - 1], <<t[n]>>)
        ELSE Append(Front(words[n - 1]), Append(Last(words[n - 1]), t[n]))
  IN  words[Len(t)]

\* join(" ")
Joined(words) ==
  LET joined[n \in 0..Len(words)] ==
        IF n = 0 THEN <<>> ELSE IF n = 1 THEN words[1]
        ELSE joined[n - 1] \o <<Blank>> \o words[n]
  IN  joined[Len(words)]

\* sanitize_inline: single blanks, and none at the ends.
Inline(t) == Joined(Words(t))

Fires(t, words) == ToSet(Words(t)) \cap words # {}
Assess(t) == rules /\ Fires(t, Dangers)
LocalDanger(t) == rules /\ Fires(t, ShellDangers)
Level(t) == IF ~rules THEN "unrated" ELSE IF Assess(t) THEN "high" ELSE "low"

-----------------------------------------------------------------------------
(* The patch.                                                                *)

Places(a, b) == (1..Len(a) + 1) \X (1..Len(b) + 1)

\* Mutant: the length of a common prefix.
PrefixLengths(a, b) ==
  LET L[at \in Places(a, b)] ==
        LET i == at[1]  j == at[2] IN
        IF i > Len(a) \/ j > Len(b) \/ a[i] # b[j] THEN 0 ELSE L[<<i + 1, j + 1>>] + 1
  IN  L

Lengths(a, b) ==
  LET L[at \in Places(a, b)] ==
        LET i == at[1]  j == at[2] IN
        IF i > Len(a) \/ j > Len(b) THEN 0
        ELSE IF a[i] = b[j] THEN L[<<i + 1, j + 1>>] + 1
        ELSE IF L[<<i + 1, j>>] < L[<<i, j + 1>>] THEN L[<<i, j + 1>>] ELSE L[<<i + 1, j>>]
  IN  L

\* lcs_hunks, as what becomes of each word: kept, removed or added.  Its hunks are
\* what lies between two kept words.
Edits(a, b) ==
  LET L == Lengths(a, b)
      E[at \in Places(a, b)] ==
        LET i == at[1]  j == at[2] IN
        IF i > Len(a) /\ j > Len(b) THEN <<>>
        ELSE IF i <= Len(a) /\ j <= Len(b) /\ a[i] = b[j]
             THEN <<<<"kept", a[i]>>>> \o E[<<i + 1, j + 1>>]
        ELSE IF i <= Len(a) /\ (j > Len(b) \/ L[<<i + 1, j>>] >= L[<<i, j + 1>>])
             THEN <<<<"removed", a[i]>>>> \o E[<<i + 1, j>>]
        ELSE <<<<"added", b[j]>>>> \o E[<<i, j + 1>>]
  IN  E[<<1, 1>>]

Whole(kind, words) == [n \in DOMAIN words |-> <<kind, words[n]>>]

\* CommandPatch::between: long lines change as a whole.
Patch(before, after) ==
  LET a == Words(before)  b == Words(after)
  IN  IF a = b THEN <<>>
      ELSE IF Len(a) > MaxTokens \/ Len(b) > MaxTokens
           THEN Whole("removed", a) \o Whole("added", b)
      ELSE Edits(a, b)

-----------------------------------------------------------------------------
(* A completion.                                                             *)

\* Mutant: an insertion is assessed alone.
CandidateAlone(op, command, at) ==
  IF command # <<>> /\ op # "none" THEN command ELSE at.text

\* completion_candidate and apply_to
Candidate(op, command, at) ==
  CASE op = "replace" -> command
    [] op = "insert" -> SubSeq(at.text, 1, at.cursor) \o command
                        \o SubSeq(at.text, at.cursor + 1, Len(at.text))
    [] op = "suggest" /\ command # <<>> -> command
    [] OTHER -> at.text

\* An empty command stands for the line, whatever is to be done with it.
OrLine(command, at) == IF command = <<>> THEN at.text ELSE command

\* completion_from_core and review_completion
Reviewed(op, command, cursor, at) ==
  LET candidate == Candidate(op, command, at)
      sent == [op |-> IF op = "none" THEN "suggest" ELSE op,
               command |-> Inline(OrLine(command, at)), cursor |-> cursor, exact |-> command # <<>>,
               assessed |-> candidate, patch |-> Patch(at.text, candidate)]
  IN  IF Assess(candidate)
      THEN [sent EXCEPT !.op = "suggest", !.command = Inline(candidate)] ELSE sent

\* The answer to a completion: the widget has the line, and takes no other answer.
Answered(f) == /\ frame' = f
               /\ UNCHANGED <<rules, line, asked, inserting, inserts, queued>>

Completion ==
  /\ asked # NoLine /\ frame = NoFrame
  /\ \E op \in {"replace", "insert", "suggest", "none"}, command \in Commands,
        cursor \in {0, 1} :
       /\ cursor <= Len(command) /\ (op # "replace" => cursor = 0)
       /\ Answered(IF Control \in ToSet(command) THEN Failure
                   ELSE Reviewed(op, command, cursor, asked))

\* The analyzer's suggestion, or the line as it is; neither is held back here.
LocalCompletion ==
  /\ asked # NoLine /\ frame = NoFrame
  /\ \E command \in Commands :
       LET sent == Inline(OrLine(command, asked))
       IN  /\ Control \notin ToSet(command)
           /\ Answered([op |-> IF command = <<>> THEN "suggest" ELSE "replace",
                        command |-> sent, cursor |-> Len(sent), exact |-> TRUE, assessed |-> sent,
                        patch |-> Patch(asked.text, sent)])

-----------------------------------------------------------------------------
(* The shell.                                                                *)

Typed(t, cursor) == [text |-> t, cursor |-> cursor, from |-> [kind |-> "typed"]]

\* What the user types cancels the completion; its answer is not taken.
Type ==
  /\ \E t \in Lines : \E cursor \in 0..Len(t) : line' = Typed(t, cursor)
  /\ asked' = NoLine /\ frame' = NoFrame
  /\ UNCHANGED <<rules, inserting, inserts, queued>>

CompleteWidget ==
  /\ ~LocalDanger(line.text) /\ Len(line.text) <= MaxLine
  /\ asked' = [text |-> line.text, cursor |-> line.cursor, is |-> "asked"] /\ frame' = NoFrame
  /\ UNCHANGED <<rules, line, inserting, inserts, queued>>

\* _aicoach_apply_completion_widget: where the shell puts an insertion is its own count.
Applied(f, at) ==
  LET from == [kind |-> "completed", assessed |-> f.assessed, exact |-> f.exact]
  IN
  CASE f.op = "replace" ->
         [text |-> f.command, from |-> from,
          cursor |-> IF f.cursor > Len(f.command) THEN Len(f.command) ELSE f.cursor]
    [] f.op = "insert" ->
         [text |-> SubSeq(at.text, 1, at.cursor) \o f.command
                   \o SubSeq(at.text, at.cursor + 1, Len(at.text)),
          cursor |-> at.cursor + Len(f.command), from |-> from]

\* COMPLETE: applied if it is safe and not to be shown only; an error ends the request.
ReceiveCompletion ==
  /\ frame # NoFrame
  /\ asked' = NoLine /\ frame' = NoFrame
  /\ LET fails == frame = Failure
         applies == ~fails /\ frame.op # "suggest" /\ ~LocalDanger(frame.command)
     IN  line' = IF applies THEN Applied(frame, asked) ELSE line
  /\ UNCHANGED <<rules, inserting, inserts, queued>>

-----------------------------------------------------------------------------
(* InsertBuffer of another client.                                           *)

Insertions == Cardinality(inserting) + Len(inserts) + Len(queued.commands)

\* A command without controls, for a session whose shell is there.
InsertBuffer ==
  /\ Insertions < MaxInserts
  /\ \E command \in Inserted, label \in {"low", "high"} :
       /\ Control \notin ToSet(command)
       /\ inserting' = inserting \cup {[command |-> command, label |-> label]}
  /\ UNCHANGED <<rules, line, asked, frame, inserts, queued>>

\* Mutant: the client's label is kept.
ClientLabel(i) == i.label

Classified(i) == Level(i.command)

\* Another client's may overtake; the shell may have gone meanwhile.
SendInsert ==
  /\ \E i \in inserting :
       /\ inserting' = inserting \ {i}
       /\ inserts' \in {inserts, Append(inserts, [command |-> Inline(i.command), label |-> Classified(i)])}
  /\ UNCHANGED <<rules, line, asked, frame, queued>>

\* INSERT: the shell's own rules may raise the label.
ReceiveInsert ==
  /\ inserts # <<>> /\ inserts' = Tail(inserts)
  /\ LET i == Head(inserts)
     IN  queued' = [commands |-> Append(queued.commands, i.command),
                    label |-> IF LocalDanger(i.command) THEN "high" ELSE i.label]
  /\ UNCHANGED <<rules, line, asked, frame, inserting>>

Newest(commands) == Last(commands)

\* Of several the newest is shown, with its label.  The line is another now, so the
\* completion under way is cancelled at the next redraw.
ApplyInserts ==
  /\ queued.commands # <<>> /\ queued' = [commands |-> <<>>, label |-> "unrated"]
  /\ LET t == Newest(queued.commands)
     IN  line' = [text |-> t, cursor |-> Len(t), from |-> [kind |-> "inserted", label |-> queued.label]]
  /\ asked' = NoLine /\ frame' = NoFrame
  /\ UNCHANGED <<rules, inserting, inserts>>

ProposalsInit ==
  /\ rules \in BOOLEAN
  /\ line = Typed(<<>>, 0)
  /\ asked = NoLine /\ frame = NoFrame
  /\ inserting = {} /\ inserts = <<>>
  /\ queued = [commands |-> <<>>, label |-> "unrated"]

ProposalsNext ==
  \/ Type \/ CompleteWidget \/ Completion \/ LocalCompletion \/ ReceiveCompletion
  \/ InsertBuffer \/ SendInsert \/ ReceiveInsert \/ ApplyInserts

ProposalsSpec == ProposalsInit /\ [][ProposalsNext]_proposalVars

-----------------------------------------------------------------------------
\* A text without its blanks.
Solid(t) ==
  LET solid[n \in 0..Len(t)] ==
        IF n = 0 THEN <<>>
        ELSE IF t[n] = Blank THEN solid[n - 1] ELSE Append(solid[n - 1], t[n])
  IN  solid[Len(t)]

\* What a completion makes of the line is what the daemon assessed as a whole, but for
\* blanks and for what an empty command stands for.
AppliedIsReviewed ==
  (line.from.kind = "completed" /\ line.from.exact) =>
    Solid(line.text) = Solid(line.from.assessed)

\* The words of the entries of some kinds.
WordsOf(patch, kinds) ==
  LET words[n \in 0..Len(patch)] ==
        IF n = 0 THEN <<>>
        ELSE IF patch[n][1] \in kinds THEN Append(words[n - 1], patch[n][2]) ELSE words[n - 1]
  IN  words[Len(patch)]

\* Some words of a, and where each stands in b, in the same order.
InCommon(at, S, a, b) ==
  /\ \A i \in S : a[i] = b[at[i]]
  /\ \A i, j \in S : i < j => at[i] < at[j]

IsTheChange(patch, a, b) ==
  IF patch = <<>> THEN a = b
  ELSE /\ WordsOf(patch, {"kept", "removed"}) = a /\ WordsOf(patch, {"kept", "added"}) = b
       /\ Len(a) <= MaxTokens /\ Len(b) <= MaxTokens =>
            \A S \in SUBSET DOMAIN a : \A at \in [S -> DOMAIN b] :
              InCommon(at, S, a, b) => Cardinality(S) <= Len(WordsOf(patch, {"kept"}))

\* The patch shown with a completion leads from the words of the line to those of the
\* line assessed, and keeps as many of them as any patch could.
PatchIsTheChange ==
  frame.op \in {"replace", "insert", "suggest"} =>
    IsTheChange(frame.patch, Words(asked.text), Words(frame.assessed))

\* A line that another client inserted is shown with the daemon's own classification of
\* that very line, which the shell's own rules may raise, whatever label the client sent
\* and however many insertions wait.
LabelIsOfTheLine ==
  line.from.kind = "inserted" =>
    line.from.label = IF LocalDanger(line.text) THEN "high" ELSE Level(line.text)

\* Does not hold.  README.md:49-51: a completion comes with the risk of "the final complete
\* buffer; an `insert` completion is not checked for its new fragment only".  The blanks
\* around an insertion are lost after the check.
FinalBufferIsAssessed ==
  (line.from.kind = "completed" /\ line.from.exact) => Words(line.text) = Words(line.from.assessed)
=============================================================================

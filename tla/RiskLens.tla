------------------------------- MODULE RiskLens -------------------------------
(***************************************************************************)
(* What the local rules say of a command line before it runs: the safety   *)
(* rules (crates/aicoach-core safety.rs) and the impact report of the Risk *)
(* Lens (risk_lens.rs).  A line is a sequence of simple commands, each     *)
(* joined to the one before by a pipe or by another operator; a command    *)
(* may carry another line: as the program of a shell, of eval or of xargs, *)
(* or in a command substitution among its words.  Before it stand wrappers *)
(* such as sudo, with their options; which word is the command the rules   *)
(* find by skipping.  Words that the rules tell apart are members of the   *)
(* sets below.  A user edits the line: wraps it, or adds a command to it.  *)
(*                                                                         *)
(* Wording and targets of effects are left out, and so is the scanning of  *)
(* characters: quotes, comments and here-documents are where the shell has *)
(* them.  Fork bombs, SQL given to a client and brace or quoted forms of a *)
(* target add words and no cases.                                          *)
(***************************************************************************)
EXTENDS Naturals, FiniteSets, SequencesExt

CONSTANTS Enabled,  \* safety.enabled of the configuration
          Simple,   \* simple commands a line is made of
          MaxEdits  \* bound: edits of a line that starts as each of these
                    \* commands; adding a command counts twice

VARIABLES line,  \* the line being edited
          long,  \* whether it exceeds MAX_RISK_LENS_CHARS
          edits  \* bound: edits left

vars == <<line, long, edits>>

\* Levels: 0 is "unrated".  Prospects of recovery and privileges, as ordered in
\* risk_lens.rs.
Low == 1   Medium == 2   High == 3   Critical == 4
NotApplicable == 0   Reversible == 1   Limited == 2   RecoveryUnknown == 3   Irreversible == 4
CurrentUser == 0   PrivilegeUnknown == 1   ElevatedLikely == 2   Administrator == 3

Upper(S) == IF S = {} THEN 0 ELSE Max(S)

\* A simple command: the words of each wrapper before it, executable, arguments,
\* where its output is redirected, whether a pipe leads to it, the line it runs and
\* the line substituted among its words.  Without executable it is only assignments.
Command(exe, args) ==
  [wrappers |-> <<>>, exe |-> exe, args |-> args, to |-> "", piped |-> FALSE,
   runs |-> <<>>, subs |-> <<>>]

ShellPrograms == {"sh", "bash", "zsh"}

-----------------------------------------------------------------------------
(* Words.                                                                    *)

Recursive == {"-r", "-R", "-rf", "--recursive"}
Options ==
  Recursive \cup {"-f", "-n", "-fn", "-h", "-s", "-9", "-c", "-e", "-ec", "-O", "-delete", "-u",
                  "-D", "-E", "-J", "--hard", "--help", "--force", "--force-with-lease", "--dry-run"}
Assignments == {"A=1"}
Roots == {"/", "/usr", "/etc", "~", "$HOME"}
HomeSubtrees == {"~/old", "$HOME/old"}
Globs == {"*.o"}
Devices == {"/dev/disk2", "of=/dev/disk2"}

Has(c, words) == Range(c.args) \cap words # {}
Operands(c) == SelectSeq(c.args, LAMBDA a : a \notin Options)
Operand(c, n) == IF Len(Operands(c)) < n THEN "" ELSE Operands(c)[n]
Followed(c, a, b) == \E i \in 1..Len(c.args) - 1 : c.args[i] = a /\ c.args[i + 1] = b

\* has_help_flag
AsksHelp(c) == Has(c, {"-h", "--help", "--version"})

-----------------------------------------------------------------------------
(* Which word is the command.                                                *)

RECURSIVE AfterOptions(_, _, _), CommandIndex(_, _)

\* Past the options from `i` on; those in `valued` take the word that follows.
AfterOptions(ts, i, valued) ==
  IF i > Len(ts) \/ ts[i] \notin Options THEN i
  ELSE AfterOptions(ts, IF ts[i] \in valued THEN i + 2 ELSE i + 1, valued)

\* Past the options and assignments that env takes; no option is known to take a word.
AfterEnv(ts, i) ==
  LET stop == {k \in i..Len(ts) : ts[k] \notin Options \cup Assignments}
  IN  IF stop = {} THEN Len(ts) + 1 ELSE CHOOSE k \in stop : \A m \in stop : k <= m

\* command_index: 0 if there is none.
CommandIndex(ts, i) ==
  IF i > Len(ts) THEN 0
  ELSE CASE ts[i] \in Assignments -> CommandIndex(ts, i + 1)
         [] ts[i] = "nohup" -> CommandIndex(ts, AfterOptions(ts, i + 1, {}))
         [] ts[i] = "sudo" -> CommandIndex(ts, AfterOptions(ts, i + 1, {"-u", "-g", "-h", "-p"}))
         [] ts[i] = "env" -> CommandIndex(ts, AfterEnv(ts, i + 1))
         [] OTHER -> i

Tokens(c) ==
  FlattenSeq(c.wrappers) \o (IF c.exe = "" THEN <<>> ELSE <<c.exe>>) \o c.args

\* A command read with its executable at the i-th token.
ReadAt(c, i) ==
  LET ts == Tokens(c)
  IN  [exe |-> IF i \in DOMAIN ts THEN ts[i] ELSE "",
       args |-> IF i \in DOMAIN ts THEN SubSeq(ts, i + 1, Len(ts)) ELSE <<>>,
       sudo |-> \E k \in 1..i - 1 : ts[k] = "sudo", to |-> c.to]

\* As the rules take it.
Seen(c) == ReadAt(c, CommandIndex(Tokens(c), 1))

-----------------------------------------------------------------------------
(* The safety rules on one command, as it was read.                          *)

Finding(rule, level) == [rule |-> rule, level |-> level]

\* assess_rm
AssessRm(c) ==
  LET of(target) ==
        CASE target \in Roots -> Finding("rm.protected-root", Critical)
          [] target \in HomeSubtrees -> Finding("rm.home-subtree", High)
          [] target \in Globs -> Finding("rm.recursive-glob", High)
          [] OTHER -> Finding("rm.recursive", IF c.sudo THEN High ELSE Medium)
  IN  IF AsksHelp(c) \/ ~Has(c, Recursive) THEN {} ELSE {of(t) : t \in Range(Operands(c))}

\* assess_dd
AssessDd(c) ==
  IF AsksHelp(c) \/ ~Has(c, {"of=/dev/disk2", "of=out"}) THEN {}
  ELSE {IF Has(c, Devices) THEN Finding("disk.dd-device", Critical)
        ELSE Finding("file.dd-overwrite", High)}

\* assess_diskutil
AssessDiskutil(c) ==
  LET verb == IF c.args = <<>> THEN "" ELSE Head(c.args)
  IN  IF AsksHelp(c) THEN {}
      ELSE IF verb = "erasedisk" THEN {Finding("disk.diskutil-erase", Critical)}
      ELSE IF verb = "erasevolume" \/ (verb = "apfs" /\ Has(c, {"deletevolume"}))
      THEN {Finding("disk.diskutil-volume", High)} ELSE {}

\* assess_git
AssessGit(c) ==
  CASE Operand(c, 1) = "reset" /\ Has(c, {"--hard"}) -> {Finding("git.reset-hard", High)}
    [] Operand(c, 1) = "clean" /\ Has(c, {"-f", "-fn", "--force"})
         /\ ~Has(c, {"--dry-run", "-n", "-fn"}) -> {Finding("git.clean-force", High)}
    [] Operand(c, 1) = "push" /\ Has(c, {"--force", "-f"}) -> {Finding("git.push-force", High)}
    [] Operand(c, 1) = "push" /\ Has(c, {"--force-with-lease"}) ->
         {Finding("git.push-force-with-lease", Medium)}
    [] OTHER -> {}

\* assess_chmod and assess_chown
AssessChmod(c) ==
  IF ~Has(c, {"777", "0777"}) THEN {}
  ELSE {Finding("permissions.world-writable",
                IF Has(c, {"-R", "--recursive"}) THEN High ELSE Medium)}
AssessChown(c) ==
  IF ~Has(c, {"-R", "--recursive"}) THEN {}
  ELSE {Finding("permissions.recursive-owner", IF Has(c, {"/", "/usr"}) THEN Critical ELSE High)}

\* assess_kill
AssessKill(c) ==
  IF ~(Has(c, {"-9", "-KILL"}) \/ Followed(c, "-s", "KILL")) THEN {}
  ELSE {Finding("process.sigkill",
                IF c.exe = "killall" \/ Has(c, {"-1", "0", "1"}) THEN Critical ELSE High)}

\* assess_find
AssessFind(c) ==
  IF ~Has(c, {"-delete"}) THEN {}
  ELSE {Finding("find.delete", IF Head(c.args) \in {"/", "~", "$HOME"} THEN Critical ELSE High)}

\* assess_sql, of the words of `drop`
AssessSql(c) ==
  CASE c.args # <<>> /\ Head(c.args) = "database" -> {Finding("sql.drop-database", Critical)}
    [] c.args # <<>> /\ Head(c.args) = "table" -> {Finding("sql.drop-table", High)}
    [] OTHER -> {}

\* assess_segment, the rules of the executable and the redirection
Rules(c) ==
  (CASE c.exe = "rm" -> AssessRm(c)
     [] c.exe = "mkfs" -> IF AsksHelp(c) THEN {} ELSE {Finding("disk.mkfs", Critical)}
     [] c.exe = "dd" -> AssessDd(c)
     [] c.exe = "diskutil" -> AssessDiskutil(c)
     [] c.exe = "git" -> AssessGit(c)
     [] c.exe = "chmod" -> AssessChmod(c)
     [] c.exe = "chown" -> AssessChown(c)
     [] c.exe \in {"kill", "pkill", "killall"} -> AssessKill(c)
     [] c.exe = "find" -> AssessFind(c)
     [] c.exe \in {"shutdown", "reboot", "halt"} ->
          IF AsksHelp(c) THEN {} ELSE {Finding("system.power", High)}
     [] c.exe = "truncate" ->
          IF Followed(c, "-s", "0") THEN {Finding("file.truncate", High)} ELSE {}
     [] c.exe = "drop" -> AssessSql(c)
     [] OTHER -> {})
  \cup (IF c.exe # "" /\ c.to \in Devices THEN {Finding("disk.raw-redirect", Critical)} ELSE {})

-----------------------------------------------------------------------------
(* Lines within lines.                                                       *)

MaxDepth == 4

\* has_download_to_shell_pipeline
Downloads(l) ==
  IF \E i \in 1..Len(l) - 1 :
       /\ l[i + 1].piped
       /\ Seen(l[i]).exe \in {"curl", "wget"} /\ Seen(l[i + 1]).exe \in ShellPrograms
  THEN {Finding("shell.download-pipe", High)} ELSE {}

RECURSIVE Substitutions(_)
\* command_substitutions: those in the words of a line; the program of a shell
\* and of eval is quoted, what xargs runs is words.
Substitutions(l) ==
  {c.subs : c \in {d \in Range(l) : d.subs # <<>>}}
    \cup UNION {Substitutions(c.runs) : c \in {d \in Range(l) : d.exe = "xargs"}}

\* Joined by blanks, of a program given to a shell the first word is left.
Joined(c) ==
  IF c.exe \in ShellPrograms /\ c.runs # <<>>
  THEN [c EXCEPT !.runs = <<Command(Head(c.runs).exe, <<>>)>>] ELSE c

\* xargs_command: what follows the options, in which the command may stand later.
XargsCommand(args, c) ==
  LET i == AfterOptions(args, 1, {"-I", "-L", "-n", "-P", "-s"})
  IN  IF i > Len(args) THEN Joined(c)
      ELSE Command(args[i], SubSeq(args, i + 1, Len(args)) \o Tokens(c))

RECURSIVE AssessLine(_, _), AssessCommand(_, _)

\* Mutant: what a substitution runs is taken for text.
AssessLineOnly(l, depth) ==
  IF depth > MaxDepth THEN {}
  ELSE Downloads(l) \cup UNION {AssessCommand(c, depth) : c \in Range(l)}

\* assess_source
AssessLine(l, depth) ==
  IF depth > MaxDepth THEN {}
  ELSE Downloads(l)
         \cup UNION {AssessLine(s, depth + 1) : s \in Substitutions(l)}
         \cup UNION {AssessCommand(c, depth) : c \in Range(l)}

\* assess_segment.  The program of a shell is what follows an argument -c.
AssessCommand(c, depth) ==
  LET seen == Seen(c)
  IN  (CASE seen.exe \in ShellPrograms /\ seen.args # <<>> /\ Last(seen.args) = "-c" ->
              AssessLine(c.runs, depth + 1)
         [] seen.exe = "eval" -> AssessLine(c.runs, depth + 1)
         [] seen.exe = "xargs" /\ c.runs # <<>> ->
              AssessCommand(XargsCommand(seen.args, Head(c.runs)), depth + 1)
         [] OTHER -> {})
      \cup Rules(seen)

\* assess
Assess(l) == IF Enabled THEN AssessLine(l, 0) ELSE {}

-----------------------------------------------------------------------------
(* The Risk Lens.                                                            *)

Profile(level, recovery) == {[level |-> level, recovery |-> recovery, privilege |-> CurrentUser]}
Elevated(level, recovery) == {[level |-> level, recovery |-> recovery, privilege |-> ElevatedLikely]}
Reads == Profile(Low, NotApplicable)
Unprofiled == {}

\* profile_git
ProfileGit(c) ==
  LET verb == Operand(c, 1)
      dry == Has(c, {"--dry-run", "-n", "-fn"})
  IN  CASE verb \in {"status", "diff", "log"} -> Reads
        [] verb \in {"add", "commit"} -> Profile(Low, Reversible)
        [] verb \in {"reset", "checkout"} ->
             Profile(IF Has(c, {"--hard"}) THEN High ELSE Medium, Limited)
        [] verb = "clean" -> IF dry THEN Reads ELSE Profile(High, Irreversible)
        [] verb = "push" -> Profile(IF Has(c, {"--force", "-f"}) THEN High ELSE Low, Limited)
        [] verb \in {"pull", "rebase"} -> Profile(Medium, Limited)
        [] OTHER -> Unprofiled

\* profile_diskutil
ProfileDiskutil(c) ==
  LET verb == Operand(c, 1)
      apfs == IF verb = "apfs" THEN Operand(c, 2) ELSE ""
  IN  CASE verb \in {"list", "verifydisk"} \/ apfs = "list" -> Reads
        [] verb \in {"erasedisk", "erasevolume"} \/ apfs \in {"deletevolume", "deletecontainer"} ->
             Elevated(Critical, Irreversible)
        [] verb \in {"mount", "eject"} \/ apfs = "addvolume" -> Elevated(Medium, Limited)
        [] OTHER -> Unprofiled

\* profile_docker
ProfileDocker(c) ==
  LET verb == Operand(c, 1)
      of == Operand(c, 2)
  IN  CASE verb \in {"ps", "images"} -> Reads
        [] verb \in {"rm", "prune"} -> Profile(High, Irreversible)
        [] verb \in {"volume", "system"} /\ of \in {"rm", "prune"} -> Profile(High, Irreversible)
        [] verb = "compose" /\ of = "down" -> Profile(High, Limited)
        [] verb \in {"run", "compose"} -> Profile(Medium, Limited)
        [] OTHER -> Unprofiled

\* profile_kubectl
ProfileKubectl(c) ==
  LET verb == Operand(c, 1)
  IN  CASE verb \in {"get", "logs"} -> Reads
        [] verb = "delete" -> IF Has(c, {"--dry-run"}) THEN Reads ELSE Profile(High, Limited)
        [] verb \in {"apply", "patch"} -> Profile(Medium, Limited)
        [] OTHER -> Unprofiled

\* profile_package_manager, profile_defaults and profile_launchctl
ProfileManaged(c, reads, changes, recovery) ==
  CASE Operand(c, 1) \in reads -> Reads
    [] Operand(c, 1) \in changes -> Profile(Medium, recovery)
    [] OTHER -> Unprofiled

\* profile_file_or_process_command
ProfileFile(c) ==
  CASE c.exe \in {"pwd", "grep", "ps", "ls", "cat"} -> Reads
    [] c.exe = "echo" -> IF c.to = "" THEN Reads ELSE Profile(Medium, Limited)
    [] c.exe \in {"mkdir", "touch"} -> Profile(Low, Reversible)
    [] c.exe \in {"cp", "mv", "chmod", "chown", "kill", "pkill", "killall"} -> Profile(Medium, Limited)
    [] c.exe \in {"rm", "rmdir"} -> Profile(Medium, Irreversible)
    [] c.exe = "truncate" -> Profile(High, Irreversible)
    [] c.exe = "wget" \/ (c.exe = "curl" /\ Has(c, {"-O"})) -> Profile(Low, Reversible)
    [] c.exe = "curl" -> Reads
    [] c.exe = "open" -> Profile(Medium, RecoveryUnknown)
    [] OTHER -> Unprofiled

\* profile_command
ProfileOf(c) ==
  CASE c.exe = "git" -> ProfileGit(c)
    [] c.exe = "diskutil" -> ProfileDiskutil(c)
    [] c.exe = "docker" -> ProfileDocker(c)
    [] c.exe = "kubectl" -> ProfileKubectl(c)
    [] c.exe \in {"brew", "npm", "pip"} ->
         ProfileManaged(c, {"list", "info"}, {"install", "remove"}, Limited)
    [] c.exe = "defaults" -> ProfileManaged(c, {"read"}, {"write", "delete"}, Limited)
    [] c.exe = "launchctl" -> ProfileManaged(c, {"list"}, {"load", "unload"}, Reversible)
    [] OTHER -> ProfileFile(c)

\* inspect_segment: a redirection is an effect of its own, also without command.
Inspect(c) == ProfileOf(c) \cup (IF c.to # "" THEN Profile(Medium, Limited) ELSE {})
Unknown(c) == IF c.exe = "" THEN c.to = "" ELSE ProfileOf(c) = Unprofiled

\* recovery_from_rule
RecoveryOf(rule) ==
  CASE rule \in {"git.reset-hard", "git.push-force", "git.push-force-with-lease",
                 "process.sigkill", "shell.download-pipe", "system.power"} -> Limited
    [] rule \in {"permissions.world-writable", "permissions.recursive-owner"} -> Reversible
    [] OTHER -> Irreversible

IsOfDisk(rule) ==
  rule \in {"disk.mkfs", "disk.dd-device", "disk.diskutil-erase", "disk.diskutil-volume",
            "disk.raw-redirect"}

\* Mutant: the last effect decides.
LevelOfLast(l, findings) ==
  IF l = <<>> THEN 0
  ELSE Upper({p.level : p \in Inspect(Seen(Last(l)))} \cup {f.level : f \in findings})

\* add_profile: the level of the worst, from that of the safety rules on.
LevelOf(l, findings) ==
  Upper({f.level : f \in findings} \cup {p.level : p \in UNION {Inspect(Seen(c)) : c \in Range(l)}})

\* risk_lens, of a line within the limit.
ReportOf(l) ==
  LET findings == Assess(l)
      seen == {Seen(c) : c \in Range(l)}
      profiles == UNION {Inspect(c) : c \in seen}
      unknown == \E c \in seen : Unknown(c)
      recognized == profiles # {} \/ findings # {}
      level == LevelOf(l, findings)
      recovery == Upper({p.recovery : p \in profiles} \cup {RecoveryOf(f.rule) : f \in findings})
      privilege == Upper({p.privilege : p \in profiles}
                           \cup (IF \E f \in findings : IsOfDisk(f.rule) THEN {ElevatedLikely} ELSE {})
                           \cup (IF \E c \in seen : c.exe # "" /\ c.sudo THEN {Administrator} ELSE {}))
      partly == ~recognized \/ unknown
  IN  [level |-> IF ~recognized \/ (unknown /\ level = Low) THEN 0 ELSE level,
       recovery |-> IF partly THEN Upper({recovery, RecoveryUnknown}) ELSE recovery,
       privilege |-> IF partly THEN Upper({privilege, PrivilegeUnknown}) ELSE privilege,
       coverage |-> IF ~recognized THEN "unknown" ELSE IF unknown THEN "partial" ELSE "recognized"]

\* oversized_report
Oversized ==
  [level |-> 0, recovery |-> RecoveryUnknown, privilege |-> PrivilegeUnknown, coverage |-> "unknown"]

RiskReport(l) == IF long THEN Oversized ELSE ReportOf(l)

-----------------------------------------------------------------------------
(* Editing.                                                                  *)

\* Ways to give a shell its program and xargs its command.
ShellFlags == {<<"-c">>, <<"-e", "-c">>, <<"-ec">>}
XargsOptions == {<<>>, <<"-n", "1">>, <<"-J", "%">>}

\* Wrappers: the last two have an option with a word that the rules do not skip.
Misread == {<<"sudo", "-D", "/tmp">>, <<"env", "-u", "X">>}
Wrappers ==
  {<<"A=1">>, <<"nohup">>, <<"sudo">>, <<"sudo", "-E", "-u", "root">>, <<"env", "A=1">>} \cup Misread

Init == \E c \in Simple : line = <<c>> /\ long = FALSE /\ edits = MaxEdits[c]

Edits(n) == edits >= n /\ edits' = edits - n

\* The line becomes the program of a shell or of eval, what xargs runs, or what a
\* command's words are made from.
Wrap ==
  /\ Edits(1)
  /\ line' \in {<<[Command("sh", flags) EXCEPT !.runs = line]>> : flags \in ShellFlags}
               \cup {<<[Command("eval", <<>>) EXCEPT !.runs = line]>>,
                     <<[Command("echo", <<>>) EXCEPT !.subs = line]>>}
               \cup (IF Len(line) = 1
                     THEN {<<[Command("xargs", o) EXCEPT !.runs = line]>> : o \in XargsOptions}
                     ELSE {})
  /\ UNCHANGED long

\* Before an assignment there is sudo, env or nothing.
Precede ==
  /\ Edits(1) /\ line[1].exe # ""
  /\ \E w \in Wrappers :
       /\ line[1].wrappers # <<>> /\ Head(line[1].wrappers)[1] \in Assignments =>
            w[1] \in {"sudo", "env"}
       /\ line' = [line EXCEPT ![1].wrappers = <<w>> \o @]
  /\ UNCHANGED long

Extend ==
  /\ Edits(2)
  /\ \E c \in Simple, piped \in BOOLEAN : line' = Append(line, [c EXCEPT !.piped = piped])
  /\ UNCHANGED long

\* More words that mean nothing.
Lengthen ==
  /\ Edits(1) /\ ~long
  /\ long' = TRUE
  /\ UNCHANGED line

Next == Wrap \/ Precede \/ Extend \/ Lengthen
Spec == Init /\ [][Next]_vars

-----------------------------------------------------------------------------
\* What really runs: the command after all its wrappers.
Actual(c) == ReadAt(c, Len(FlattenSeq(c.wrappers)) + 1)

RECURSIVE RunsBy(_, _), Readable(_, _)

\* What the shell runs for a line, to a depth: its commands and those of the lines
\* they carry.
RunsBy(l, depth) ==
  IF depth < 0 THEN {}
  ELSE Range(l) \cup UNION {RunsBy(c.runs, depth - 1) \cup RunsBy(c.subs, depth - 1) : c \in Range(l)}

\* A wrapper has an option whose word is taken for the command.
IsMisread(c) == Range(c.wrappers) \cap Misread # {}

\* A command hides the line it carries: behind such a wrapper, given to a shell by
\* anything but a -c of its own, as the program of a shell that xargs runs, or after
\* an option of xargs whose word is taken for the command.
Hides(c) ==
  \/ IsMisread(c)
  \/ c.exe \in ShellPrograms /\ c.args # <<>> /\ Last(c.args) # "-c"
  \/ c.exe = "xargs" /\ c.args = <<"-J", "%">>
  \/ c.exe = "xargs" /\ c.runs # <<>> /\ Head(c.runs).exe \in ShellPrograms

\* What is run and hidden by none of these.
Readable(l, depth) ==
  IF depth < 0 THEN {}
  ELSE {c \in Range(l) : ~IsMisread(c)}
         \cup UNION {Readable(c.subs, depth - 1) : c \in Range(l)}
         \cup UNION {Readable(c.runs, depth - 1) : c \in {d \in Range(l) : ~Hides(d)}}

\* A dangerous command is reported at its level wherever it is in a line, up to four
\* levels deep: behind nohup, sudo and env, in what a shell's own -c, eval or xargs runs,
\* in a substitution, among harmless commands.  Excepted is what the rules do not read:
\* commands behind an option of sudo, env or xargs whose word they take for the command,
\* programs given to a shell by other flags than -c, or by xargs, and lines beyond
\* the limit of the Risk Lens, which are reported as not analysed.
DangerSurfaces ==
  Enabled =>
    \A c \in Readable(line, MaxDepth) :
      \A f \in Rules(Actual(c)) :
        RiskReport(line).level >= f.level \/ (long /\ RiskReport(line).coverage = "unknown")

\* (Not so: the program a shell is given by its flags is assessed as what it runs.)
ProgramsAreAssessed ==
  Enabled /\ ~long =>
    \A c \in Range(line) :
      c.wrappers = <<>> /\ c.exe \in ShellPrograms =>
        \A d \in Range(c.runs) :
          \A f \in Rules(Actual(d)) : ~IsMisread(d) => RiskReport(line).level >= f.level

\* A command no rule knows never reads as low risk, wherever it is in the line.
UnfamiliarIsUnrated ==
  RiskReport(line).level = Low =>
    \A c \in RunsBy(line, MaxDepth) : c.exe # "" => ~Unknown(Actual(c))
=============================================================================

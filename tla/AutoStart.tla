------------------------------- MODULE AutoStart -------------------------------
(***************************************************************************)
(* Who starts and stops the daemon: `aicoach start`, `stop`, `restart` and *)
(* `install` (CLI main.rs), and the prompt of every shell that finds no    *)
(* daemon (shell/aicoach.zsh), which must leave a daemon that the user     *)
(* stopped alone.  A marker file tells them; a shell with an older          *)
(* integration loaded does not look at it and starts the daemon anyway.    *)
(*                                                                         *)
(* The daemon is one here: how several that start together agree on one is *)
(* in RuntimeFiles.  launchd runs it, or it is a child of the CLI when its *)
(* key is in the environment; what authorizes it is in                     *)
(* ProviderAuthorization.                                                  *)
(***************************************************************************)
EXTENDS Naturals, FiniteSets

CONSTANTS Shells,      \* shells with the integration loaded
          OldShells,   \* those that have an older one
          Commands,    \* runs of the CLI, each in some shell
          NoShell, NoCommand

VARIABLES marker,  \* run/daemon.manual-stop exists
          serving, \* "down", "booting", "up" or "leaving", and who runs it
          shell,   \* shell -> "prompt", or "clear" past the check of the marker
          cmd,     \* command -> what it is, whose, and where
          last,    \* the user's latest command
          stopped, \* it was a stop and ended well, no start under way when it marked
          ended    \* it was a stop and ended well

startVars == <<marker, serving, shell, cmd, last, stopped, ended>>
words == <<last, stopped, ended>>

Kinds == {"auto", "start", "stop", "restart", "install", "install-no-start"}

StartInit ==
  /\ marker \in BOOLEAN
  /\ serving = [at |-> "down", by |-> "launchd"]
  /\ shell = [s \in Shells |-> "prompt"]
  /\ cmd = [c \in Commands |-> [kind |-> "none", of |-> NoShell, at |-> "new", raced |-> FALSE]]
  /\ last = NoCommand /\ stopped = FALSE /\ ended = FALSE

UnderWay(c) == cmd[c].at \notin {"new", "over"}
Stands(c, step) == cmd[c].at = step
Goes(c, step) == cmd' = [cmd EXCEPT ![c].at = step]
Becomes(at) == serving' = [serving EXCEPT !.at = at]

\* Starts beside c, of a shell or of the user, that may have passed the marker already.
StartingBeside(c) ==
  \/ \E s \in Shells : shell[s] # "prompt"
  \/ \E d \in Commands \ {c} : UnderWay(d) /\ cmd[d].kind # "stop"
  \/ serving.at = "booting"

-----------------------------------------------------------------------------
(* A shell without a daemon (_aicoach_connect, _aicoach_maybe_start).        *)

Prompt(s) ==
  /\ shell[s] = "prompt" /\ serving.at # "up"
  /\ s \notin OldShells => ~marker
  /\ shell' = [shell EXCEPT ![s] = "clear"]
  /\ UNCHANGED <<marker, serving, cmd, words>>

BeginRun(c, kind, s, step) ==
  /\ cmd[c].at = "new"
  /\ cmd' = [cmd EXCEPT ![c] = [kind |-> kind, of |-> s, at |-> step, raced |-> FALSE]]

SpawnStart(c, s) ==
  /\ shell[s] = "clear" /\ shell' = [shell EXCEPT ![s] = "prompt"]
  /\ BeginRun(c, "auto", s, "look")
  /\ UNCHANGED <<marker, serving, words>>

\* What the user says last: a stop, or anything that starts a daemon; a start in an old
\* shell leaves a daemon that was stopped alone.
Counts(kind, s) == kind = "start" => s \notin OldShells \/ ~marker

\* The user, in a terminal.  A restart is a stop and a start; install stops what runs.
Run(c, kind, s) ==
  /\ BeginRun(c, kind, s,
       CASE kind = "start" -> "look"
         [] kind \in {"stop", "restart"} -> "mark"
         [] OTHER -> IF serving.at \in {"up", "leaving"} THEN "mark"
                     ELSE IF kind = "install" THEN "clear" ELSE "mark only")
  /\ IF Counts(kind, s)
     THEN /\ last' = c
          /\ stopped' = (stopped /\ kind = "stop") /\ ended' = (ended /\ kind = "stop")
     ELSE UNCHANGED words
  /\ UNCHANGED <<marker, serving, shell>>

-----------------------------------------------------------------------------
(* start.                                                                    *)

\* Mutant: an old shell's start is like any other.
PreservesNothing(c) == FALSE

\* stale_shell_must_preserve_manual_stop: the integration of the shell it runs in.
MustPreserve(c) == marker /\ cmd[c].of \in OldShells

LookAtMarker(c) ==
  /\ Stands(c, "look") /\ Goes(c, IF MustPreserve(c) THEN "over" ELSE "clear")
  /\ UNCHANGED <<marker, serving, shell, words>>

\* The marker goes, again when it is clear that nothing answers.
ClearMarker(c) ==
  /\ (Stands(c, "clear") /\ Goes(c, "ping")) \/ (Stands(c, "clear again") /\ Goes(c, "launch"))
  /\ marker' = FALSE
  /\ UNCHANGED <<serving, shell, words>>

PingDaemon(c) ==
  /\ Stands(c, "ping") /\ Goes(c, IF serving.at = "up" THEN "over" ELSE "clear again")
  /\ UNCHANGED <<marker, serving, shell, words>>

\* A job in launchd is booted out first; another that runs makes the new one give way.
LaunchDaemon(c) ==
  /\ Stands(c, "launch") /\ Goes(c, "wait")
  /\ \E by \in {"launchd", "child"} :
       serving' = IF serving.at # "down" /\ serving.by = "child" THEN serving
                 ELSE [at |-> "booting", by |-> by]
  /\ UNCHANGED <<marker, shell, words>>

\* It answers, or not within ten seconds.
Await(c) ==
  /\ Stands(c, "wait") /\ Goes(c, "over")
  /\ UNCHANGED <<marker, serving, shell, words>>

-----------------------------------------------------------------------------
(* stop.                                                                     *)

\* Mutant: the marker is set when the daemon is gone.
MarkAfterwards(step) == IF step = "mark" THEN marker ELSE TRUE

\* mark_daemon_stopped comes first.
MarkStopped(step) == IF step = "mark" THEN TRUE ELSE marker

Mark(c) ==
  /\ Stands(c, "mark")
  /\ marker' = MarkStopped("mark")
  /\ cmd' = [cmd EXCEPT ![c].at = "ask", ![c].raced = StartingBeside(c)]
  /\ UNCHANGED <<serving, shell, words>>

\* request_shutdown; a daemon that does not listen hears nothing.
RequestShutdown(c) ==
  /\ Stands(c, "ask") /\ Goes(c, "bootout")
  /\ Becomes(IF serving.at = "up" THEN "leaving" ELSE serving.at)
  /\ UNCHANGED <<marker, shell, words>>

StopAgent(c) ==
  /\ Stands(c, "bootout") /\ Goes(c, "term")
  /\ Becomes(IF serving.by = "launchd" THEN "down" ELSE serving.at)
  /\ UNCHANGED <<marker, shell, words>>

Terminate(c) ==
  /\ Stands(c, "term") /\ Goes(c, "gone?")
  /\ Becomes(IF serving.at = "up" THEN "leaving" ELSE serving.at)
  /\ UNCHANGED <<marker, shell, words>>

\* Where a stop that succeeded goes on.
AfterStop(kind) == CASE kind = "stop" -> "over" [] kind = "install-no-start" -> "mark only"
                     [] OTHER -> "clear"

\* A daemon that is not up yet is not seen.
FindGone(c) ==
  /\ Stands(c, "gone?") /\ serving.at \in {"down", "booting"}
  /\ Goes(c, AfterStop(cmd[c].kind))
  /\ marker' = MarkStopped("gone?")
  /\ ended' = (ended \/ (last = c /\ cmd[c].kind = "stop"))
  /\ stopped' = (stopped \/ (last = c /\ cmd[c].kind = "stop" /\ ~cmd[c].raced))
  /\ UNCHANGED <<serving, shell, last>>

\* After two seconds; a daemon that was not running before is no failure.
GiveUp(c) ==
  /\ Stands(c, "gone?") /\ serving.at \in {"up", "leaving"}
  /\ \E next \in {"over", AfterStop(cmd[c].kind)} : Goes(c, next)
  /\ UNCHANGED <<marker, serving, shell, words>>

\* install --no-start leaves it stopped.
MarkOnly(c) ==
  /\ Stands(c, "mark only") /\ Goes(c, "over") /\ marker' = TRUE
  /\ stopped' = (stopped \/ (last = c /\ ~StartingBeside(c) /\ serving.at = "down"))
  /\ UNCHANGED <<serving, shell, last, ended>>

-----------------------------------------------------------------------------
(* The daemon, and the terminal.                                             *)

BootsUp == /\ serving.at = "booting" /\ Becomes("up")
           /\ UNCHANGED <<marker, shell, cmd, words>>

\* It leaves as asked, or crashes; launchd does not bring it back.
Ends == /\ serving.at # "down" /\ Becomes("down")
        /\ UNCHANGED <<marker, shell, cmd, words>>

\* Ctrl-C.
Interrupt(c) == /\ UnderWay(c) /\ Goes(c, "over")
                /\ UNCHANGED <<marker, serving, shell, words>>

StartNext ==
  \/ \E s \in Shells : Prompt(s) \/ \E c \in Commands : SpawnStart(c, s)
  \/ \E c \in Commands :
       \/ \E s \in Shells, kind \in Kinds \ {"auto"} : Run(c, kind, s)
       \/ LookAtMarker(c) \/ ClearMarker(c) \/ PingDaemon(c) \/ LaunchDaemon(c) \/ Await(c)
       \/ Mark(c) \/ RequestShutdown(c) \/ StopAgent(c) \/ Terminate(c) \/ FindGone(c)
       \/ GiveUp(c) \/ MarkOnly(c) \/ Interrupt(c)
  \/ BootsUp \/ Ends

StartSpec == StartInit /\ [][StartNext]_startVars

-----------------------------------------------------------------------------
\* Once a stop has ended well, with no start under way when it set the marker, nothing but
\* the user's word brings the daemon back: no prompt, whatever integration its shell has
\* loaded, and no start in an old shell, which keeps the marker too.
StoppedStaysStopped == stopped => marker /\ serving.at = "down"

\* Does not hold.  README.md:616: "`aicoach stop` keeps the daemon stopped across prompts
\* and new terminal tabs until an explicit `aicoach start` or `aicoach restart`."  A start
\* that a prompt began before clears the marker afterwards.
StopKeepsStopped == ended => serving.at # "up"
=============================================================================

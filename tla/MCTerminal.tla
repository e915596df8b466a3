------------------------------ MODULE MCTerminal ------------------------------
(* Small instances of what meets around a terminal: the files the daemon       *)
(* starts on, its table of sessions, the plug-in, the rules for a command      *)
(* line and the files that connect shells.  A behaviour is one of one lane;    *)
(* the variables of the other lanes never change.                              *)
EXTENDS RuntimeFiles, SessionRegistry, LocalSetup, ShellPlugin

VARIABLES lane,
          line, long, edits

ruleVars == <<line, long, edits>>
allVars  == <<lane, vars, tableVars, pluginVars, ruleVars, setupVars>>

-----------------------------------------------------------------------------
\* A shell and its second connection, and a Coach window that registers any session.
MCShellOf == [c \in Shells |-> "s1"]

-----------------------------------------------------------------------------
(* Commands every rule knows, and a line of one or two of them.              *)
Op(exe, args) ==
  [wrappers |-> <<>>, exe |-> exe, args |-> args, to |-> "", piped |-> FALSE, runs |-> <<>>,
   subs |-> <<>>]

Simple ==
  {Op("rm", <<"-rf", "/">>), Op("rm", <<"-rf", "build">>), Op("rm", <<"-r", "*.o">>),
   Op("rm", <<"-rf", "~/old">>), Op("rm", <<"note">>), Op("rm", <<"--help">>),
   Op("mkfs", <<>>), Op("dd", <<"of=/dev/disk2">>), Op("dd", <<"of=out">>),
   Op("diskutil", <<"list">>), Op("diskutil", <<"erasedisk">>),
   Op("diskutil", <<"apfs", "deletevolume">>), Op("diskutil", <<"eject">>),
   Op("git", <<"status">>), Op("git", <<"reset", "--hard">>),
   Op("git", <<"clean", "-f">>), Op("git", <<"clean", "-fn">>),
   Op("git", <<"push", "--force">>), Op("git", <<"push", "--force-with-lease">>),
   Op("git", <<"commit">>), Op("git", <<"pull">>), Op("git", <<"bisect">>),
   Op("chmod", <<"-R", "777", "x">>), Op("chmod", <<"644", "x">>),
   Op("chown", <<"-R", "me", "/">>), Op("kill", <<"-9", "1">>),
   Op("kill", <<"-s", "KILL", "77">>), Op("find", <<"~", "-delete">>),
   Op("reboot", <<>>), Op("truncate", <<"-s", "0", "log">>),
   Op("drop", <<"table", "t">>), Op("curl", <<"url">>), Op("curl", <<"-O", "url">>),
   Op("sh", <<>>), Op("docker", <<"volume", "rm", "v">>), Op("docker", <<"run", "i">>),
   Op("kubectl", <<"delete", "p">>), Op("kubectl", <<"delete", "p", "--dry-run">>),
   Op("kubectl", <<"apply">>), Op("brew", <<"list">>), Op("brew", <<"install", "x">>),
   Op("defaults", <<"write">>), Op("launchctl", <<"load">>), Op("open", <<"x">>),
   Op("mkdir", <<"d">>), Op("cp", <<"a", "b">>), Op("frobnicate", <<>>),
   Op("", <<>>), [Op("echo", <<"x">>) EXCEPT !.to = "f"],
   [Op("", <<>>) EXCEPT !.to = "f"], [Op("frobnicate", <<>>) EXCEPT !.to = "/dev/disk2"]}

MaxEdits == [c \in Simple |-> IF c = Op("rm", <<"-rf", "/">>) THEN 4 ELSE 2]

Rules == INSTANCE RiskLens WITH Enabled <- TRUE

-----------------------------------------------------------------------------
(* Set-up: three keys, the defaults on the first two.                          *)
MCDefaults == [complete |-> "k1", chat |-> "k2"]
MCFirstLines == {<<"u1">>, <<"u1", "START", "u2">>}

\* Two terminals with a command, or one and an edit or a file with half a block.
OneConsole ==
  used.edits + used.bound > 0 \/ (\E i \in DOMAIN zshrc.lines : zshrc.lines[i] = "START")
    => proc["p2"] = NoCommand

-----------------------------------------------------------------------------
MCInit ==
  /\ lane \in {"files", "table", "plugin", "rules", "setup"}
  /\ Init /\ TableInit /\ PluginInit /\ Rules!Init
  /\ SetupInit
  /\ lane # "rules" => line[1].exe = "reboot"
  /\ lane # "setup" => zshrc.kind = "absent"

MCNext ==
  \/ /\ lane = "files" /\ Next
     /\ UNCHANGED <<lane, tableVars, pluginVars, ruleVars, setupVars>>
  \/ /\ lane = "table" /\ TableNext
     /\ UNCHANGED <<lane, vars, pluginVars, ruleVars, setupVars>>
  \/ /\ lane = "plugin" /\ PluginNext
     /\ UNCHANGED <<lane, vars, tableVars, ruleVars, setupVars>>
  \/ /\ lane = "rules" /\ Rules!Next
     /\ UNCHANGED <<lane, vars, tableVars, pluginVars, setupVars>>
  \/ /\ lane = "setup" /\ SetupNext /\ OneConsole'
     /\ UNCHANGED <<lane, vars, tableVars, pluginVars, ruleVars>>

MCSpec == MCInit /\ [][MCNext]_allVars

-----------------------------------------------------------------------------
\* Whatever a dangerous command is wrapped in, the report of the line shows it.
DangerSurfaces == lane = "rules" => Rules!DangerSurfaces

\* Commands whose payload is another program need a second parse (safety.rs:172).
ProgramsAreAssessed == lane = "rules" => Rules!ProgramsAreAssessed

-----------------------------------------------------------------------------
(* What the documents say and the code does not keep.                          *)

\* A command the rules do not know is not called harmless.
UnfamiliarIsUnrated == lane = "rules" => Rules!UnfamiliarIsUnrated
=============================================================================

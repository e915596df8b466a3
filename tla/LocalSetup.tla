------------------------------- MODULE LocalSetup -------------------------------
(***************************************************************************)
(* The files that connect shells to AI Terminal Coach, and the commands    *)
(* that write them (CLI main.rs, onboarding.rs, core config.rs): install   *)
(* and uninstall keep a block of lines in the user's .zshrc; `config` and  *)
(* `onboard` change config.toml and replace two generated files, the       *)
(* settings of the shells and a version that tells them to reload          *)
(* (shell/aicoach.zsh).  Commands overlap with each other, with prompts    *)
(* and with the user's own editing, and may be killed between two steps;   *)
(* every file is replaced by a rename.                                     *)
(*                                                                         *)
(* Two shortcuts stand for all settings.  What install does with launchers *)
(* and the daemon is in ProviderAuthorization and RuntimeFiles.            *)
(***************************************************************************)
EXTENDS Naturals, SequencesExt

CONSTANTS Consoles,   \* terminals commands are run in
          Loaded,     \* shells with the integration loaded
          Keys,       \* key sequences
          Defaults,   \* the default configuration, as below
          UserKey,    \* the key the user may bind to a widget of their own
          FirstLines, \* contents of the user's .zshrc at first
          MaxCommands, MaxOwnEdits \* bounds: commands, and edits of files and bindings by the user

VARIABLES zshrc,    \* ~/.zshrc: [kind, lines]
          backup,   \* ~/.zshrc.aicoach.backup
          config,   \* config.toml: Absent, Malformed or [complete, chat]
          settings, \* keybindings.zsh: Absent or the configuration it was generated from
          version,  \* keybindings.version: 0 if absent; `fresh`: its writer wrote last, and all
          proc,     \* terminal -> the command in it
          zsh,      \* shell -> settings and version loaded, bindings, where it is
          used,     \* commands run, edits and bindings of the user, versions written
          users     \* the user's own lines, as the user last left them, or Lost

setupVars == <<zshrc, backup, config, settings, version, proc, zsh, used, users>>

None == <<>>
Absent == [complete |-> "absent", chat |-> "absent"]
Malformed == [complete |-> "malformed", chat |-> "malformed"]
Widgets == {"complete", "chat"}
Configs == {c \in [Widgets -> Keys] : c.complete # c.chat} \* what validate accepts
OfTheUser == {"u1", "u2"} \* lines of the user's, but for empty ones
LineKinds == OfTheUser \cup {"START", "source", "END", "blank"}
Lost == <<"lost">>
Block == <<"START", "source", "END">>

\* The lines at some places.
Only(lines, places) ==
  LET only[n \in 0..Len(lines)] ==
        IF n = 0 THEN <<>>
        ELSE IF n \in places THEN Append(only[n - 1], lines[n]) ELSE only[n - 1]
  IN  only[Len(lines)]

Own(lines) == Only(lines, {i \in DOMAIN lines : lines[i] \in OfTheUser})

\* One START at most, and from it to the next END, if there is one, nothing of the user's.
Tidy(lines) ==
  \A i \in DOMAIN lines : lines[i] = "START" =>
    /\ \A j \in DOMAIN lines : lines[j] = "START" => j = i
    /\ \A k \in i + 1..Len(lines) : lines[k] \in OfTheUser =>
         \/ \E j \in i + 1..k : lines[j] = "END"
         \/ \A j \in k..Len(lines) : lines[j] # "END"

\* config.rs, Config::default.  What stands between START and END is not the user's.
ASSUME SetupAssumption ==
  /\ Defaults \in Configs
  /\ FirstLines \subseteq Seq(LineKinds) /\ \A lines \in FirstLines : Tidy(lines)

Kinds == {"install", "uninstall", "purge", "set", "edit", "validate", "onboard", "toggle"}

NoCommand == [kind |-> "none", at |-> "over", conf |-> Absent, lines |-> None, edits |-> 0]

Bound(bindings, c) ==
  [k \in Keys |-> IF c.complete = k THEN "complete" ELSE IF c.chat = k THEN "chat"
                  ELSE bindings[k]]

SetupInit ==
  /\ zshrc \in [kind : {"file", "link"}, lines : FirstLines] \cup [kind : {"absent"}, lines : {None}]
  /\ users = Own(zshrc.lines)
  /\ backup = None /\ config = Absent /\ settings = Absent
  /\ version = [n |-> 0, fresh |-> FALSE]
  /\ proc = [p \in Consoles |-> NoCommand]
  /\ zsh = [s \in Loaded |->
       [at |-> "prompt", settings |-> Defaults, version |-> 0, raced |-> FALSE,
        keys |-> Bound([k \in Keys |-> "none"], Defaults)]]
  /\ used = [commands |-> 0, edits |-> 0, bound |-> 0, versions |-> 0]

At(p, step) == proc[p].at = step
Goes(p, step) ==
  proc' = [proc EXCEPT ![p] = IF step = "over" THEN NoCommand ELSE [@ EXCEPT !.at = step]]
GoesWith(p, step, conf) ==
  proc' = [proc EXCEPT ![p] = IF step = "over" THEN NoCommand ELSE [@ EXCEPT !.at = step, !.conf = conf]]
\* onboard begins with an install if it needs one, and goes on where that ends.
Needed == <<"needed">>
Installs(p) == proc[p].kind = "install" \/ proc[p].lines = Needed
FinishesInstall(p) ==
  IF proc[p].kind = "onboard"
  THEN proc' = [proc EXCEPT ![p].at = "config", ![p].lines = None] ELSE Goes(p, "over")

\* For the property: the settings change under a shell that is taking them over.
Replaced == zsh' = [s \in Loaded |-> [zsh[s] EXCEPT !.raced = @ \/ zsh[s].at = "version"]]

-----------------------------------------------------------------------------
(* The block in .zshrc.                                                      *)

HasCompleteBlock(lines) ==
  \E i, j \in DOMAIN lines : i < j /\ lines[i] = "START" /\ lines[j] = "END"

\* Mutant: a block without an end is no block.
RefusesNothing(lines) == FALSE

Incomplete(lines) == {"START", "END"} \cap ToSet(lines) # {} /\ ~HasCompleteBlock(lines)

\* What replacing "\n\n\n" until there is none leaves: no two empty lines in a row.
Collapsed(lines) ==
  Only(lines, {i \in DOMAIN lines : ~(i > 2 /\ lines[i] = "blank" /\ lines[i - 1] = "blank")})

First(lines, line, after) ==
  CHOOSE i \in DOMAIN lines :
    /\ i > after /\ lines[i] = line
    /\ \A j \in after + 1..i - 1 : lines[j] # line

\* From the first START to the first END after it.
WithoutBlock(lines) ==
  IF ~HasCompleteBlock(lines) THEN lines
  ELSE LET i == First(lines, "START", 0)
           j == First(lines, "END", i)
       IN  Collapsed(Only(lines, DOMAIN lines \ (i..j)))

\* install_zshrc: a link is refused, and so is half a block.
ReadZshrc(p) ==
  /\ At(p, "zshrc")
  /\ LET refuses == zshrc.kind = "link" \/ Incomplete(zshrc.lines)
         installed == ~refuses /\ HasCompleteBlock(zshrc.lines)
     IN  /\ refuses => Goes(p, "over")
         /\ installed => FinishesInstall(p)
         /\ ~refuses /\ ~installed =>
              proc' = [proc EXCEPT ![p].lines = zshrc.lines, ![p].edits = used.edits,
                                   ![p].at = "backup"]
  /\ UNCHANGED <<zshrc, backup, config, settings, version, zsh, used, users>>

\* An edit made since the command read the file is lost.
Left(p) == IF proc[p].edits = used.edits THEN users ELSE Lost

\* The first backup stays; it is of the file as it is now.
Backup(p) ==
  /\ At(p, "backup") /\ Goes(p, "append")
  /\ backup' = IF backup = None /\ zshrc.kind # "absent" THEN zshrc.lines ELSE backup
  /\ UNCHANGED <<zshrc, config, settings, version, zsh, used, users>>

AppendBlock(p) ==
  /\ At(p, "append") /\ FinishesInstall(p)
  /\ zshrc' = [kind |-> "file", lines |-> proc[p].lines \o <<"blank">> \o Block]
  /\ users' = Left(p)
  /\ UNCHANGED <<backup, config, settings, version, zsh, used>>

\* uninstall reads through a link.
ReadBlock(p) ==
  /\ At(p, "unhook")
  /\ proc' = [proc EXCEPT ![p].lines = zshrc.lines, ![p].edits = used.edits,
                          ![p].at = IF WithoutBlock(zshrc.lines) = zshrc.lines
                                    THEN "unset" ELSE "remove"]
  /\ UNCHANGED <<zshrc, backup, config, settings, version, zsh, used, users>>

\* and replaces it by a file.
RemoveBlock(p) ==
  /\ At(p, "remove") /\ Goes(p, "unset")
  /\ zshrc' = [kind |-> "file", lines |-> WithoutBlock(proc[p].lines)]
  /\ users' = Left(p)
  /\ UNCHANGED <<backup, config, settings, version, zsh, used>>

\* The generated files go one after the other.
RemoveSettings(p) ==
  /\ At(p, "unset") /\ Goes(p, "unversion")
  /\ settings' = Absent /\ version' = [version EXCEPT !.fresh = FALSE] /\ Replaced
  /\ UNCHANGED <<zshrc, backup, config, used, users>>

RemoveVersion(p) ==
  /\ At(p, "unversion") /\ Goes(p, IF proc[p].kind = "purge" THEN "purge" ELSE "over")
  /\ version' = [n |-> 0, fresh |-> FALSE]
  /\ UNCHANGED <<zshrc, backup, config, settings, zsh, used, users>>

\* The whole directory, with what others wrote into it since.
Purge(p) ==
  /\ At(p, "purge") /\ Goes(p, "over")
  /\ config' = Absent /\ settings' = Absent /\ version' = [n |-> 0, fresh |-> FALSE] /\ Replaced
  /\ UNCHANGED <<zshrc, backup, used, users>>

-----------------------------------------------------------------------------
(* config.toml.                                                              *)

\* Where a command goes on when there is a configuration.
Configured(p) ==
  CASE Installs(p) \/ proc[p].kind = "validate" -> "settings"
    [] proc[p].kind = "edit" -> "edit"
    [] proc[p].kind \in {"set", "onboard"} /\ ~Installs(p) -> "load"
    [] proc[p].kind = "toggle" -> "over"

CheckConfig(p) ==
  /\ At(p, "config")
  /\ Goes(p, IF config = Absent THEN "create" ELSE Configured(p))
  /\ UNCHANGED <<zshrc, backup, config, settings, version, zsh, used, users>>

CreateConfig(p) ==
  /\ At(p, "create") /\ Goes(p, Configured(p))
  /\ config' = Defaults
  /\ UNCHANGED <<zshrc, backup, settings, version, zsh, used, users>>

\* `config set` and onboard read the whole file; one that does not parse, or is
\* gone, ends them.
LoadConfig(p) ==
  /\ At(p, "load")
  /\ IF config \in Configs THEN GoesWith(p, "change", config) ELSE Goes(p, "over")
  /\ UNCHANGED <<zshrc, backup, config, settings, version, zsh, used, users>>

\* A key that conflicts is refused: `config set` ends, onboard keeps the old one
\* and goes on to the next.
SetValue(c, w, k) == [c EXCEPT ![w] = k]
Calibrated(c, w, k) == IF SetValue(c, w, k) \in Configs THEN SetValue(c, w, k) ELSE c

ChangeConfig(p) ==
  /\ At(p, "change")
  /\ \E j, k \in Keys, w \in Widgets :
       LET old == proc[p].conf
           sets == proc[p].kind = "set"
           new == IF sets THEN SetValue(old, w, k)
                  ELSE Calibrated(Calibrated(old, "complete", j), "chat", k)
       IN  CASE new \notin Configs -> Goes(p, "over")
             [] ~sets /\ new = old -> Goes(p, "settings")
             [] OTHER -> GoesWith(p, "save", new)
  /\ UNCHANGED <<zshrc, backup, config, settings, version, zsh, used, users>>

SaveConfig(p) ==
  /\ At(p, "save") /\ GoesWith(p, "settings", Absent)
  /\ config' = proc[p].conf
  /\ UNCHANGED <<zshrc, backup, settings, version, zsh, used, users>>

\* `config edit`: the user's editor writes the file itself.
EditConfig(p) ==
  /\ At(p, "edit") /\ Goes(p, "settings")
  /\ config' \in Configs \cup {Malformed, config}
  /\ UNCHANGED <<zshrc, backup, settings, version, zsh, used, users>>

-----------------------------------------------------------------------------
(* write_shell_settings: it loads the configuration as it is now, and fails  *)
(* on a malformed one; the version follows its settings.                     *)

LoadSettings(p) ==
  /\ At(p, "settings")
  /\ IF config \in Configs THEN GoesWith(p, "keys", config) ELSE Goes(p, "over")
  /\ UNCHANGED <<zshrc, backup, config, settings, version, zsh, used, users>>

\* Mutant: the version first.
VersionFirst(step) == IF step = "keys" THEN "version" ELSE "settings"

Writes(step) == IF step = "keys" THEN "settings" ELSE "version"

WriteSettings(p) ==
  /\ proc[p].at \in {"keys", "version"}
  /\ Goes(p, IF At(p, "keys") THEN "version"
             ELSE IF Installs(p) THEN "zshrc" ELSE "over")
  /\ IF Writes(proc[p].at) = "settings"
     THEN /\ settings' = proc[p].conf /\ Replaced
          /\ version' = [version EXCEPT !.fresh = At(p, "version")]
          /\ UNCHANGED used
     ELSE /\ used' = [used EXCEPT !.versions = @ + 1]
          /\ version' = [n |-> used.versions + 1, fresh |-> At(p, "version")]
          /\ UNCHANGED <<settings, zsh>>
  /\ UNCHANGED <<zshrc, backup, config, users>>

-----------------------------------------------------------------------------
(* A shell's prompt: _aicoach_refresh_settings and _aicoach_reload_settings. *)

Prompt(s) ==
  /\ zsh[s].at = "prompt" /\ version.n # 0 /\ version.n # zsh[s].version
  /\ zsh' = [zsh EXCEPT ![s].at = "source"]
  /\ UNCHANGED <<zshrc, backup, config, settings, version, proc, used, users>>

\* Mutant: the old keys are released after the new ones are bound.
ReboundLate(keys, old, new) ==
  [k \in Keys |-> IF \E w \in Widgets : old[w] = k /\ Bound(keys, new)[k] = w THEN "none"
                  ELSE Bound(keys, new)[k]]

\* A key is released only if it still runs the widget it was bound to.
Rebound(keys, old, new) ==
  Bound([k \in Keys |-> IF \E w \in Widgets : old[w] = k /\ keys[k] = w THEN "none" ELSE keys[k]],
        new)

\* Without a settings file the defaults.
Effective == IF settings = Absent THEN Defaults ELSE settings

Source(s) ==
  /\ zsh[s].at = "source"
  /\ zsh' = [zsh EXCEPT ![s].at = "version", ![s].settings = Effective, ![s].raced = FALSE,
                            ![s].keys = Rebound(@, zsh[s].settings, Effective)]
  /\ UNCHANGED <<zshrc, backup, config, settings, version, proc, used, users>>

ReadVersion(s) ==
  /\ zsh[s].at = "version"
  /\ zsh' = [zsh EXCEPT ![s].at = "prompt",
                            ![s].version = IF version.n = 0 THEN @ ELSE version.n]
  /\ UNCHANGED <<zshrc, backup, config, settings, version, proc, used, users>>

-----------------------------------------------------------------------------
(* The user.                                                                 *)

FirstStep(kind) == IF kind \in {"uninstall", "purge"} THEN "unhook" ELSE "config"

\* onboard installs first if the block or the integration is missing.
Run(p, kind) ==
  /\ At(p, "over") /\ used.commands < MaxCommands
  /\ used' = [used EXCEPT !.commands = @ + 1]
  /\ \E needed \in BOOLEAN :
       /\ needed => kind = "onboard"
       /\ kind = "onboard" /\ ~HasCompleteBlock(zshrc.lines) => needed
       /\ proc' = [proc EXCEPT ![p] = [NoCommand EXCEPT !.kind = kind, !.at = FirstStep(kind),
                                         !.lines = IF needed THEN Needed ELSE None]]
  /\ UNCHANGED <<zshrc, backup, config, settings, version, zsh, users>>

\* A step that fails ends the command in the same way.
Kill(p) ==
  /\ ~At(p, "over") /\ Goes(p, "over")
  /\ UNCHANGED <<zshrc, backup, config, settings, version, zsh, used, users>>

\* Adds a line of their own, or removes the end of the block.
Without(lines, line) == Only(lines, {i \in DOMAIN lines : lines[i] # line})

EditZshrc ==
  /\ used.edits + used.bound < MaxOwnEdits /\ used' = [used EXCEPT !.edits = @ + 1]
  /\ \E new \in {Append(zshrc.lines, "u2"), Without(zshrc.lines, "END")} :
       /\ new # zshrc.lines
       /\ zshrc' = [lines |-> new, kind |-> IF zshrc.kind = "absent" THEN "file" ELSE zshrc.kind]
       /\ users' = Own(new)
  /\ UNCHANGED <<backup, config, settings, version, proc, zsh>>

BindKey(s) ==
  /\ used.edits + used.bound < MaxOwnEdits /\ used' = [used EXCEPT !.bound = @ + 1]
  /\ zsh' = [zsh EXCEPT ![s].keys[UserKey] = "user"]
  /\ UNCHANGED <<zshrc, backup, config, settings, version, proc, users>>

SetupNext ==
  \/ \E p \in Consoles :
       \/ \E kind \in Kinds : Run(p, kind)
       \/ Kill(p) \/ CheckConfig(p) \/ CreateConfig(p) \/ LoadConfig(p) \/ ChangeConfig(p)
       \/ SaveConfig(p) \/ EditConfig(p) \/ LoadSettings(p) \/ WriteSettings(p)
       \/ ReadZshrc(p) \/ Backup(p) \/ AppendBlock(p) \/ ReadBlock(p) \/ RemoveBlock(p)
       \/ RemoveSettings(p) \/ RemoveVersion(p) \/ Purge(p)
  \/ \E s \in Loaded : Prompt(s) \/ Source(s) \/ ReadVersion(s) \/ BindKey(s)
  \/ EditZshrc

SetupSpec == SetupInit /\ [][SetupNext]_setupVars

-----------------------------------------------------------------------------
\* Whatever installs and uninstalls overlap, fail or are killed, on whatever file
\* they find, the user's lines stay, in order, except an edit made while a command
\* held an older copy; and there is one block at most.
UserLinesAreKept ==
  /\ users \in {Own(zshrc.lines), Lost}
  /\ \A i, j \in DOMAIN zshrc.lines : zshrc.lines[i] = "START" /\ zshrc.lines[j] = "START" => i = j

\* A shell at its prompt that has the version of the settings has those settings,
\* unless they were replaced between its reading them and its reading the version.
SettingsAreTaken ==
  \A s \in Loaded :
    (zsh[s].at = "prompt" /\ version.fresh /\ version.n = zsh[s].version) =>
      zsh[s].settings = Effective \/ zsh[s].raced

\* However the shortcuts move, each key of the settings runs its widget, unless the
\* user bound it to one of their own since, and no other key does.
KeysRunTheirWidgets ==
  \A s \in Loaded :
    /\ \A w \in Widgets : zsh[s].keys[zsh[s].settings[w]] \in {w, "user"}
    /\ \A k \in Keys : zsh[s].keys[k] \in Widgets => zsh[s].settings[zsh[s].keys[k]] = k

\* A shell that has the version of the settings has the settings, and its keys run them.
ShellsTakeSettings == SettingsAreTaken /\ KeysRunTheirWidgets

\* Does not hold.  onboarding.rs:244: "Changed shortcuts reload automatically at the
\* next prompt."
ChangedShortcutsReload ==
  \A s \in Loaded :
    (zsh[s].at = "prompt" /\ version.fresh /\ version.n = zsh[s].version) =>
      zsh[s].settings = Effective
=============================================================================

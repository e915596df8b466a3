------------------------- MODULE ProviderAuthorization -------------------------
(***************************************************************************)
(* Which provider may be sent which credential.  `config setup` reviews a  *)
(* provider target, stores the review as a digest, writes the launcher of  *)
(* the daemon and restarts it (aicoach-cli/src/provider_setup.rs and       *)
(* main.rs); the daemon compares the digest on its command line with its   *)
(* configuration before it uses a credential (aicoach-daemon/src/main.rs). *)
(* Several commands may run at once, and anybody may edit the              *)
(* configuration.                                                          *)
(*                                                                         *)
(* A target stands for Base URL and key variable.  One action is one read  *)
(* or write of the files, the Keychain or the daemon, or one question;     *)
(* reads that follow each other directly are one action.                   *)
(***************************************************************************)
EXTENDS Naturals, FiniteSets

CONSTANTS Clis,        \* command lines open at once
          Targets,
          Exported,    \* command lines whose shell exports the credential
          MaxCommands, \* bound: commands ever started
          MaxEvents,   \* bound: edits, damage and daemons that stop
          NoFile, Invalid, Idle, None

VARIABLES config,    \* NoFile or [target, enabled]
          auth,      \* provider-authorization.toml: NoFile, Invalid or a digest
          keychain,  \* a credential is stored
          wrapper,   \* the aicoachd-keychain script exists
          plist,     \* NoFile or [wrapped, source, digest]
          daemon,    \* [at, source, digest, key, target]
          cli,       \* each command line: Idle or its local variables
          commands, events,
          reviewed,  \* ghost: <<source, target>> pairs the user agreed to
          report     \* ghost: what a command that had the files for itself reported

files == <<config, auth, wrapper, plist>>
bounds == <<commands, events>>
ghosts == <<reviewed, report>>
vars == <<files, keychain, daemon, cli, bounds, ghosts>>

Sources == {"keychain", "environment"}

\* None is no credential's source, no digest and nobody who launches a daemon,
\* NoFile no configuration, and Idle no command line.
ASSUME AuthorizationAssumption ==
  /\ None \notin Sources \cup (Sources \X Targets \X BOOLEAN)
  /\ None # "shell"
  /\ NoFile \notin [target : Targets, enabled : BOOLEAN]
  /\ Idle \notin Clis

\* Mutant: the digest does not cover the target.
DigestOfSource(c, source) == <<source, c.enabled>>

\* DaemonAuthorization: mode and digest.  A digest binds a source to the target
\* and to whether the provider is enabled (provider_authorization_digest).
Digest(c, source) == <<source, c.target, c.enabled>>
Bound(c, mode) == [mode |-> mode, digest |-> Digest(c, mode)]
Legacy(mode) == [mode |-> mode, digest |-> None]

\* authorization_matches_config
Matches(a, c) == a.digest # None /\ a.digest = Digest(c, a.mode)

Down == [at |-> "down", by |-> None, source |-> None, digest |-> None, key |-> None,
         target |-> None]
Running == daemon.at = "up"

\* A machine without any of it, or one where a target was set up before.
Init ==
  /\ keychain \in BOOLEAN
  /\ \/ /\ config = NoFile /\ auth = NoFile /\ reviewed = {}
        /\ wrapper = FALSE /\ plist = NoFile
     \/ \E t \in Targets, source \in Sources :
          /\ config = [target |-> t, enabled |-> TRUE]
          /\ auth = Bound(config, source) /\ reviewed = {<<source, t>>}
          /\ wrapper = (source = "keychain")
          /\ plist = [wrapped |-> wrapper, source |-> source, digest |-> auth.digest]
  /\ daemon = Down
  /\ cli = [c \in Clis |-> Idle]
  /\ commands = 0 /\ events = 0 /\ report = None

\* Somebody else acts: whoever is at work is no longer alone.
Disturbed(c) ==
  [d \in Clis |-> IF d = c \/ cli[d] = Idle THEN cli[d] ELSE [cli[d] EXCEPT !.alone = FALSE]]
Step(c, local) == cli' = [Disturbed(c) EXCEPT ![c] = local]
Goto(c, at) == Step(c, [cli[c] EXCEPT !.at = at])
Bail(c) == Step(c, Idle)
At(c, at) == cli[c] # Idle /\ cli[c].at = at

-----------------------------------------------------------------------------
(* Starting the daemon.                                                      *)

\* provider_network_is_authorized
Authorized(source, digest, c) == source \in Sources /\ digest = Digest(c, source)

\* configured_provider: local-only unless enabled, authorized and given a key.
Provider(d, c) ==
  IF c.enabled /\ Authorized(d.source, d.digest, c) /\ d.key # None
  THEN [d EXCEPT !.at = "up", !.target = c.target]
  ELSE [d EXCEPT !.at = "up", !.key = None]

\* A daemon that was launched reads the configuration, or makes a default one.
DaemonReads ==
  /\ daemon.at = "booting"
  /\ \E t \in Targets :
       LET c == IF config = NoFile THEN [target |-> t, enabled |-> FALSE] ELSE config
       IN  daemon' = Provider(daemon, c) /\ config' = c
  /\ UNCHANGED <<auth, wrapper, plist, keychain, cli, bounds, ghosts>>

Launched(by, source, digest, key) ==
  [at |-> "booting", by |-> by, source |-> source, digest |-> digest, key |-> key,
   target |-> None]

\* start_prepared_daemon: a child that inherits the shell's credential, or the
\* launch agent, whose wrapper reads the Keychain and whose plain form clears
\* the variable.  Either ends the agent's daemon first; another daemon that
\* runs keeps the socket, and the new one exits.
Launch(a, available) ==
  IF daemon.by = "shell" THEN UNCHANGED daemon
  ELSE IF a.mode = "environment" /\ available
  THEN daemon' = Launched("shell", a.mode, a.digest, "environment")
  ELSE daemon' = IF plist.wrapped
                 THEN IF wrapper /\ keychain
                      THEN Launched("agent", plist.source, plist.digest, "keychain") ELSE Down
                 ELSE Launched("agent", plist.source, plist.digest, None)

StartDaemon(c) ==
  /\ At(c, "launch")
  /\ IF plist = NoFile /\ ~(cli[c].auth.mode = "environment" /\ cli[c].available)
     THEN Bail(c) /\ UNCHANGED daemon
     ELSE Launch(cli[c].auth, cli[c].available) /\ Goto(c, "wait")
  /\ UNCHANGED <<files, keychain, bounds, ghosts>>

\* ... until it answers, or ten seconds.
Wait(c) ==
  /\ At(c, "wait")
  /\ \/ Running /\ Goto(c, "check")
     \/ Bail(c)
  /\ UNCHANGED <<files, keychain, daemon, bounds, ghosts>>

\* configure_daemon_launcher, its credential ...
Available(c, a) ==
  /\ a.digest # None
  /\ \/ a.mode = "keychain" /\ keychain
     \/ a.mode = "environment" /\ c \in Exported

\* ... and the launcher it writes; without the credential it is local-only.
Launcher(c, a) ==
  [wrapped |-> a.mode = "keychain" /\ Available(c, a),
   source  |-> IF Available(c, a) THEN a.mode ELSE "local-only",
   digest  |-> a.digest]

\* write_keychain_wrapper writes the script, then the agent; otherwise the
\* script is removed first and the agent written then.
WriteWrapper(c) ==
  /\ At(c, "configure")
  /\ LET a == cli[c].auth
     IN  IF cli[c].require /\ ~Available(c, a)
         THEN Bail(c) /\ UNCHANGED wrapper
         ELSE /\ wrapper' = Launcher(c, a).wrapped
              /\ Step(c, [cli[c] EXCEPT !.at = "agent", !.available = Available(c, a),
                                        !.launcher = Launcher(c, a)])
  /\ UNCHANGED <<config, auth, plist, keychain, daemon, bounds, ghosts>>

WriteAgent(c) ==
  /\ At(c, "agent")
  /\ plist' = cli[c].launcher
  /\ Step(c, [cli[c] EXCEPT !.launcher = NoFile, !.require = FALSE,
                !.at = CASE cli[c].op \in {"setup", "bind"} -> "authorize"
                         [] cli[c].op = "start" -> "ping"
                         [] cli[c].op = "delete" /\ ~cli[c].wasRunning -> "check"
                         [] cli[c].op = "delete" -> "launch"
                         [] OTHER -> "refresh"])
  /\ UNCHANGED <<config, auth, wrapper, keychain, daemon, bounds, ghosts>>

\* save_daemon_authorization
SaveAuthorization(c) ==
  /\ At(c, "authorize")
  /\ auth' = cli[c].auth
  /\ Goto(c, "refresh")
  /\ UNCHANGED <<config, wrapper, plist, keychain, daemon, bounds, ghosts>>

\* stop: a daemon that was spawned and has not come up is not found.
Stopped == IF daemon.at = "booting" /\ daemon.by = "shell" THEN {daemon, Down} ELSE {Down}

\* refresh_prepared_daemon: only a daemon that runs is stopped and started.
Refresh(c) ==
  /\ At(c, "refresh") /\ cli[c].op # "install"
  /\ IF Running
     THEN \/ /\ daemon' \in Stopped
             /\ Step(c, [cli[c] EXCEPT !.at = "launch", !.wasRunning = TRUE])
          \/ Bail(c) /\ UNCHANGED daemon
     ELSE Goto(c, "check") /\ UNCHANGED daemon
  /\ UNCHANGED <<files, keychain, bounds, ghosts>>

-----------------------------------------------------------------------------
(* start, install, set-key and delete-key.                                   *)

Command(op, at) ==
  [op |-> op, at |-> at,
   alone |-> daemon.at # "booting" /\ \A d \in Clis : cli[d] = Idle,
   auth |-> None, require |-> FALSE, available |-> FALSE,
   wasRunning |-> op = "install" /\ Running, launcher |-> NoFile, plan |-> None, original |-> None,
   seen |-> None, saved |-> None]

Begin(c) ==
  /\ cli[c] = Idle /\ commands < MaxCommands
  /\ commands' = commands + 1
  /\ \E op \in {"setup", "set-key", "start", "install", "delete"} :
       Step(c, Command(op, CASE op = "setup" -> "read" [] op = "set-key" -> "key"
                             [] op = "delete" -> "stop" [] OTHER -> "resolve"))
  /\ report' = None
  /\ UNCHANGED <<files, keychain, daemon, events, reviewed>>

\* resolve_daemon_authorization: what is stored if it is of this configuration.
Resolve(c) ==
  /\ At(c, "resolve")
  /\ IF config = NoFile /\ cli[c].op # "install"
     THEN Bail(c) /\ UNCHANGED config
     ELSE \E t \in Targets :
            LET now == IF config = NoFile THEN [target |-> t, enabled |-> FALSE] ELSE config
                a == IF auth = NoFile
                     THEN Legacy(IF keychain THEN "keychain"
                                 ELSE IF c \in Exported THEN "environment" ELSE "local-only")
                     ELSE IF auth # Invalid /\ Matches(auth, now) THEN auth
                     ELSE Bound(now, "local-only")
            IN  /\ config' = now
                /\ Step(c, [cli[c] EXCEPT !.at = "configure", !.auth = a])
  /\ UNCHANGED <<auth, wrapper, plist, keychain, daemon, bounds, ghosts>>

\* start_with_authorization leaves a daemon that answers alone.
Ping(c) ==
  /\ At(c, "ping")
  /\ Goto(c, IF Running THEN "check" ELSE "launch")
  /\ UNCHANGED <<files, keychain, daemon, bounds, ghosts>>

\* install stops the daemon and, unless told not to, starts one as start does.
Reinstall(c) ==
  /\ At(c, "refresh") /\ cli[c].op = "install"
  /\ daemon' \in IF cli[c].wasRunning THEN Stopped ELSE {daemon}
  /\ \/ Step(c, [cli[c] EXCEPT !.op = "start", !.at = "resolve"])
     \/ Bail(c)
  /\ UNCHANGED <<files, keychain, bounds, ghosts>>

\* prompt_and_store_keychain_key
StoreKey(c) ==
  /\ At(c, "key")
  /\ \/ Bail(c) /\ UNCHANGED keychain
     \/ /\ keychain' = TRUE
        /\ Goto(c, IF cli[c].op = "setup" THEN "key stored" ELSE "decide")
  /\ UNCHANGED <<files, daemon, bounds, ghosts>>

\* set_keychain_key, authorization_after_key_storage: an authorization of this
\* very target moves to the Keychain, any other stays what it is.
Decide(c) ==
  /\ At(c, "decide")
  /\ IF config = NoFile THEN Bail(c) /\ UNCHANGED reviewed
     ELSE LET known == auth # NoFile /\ auth # Invalid
              rebind == known /\ config.enabled /\ auth.mode \in Sources /\ Matches(auth, config)
          IN  IF rebind
              THEN /\ Step(c, [cli[c] EXCEPT !.op = "bind", !.at = "configure", !.require = TRUE,
                                             !.auth = Bound(config, "keychain"), !.plan = config])
                   /\ reviewed' = reviewed \cup {<<"keychain", config.target>>}
              ELSE IF known
              THEN /\ Step(c, [cli[c] EXCEPT !.at = "configure", !.auth = auth])
                   /\ UNCHANGED reviewed
              ELSE /\ Step(c, [cli[c] EXCEPT !.op = "bind", !.at = "configure",
                                             !.auth = Bound(config, "local-only")])
                   /\ UNCHANGED reviewed
  /\ UNCHANGED <<files, keychain, daemon, bounds, report>>

\* delete_keychain_key: the daemon first, then the key, then the launcher.
StopForDelete(c) ==
  /\ At(c, "stop")
  /\ \/ /\ daemon' \in IF Running THEN Stopped ELSE {daemon}
        /\ Step(c, [cli[c] EXCEPT !.at = "delete", !.wasRunning = Running])
     \/ Running /\ Bail(c) /\ UNCHANGED daemon
  /\ UNCHANGED <<files, keychain, bounds, ghosts>>

\* Mutant: the launcher is left as it was.
DeleteKeyOnly(c) ==
  /\ At(c, "delete")
  /\ keychain' = FALSE /\ Goto(c, "check")
  /\ UNCHANGED <<files, daemon, bounds, ghosts>>

DeleteKey(c) ==
  /\ At(c, "delete")
  /\ IF keychain THEN keychain' = FALSE /\ Goto(c, "resolve")
     ELSE UNCHANGED keychain /\ Bail(c)
  /\ UNCHANGED <<files, daemon, bounds, ghosts>>

-----------------------------------------------------------------------------
(* config setup.                                                             *)

ReadConfig(c) ==
  /\ At(c, "read")
  /\ Step(c, [cli[c] EXCEPT !.at = "load", !.original = [config |-> config, auth |-> auth]])
  /\ UNCHANGED <<files, keychain, daemon, bounds, ghosts>>

\* load_current_config, credential_availability and existing_authorization.
Load(c) ==
  /\ At(c, "load")
  /\ \E t \in Targets :
       LET now == IF config = NoFile THEN [target |-> t, enabled |-> FALSE] ELSE config
       IN  Step(c, [cli[c] EXCEPT !.at = "answer",
                      !.seen = [config |-> now,
                                keychain |-> keychain, environment |-> c \in Exported,
                                bound |-> IF auth = NoFile THEN "legacy"
                                          ELSE IF auth # Invalid /\ auth.mode \in Sources
                                                  /\ Matches(auth, now)
                                          THEN auth.mode ELSE "review"]])
  /\ UNCHANGED <<files, keychain, daemon, bounds, ghosts>>

\* The credential setup proposes: the authorized one while it is there.
Candidate(seen) ==
  IF seen.bound \in Sources /\ seen[seen.bound] THEN seen.bound
  ELSE IF seen.keychain THEN "keychain"
  ELSE IF seen.environment THEN "environment" ELSE None

\* ... and when the user must agree to send it to this target.
MustConfirm(seen, target) ==
  LET changed == target # seen.config.target
  IN  /\ Candidate(seen) # None
      /\ CASE seen.bound \in Sources -> changed \/ Candidate(seen) # seen.bound
           [] seen.bound = "legacy" -> changed \/ ~seen.config.enabled
           [] OTHER -> TRUE

\* Source and key storage, by what the user answers to the questions asked.
Decisions(seen, confirmed) ==
  IF (seen.keychain \/ seen.environment) /\ ~confirmed THEN {<<None, FALSE>>}
  ELSE CASE Candidate(seen) = "keychain" -> {<<"keychain", FALSE>>}
         [] Candidate(seen) = "environment" /\ seen.keychain ->
              {<<"environment", FALSE>>, <<"keychain", FALSE>>}
         [] Candidate(seen) = "environment" -> {<<"environment", FALSE>>, <<"keychain", TRUE>>}
         [] OTHER -> {<<None, FALSE>>, <<"keychain", TRUE>>}

\* collect_plan_with_authorization: target, consent, source, connection check.
\* The ghost records consent: a yes, a key entered for the target, or the target
\* and source kept as they were.
Answer(c) ==
  /\ At(c, "answer")
  /\ \/ \E target \in Targets, yes \in BOOLEAN, flight \in BOOLEAN :
          LET seen == cli[c].seen
              asked == MustConfirm(seen, target)
              confirmed == IF asked THEN yes ELSE Candidate(seen) # None
          IN  \E choice \in Decisions(seen, confirmed) :
                /\ flight => choice[1] # None
                /\ Step(c, [cli[c] EXCEPT
                              !.at = IF flight /\ ~choice[2] THEN "flight" ELSE "check config",
                              !.plan = [target |-> target, enabled |-> choice[1] # None],
                              !.auth = [mode |-> choice[1], digest |-> None],
                              !.available = flight, !.require = choice[2],
                              !.seen = None])
                /\ reviewed' = IF choice[1] = None \/ (~asked /\ target # seen.config.target
                                                       /\ ~choice[2])
                               THEN reviewed
                               ELSE reviewed \cup {<<choice[1], target>>}
     \/ Bail(c) /\ UNCHANGED reviewed
  /\ UNCHANGED <<files, keychain, daemon, bounds, report>>

\* The check with an existing credential comes before anything is saved.
FlightCheck(c) ==
  /\ At(c, "flight")
  /\ \/ Bail(c)
     \/ /\ auth = cli[c].original.auth
        /\ cli[c].auth.mode = "keychain" => keychain
        /\ Goto(c, "check config")
  /\ UNCHANGED <<files, keychain, daemon, bounds, ghosts>>

\* ensure_config_unchanged, then ensure_authorization_unchanged
EnsureUnchanged(c) ==
  \/ /\ At(c, "check config")
     /\ IF config = cli[c].original.config THEN Goto(c, "check auth") ELSE Bail(c)
     /\ UNCHANGED <<files, keychain, daemon, bounds, ghosts>>
  \/ /\ At(c, "check auth")
     /\ IF auth = cli[c].original.auth THEN Goto(c, "save") ELSE Bail(c)
     /\ UNCHANGED <<files, keychain, daemon, bounds, ghosts>>

\* The plan is saved, and read back to notice later changes.
SaveConfig(c) ==
  \/ /\ At(c, "save")
     /\ config' = cli[c].plan
     /\ Goto(c, "read back")
     /\ UNCHANGED <<auth, wrapper, plist, keychain, daemon, bounds, ghosts>>
  \/ /\ At(c, "read back")
     /\ Step(c, [cli[c] EXCEPT !.saved = config,
                               !.at = IF cli[c].require THEN "key" ELSE "verify"])
     /\ UNCHANGED <<files, keychain, daemon, bounds, ghosts>>

\* A new key was stored: the check it was asked for comes now.
KeyStored(c) ==
  /\ At(c, "key stored")
  /\ IF config # cli[c].saved THEN Bail(c)
     ELSE Goto(c, "verify") \/ (cli[c].available /\ Bail(c))
  /\ UNCHANGED <<files, keychain, daemon, bounds, ghosts>>

\* Mutant: what is bound is the plan before it was disabled.
VerifyEnabled(c) ==
  LET mode == IF cli[c].auth.mode = None THEN "local-only" ELSE cli[c].auth.mode
  IN  /\ At(c, "verify")
      /\ Step(c, [cli[c] EXCEPT !.at = "configure", !.require = mode # "local-only",
                                !.auth = Bound([cli[c].plan EXCEPT !.enabled = TRUE], mode)])
      /\ UNCHANGED <<files, keychain, daemon, bounds, ghosts>>

\* ensure_saved_config_unchanged and ensure_authorization_unchanged, then the
\* authorization of the plan, whatever the file now says.
Verify(c) ==
  LET mode == IF cli[c].auth.mode = None THEN "local-only" ELSE cli[c].auth.mode
  IN  /\ At(c, "verify")
      /\ IF config # cli[c].saved \/ auth # cli[c].original.auth THEN Bail(c)
         ELSE Step(c, [cli[c] EXCEPT !.at = "configure", !.auth = Bound(cli[c].plan, mode),
                                     !.require = mode # "local-only", !.available = FALSE,
                                     !.original = None])
      /\ UNCHANGED <<files, keychain, daemon, bounds, ghosts>>

-----------------------------------------------------------------------------
\* The end of a command.  Setup looks at both files once more, and stops the
\* daemon it started when they are not what it wrote.
Success(c) ==
  /\ Bail(c)
  /\ report' = IF cli[c].alone
               THEN [op |-> cli[c].op, auth |-> cli[c].auth, plan |-> cli[c].plan,
                     restarted |-> cli[c].wasRunning]
               ELSE None
Finish(c) ==
  /\ At(c, "check")
  /\ IF cli[c].op = "setup" /\ (config # cli[c].saved \/ auth # cli[c].auth)
     THEN /\ daemon' \in IF cli[c].wasRunning THEN Stopped ELSE {daemon}
          /\ Bail(c) /\ UNCHANGED report
     ELSE Success(c) /\ UNCHANGED daemon
  /\ UNCHANGED <<files, keychain, bounds, reviewed>>

\* config set, an editor, or anything else writes the configuration.
EditConfig ==
  /\ events < MaxEvents /\ events' = events + 1
  /\ config' \in [target : Targets, enabled : BOOLEAN] \ {config}
  /\ cli' = Disturbed(Idle)
  /\ report' = None
  /\ UNCHANGED <<auth, wrapper, plist, keychain, daemon, commands, reviewed>>

\* The authorization file is damaged.
DamageAuthorization ==
  /\ events < MaxEvents /\ events' = events + 1
  /\ auth \notin {NoFile, Invalid} /\ auth' = Invalid
  /\ cli' = Disturbed(Idle)
  /\ report' = None
  /\ UNCHANGED <<config, wrapper, plist, keychain, daemon, commands, reviewed>>

\* The daemon ends: stopped by the user, or on its own.
DaemonStops ==
  /\ events < MaxEvents /\ events' = events + 1
  /\ daemon # Down /\ daemon' = Down
  /\ cli' = Disturbed(Idle)
  /\ report' = None
  /\ UNCHANGED <<files, keychain, commands, reviewed>>

Next ==
  \/ DaemonReads \/ EditConfig \/ DamageAuthorization \/ DaemonStops
  \/ \E c \in Clis :
       \/ Begin(c) \/ Resolve(c) \/ WriteWrapper(c) \/ WriteAgent(c)
       \/ SaveAuthorization(c) \/ Refresh(c) \/ Reinstall(c) \/ Ping(c)
       \/ StartDaemon(c) \/ Wait(c) \/ StoreKey(c) \/ Decide(c)
       \/ StopForDelete(c) \/ DeleteKey(c)
       \/ ReadConfig(c) \/ Load(c) \/ Answer(c) \/ FlightCheck(c)
       \/ EnsureUnchanged(c) \/ SaveConfig(c) \/ KeyStored(c) \/ Verify(c) \/ Finish(c)

Spec == Init /\ [][Next]_vars

-----------------------------------------------------------------------------
\* Whatever commands, edits and restarts cross each other: a daemon that may send
\* a credential to a provider uses one the user agreed to send to that target.
KeyGoesWhereReviewed ==
  (Running /\ daemon.key # None) => <<daemon.key, daemon.target>> \in reviewed

\* A setup that had the machine for itself and reports success has bound the
\* configuration it saved: file, authorization and launcher agree, and a daemon
\* it restarted uses the credential chosen, or none.
ReportedSetupTakesEffect ==
  (report # None /\ report.op = "setup") =>
    /\ config = report.plan /\ auth = report.auth
    /\ auth = Bound(config, auth.mode)
    /\ plist.source = auth.mode /\ plist.digest = auth.digest
    /\ report.restarted =>
         /\ Running
         /\ daemon.key = IF auth.mode = "local-only" THEN None ELSE auth.mode

\* After a deletion that had the machine for itself, no daemon and no launcher
\* holds on to the Keychain credential.
DeletedKeyIsGone ==
  (report # None /\ report.op = "delete") =>
    /\ ~keychain /\ ~wrapper
    /\ daemon.key # "keychain" /\ ~(plist # NoFile /\ plist.wrapped)

\* What a command reports as done is what the files say and the daemon does.
ReportsTakeEffect == ReportedSetupTakesEffect /\ DeletedKeyIsGone
=============================================================================

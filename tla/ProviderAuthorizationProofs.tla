---------------------- MODULE ProviderAuthorizationProofs ----------------------
(***************************************************************************)
(* ProviderAuthorization for any number of command lines, commands, edits  *)
(* and restarts, and any set of targets: a daemon that may send a          *)
(* credential sends it where the user agreed to.                           *)
(*                                                                         *)
(* That a daemon was launched long after the review, from files that other *)
(* commands wrote meanwhile, does not matter: what carries the promise is  *)
(* the digest.  The invariant says that every digest of an enabled target  *)
(* and a source, wherever it is (in the authorization file, the launch     *)
(* agent, the daemon's arguments, or the locals of a command under way),   *)
(* was agreed to; and that what setup is about to save was agreed to       *)
(* before there is a digest of it.                                         *)
(*                                                                         *)
(* And what a command that had the machine for itself reports to have done *)
(* has taken effect: see `What a command reports' below.                   *)
(***************************************************************************)
EXTENDS ProviderAuthorization, TLAPS

ConfigType == [target : Targets, enabled : BOOLEAN]

\* A digest binds what was agreed to, or no source to an enabled target.
Good(digest, agreed) ==
  \A s \in Sources, t \in Targets : digest = <<s, t, TRUE>> => <<s, t>> \in agreed

FitLauncher(p, agreed) == Good(p.digest, agreed) /\ (p.wrapped => p.source = "keychain")

\* A key is of the source on the command line; a daemon that is up was checked.
FitDaemon(d, agreed) ==
  /\ DOMAIN d = {"at", "by", "source", "digest", "key", "target"}
  /\ d.key = None \/ d.key = d.source
  /\ Good(d.digest, agreed)
  /\ d.at = "up" /\ d.key # None => <<d.key, d.target>> \in agreed

FitPlan(plan, mode, agreed) ==
  /\ plan \in ConfigType
  /\ mode \in Sources /\ plan.enabled => <<mode, plan.target>> \in agreed

Fields == {"op", "at", "alone", "auth", "require", "available", "wasRunning", "launcher",
           "plan", "original", "seen", "saved"}

\* Where a command holds a digest it will pass on, and where setup holds its plan.
Binding  == {"configure", "agent", "authorize", "refresh", "ping", "launch"}
Planning == {"flight", "check config", "check auth", "save", "read back", "key stored", "verify"}

FitLocal(x, agreed) ==
  /\ DOMAIN x = Fields
  /\ x.at \in Binding => Good(x.auth.digest, agreed)
  /\ x.at = "agent" => FitLauncher(x.launcher, agreed)
  /\ x.at \in Planning \/ (x.at = "key" /\ x.op = "setup") => FitPlan(x.plan, x.auth.mode, agreed)

ConfigFits == config = NoFile \/ config \in ConfigType
AuthFits   == auth = NoFile \/ auth = Invalid \/ Good(auth.digest, reviewed)
AgentFits  == plist = NoFile \/ FitLauncher(plist, reviewed)
DaemonFits == FitDaemon(daemon, reviewed)
LocalsFit  == /\ DOMAIN cli = Clis
              /\ \A c \in Clis : cli[c] = Idle \/ FitLocal(cli[c], reviewed)

IInv == ConfigFits /\ AuthFits /\ AgentFits /\ DaemonFits /\ LocalsFit

-----------------------------------------------------------------------------
(* What the parts of the invariant say of the operators of the model.        *)

\* Whatever fits goes on fitting when the user agrees to more.
LEMMA MoreIsAgreed ==
  ASSUME NEW agreed, NEW more, agreed \subseteq more
  PROVE  /\ \A d : Good(d, agreed) => Good(d, more)
         /\ \A p : FitLauncher(p, agreed) => FitLauncher(p, more)
         /\ \A d : FitDaemon(d, agreed) => FitDaemon(d, more)
         /\ \A x : FitLocal(x, agreed) => FitLocal(x, more)
<1>1. \A d : Good(d, agreed) => Good(d, more)
  BY DEF Good
<1>2. \A p : FitLauncher(p, agreed) => FitLauncher(p, more)
  BY <1>1 DEF FitLauncher
<1>3. \A d : FitDaemon(d, agreed) => FitDaemon(d, more)
  BY <1>1 DEF FitDaemon
<1>4. \A p, mode : FitPlan(p, mode, agreed) => FitPlan(p, mode, more)
  BY DEF FitPlan
<1>5. \A x : FitLocal(x, agreed) => FitLocal(x, more)
  BY <1>1, <1>2, <1>4 DEF FitLocal
<1> QED BY <1>1, <1>2, <1>3, <1>5

\* No digest, and a digest of another mode than a credential's, bind nothing.
LEMMA NoDigest ==
  ASSUME NEW agreed
  PROVE  Good(None, agreed)
<1>1. ASSUME NEW s \in Sources, NEW t \in Targets, None = <<s, t, TRUE>>
      PROVE  FALSE
  BY <1>1, AuthorizationAssumption, <<s, t, TRUE>> \in Sources \X Targets \X BOOLEAN
<1> QED BY <1>1 DEF Good

LEMMA LocalOnly ==
  ASSUME NEW c \in ConfigType, NEW agreed
  PROVE  Good(Digest(c, "local-only"), agreed)
BY DEF Good, Digest, Sources

\* A digest of what was agreed to.
LEMMA AgreedDigest ==
  ASSUME NEW c \in ConfigType, NEW mode, NEW agreed,
         mode \in Sources /\ c.enabled => <<mode, c.target>> \in agreed
  PROVE  Good(Digest(c, mode), agreed)
BY DEF Good, Digest, ConfigType

\* A command that moves on keeps everything but its place.
LEMMA Moves ==
  ASSUME NEW x, DOMAIN x = Fields, NEW to
  PROVE  LET y == [x EXCEPT !.at = to]
         IN  /\ DOMAIN y = Fields /\ y.at = to /\ y.op = x.op /\ y.auth = x.auth
             /\ y.plan = x.plan /\ y.launcher = x.launcher
BY DEF Fields

\* When somebody acts, the locals of all the others fit as they did.
LEMMA OthersFit ==
  ASSUME IInv, NEW c, NEW d \in Clis, reviewed \subseteq reviewed'
  PROVE  Disturbed(c)[d] = Idle \/ FitLocal(Disturbed(c)[d], reviewed')
<1>1. cli[d] = Idle \/ FitLocal(cli[d], reviewed)
  BY DEF IInv, LocalsFit
<1>2. CASE Disturbed(c)[d] = cli[d]
  BY <1>1, <1>2, MoreIsAgreed
<1>3. CASE cli[d] # Idle /\ Disturbed(c)[d] = [cli[d] EXCEPT !.alone = FALSE]
  <2> DEFINE x == cli[d]
             y == [x EXCEPT !.alone = FALSE]
  <2>1. FitLocal(x, reviewed')
    BY <1>1, <1>3, MoreIsAgreed
  <2>2. DOMAIN y = Fields /\ y.at = x.at /\ y.op = x.op /\ y.auth = x.auth
        /\ y.plan = x.plan /\ y.launcher = x.launcher
    BY <2>1 DEF FitLocal, Fields
  <2>3. FitLocal(y, reviewed')
    BY <2>1, <2>2 DEF FitLocal
  <2> QED BY <1>3, <2>3
<1> QED BY <1>2, <1>3 DEF Disturbed

\* A command that goes on to another place keeps its locals; where it needs them
\* to be agreed to, it needed that before.
LEMMA GoesOn ==
  ASSUME NEW x, NEW agreed, FitLocal(x, agreed), NEW to, to # "agent",
         to \in Binding => x.at \in Binding,
         to \in Planning \/ (to = "key" /\ x.op = "setup") =>
           x.at \in Planning \/ (x.at = "key" /\ x.op = "setup")
  PROVE  FitLocal([x EXCEPT !.at = to], agreed)
BY Moves DEF FitLocal

\* What a command's step has to show: its own locals, and what it writes.
LEMMA CommandSteps ==
  ASSUME IInv, NEW c \in Clis, NEW local, Step(c, local),
         local = Idle \/ FitLocal(local, reviewed'), reviewed \subseteq reviewed'
  PROVE  LocalsFit'
<1>1. cli' = [Disturbed(c) EXCEPT ![c] = local] /\ DOMAIN Disturbed(c) = Clis
  BY DEF Step, Disturbed
<1>2. ASSUME NEW d \in Clis
      PROVE  cli'[d] = Idle \/ FitLocal(cli'[d], reviewed')
  <2>1. CASE d = c
    BY <1>1, <2>1
  <2>2. CASE d # c
    BY <1>1, <2>2, OthersFit
  <2> QED BY <2>1, <2>2
<1> QED BY <1>1, <1>2 DEF LocalsFit

\* What nobody writes goes on fitting.
LEMMA Unwritten ==
  ASSUME IInv, reviewed \subseteq reviewed'
  PROVE  /\ UNCHANGED config => ConfigFits'
         /\ UNCHANGED auth => AuthFits'
         /\ UNCHANGED plist => AgentFits'
         /\ UNCHANGED daemon => DaemonFits'
         /\ daemon' = Down => DaemonFits'
<1>1. UNCHANGED config => ConfigFits'
  BY DEF IInv, ConfigFits
<1>2. UNCHANGED auth => AuthFits'
  BY MoreIsAgreed DEF IInv, AuthFits
<1>3. UNCHANGED plist => AgentFits'
  BY MoreIsAgreed DEF IInv, AgentFits
<1>4. UNCHANGED daemon => DaemonFits'
  BY MoreIsAgreed DEF IInv, DaemonFits
<1>5. daemon' = Down => DaemonFits'
  <2>1. Good(None, reviewed')
    BY NoDigest
  <2>2. FitDaemon(Down, reviewed')
    BY <2>1 DEF FitDaemon, Down
  <2> QED BY <2>2 DEF DaemonFits
<1> QED BY <1>1, <1>2, <1>3, <1>4, <1>5

\* A step that only moves one command, or ends it, and stops the daemon at most.
LEMMA MovesOn ==
  ASSUME IInv, NEW c \in Clis, NEW local, Step(c, local),
         local = Idle \/ FitLocal(local, reviewed), UNCHANGED <<files, reviewed>>,
         UNCHANGED daemon \/ daemon' = Down
  PROVE  IInv'
<1>1. ConfigFits' /\ AuthFits' /\ AgentFits' /\ DaemonFits'
  BY Unwritten DEF files
<1>2. LocalsFit'
  BY CommandSteps
<1> QED BY <1>1, <1>2 DEF IInv

\* A step of nobody, while the locals are disturbed or not.
LEMMA LocalsStay ==
  ASSUME IInv, UNCHANGED reviewed, UNCHANGED cli \/ cli' = Disturbed(Idle)
  PROVE  LocalsFit'
<1>1. CASE UNCHANGED cli
  BY <1>1 DEF IInv, LocalsFit
<1>2. CASE cli' = Disturbed(Idle)
  <2>1. DOMAIN Disturbed(Idle) = Clis
    BY DEF Disturbed
  <2> QED BY <1>2, <2>1, OthersFit DEF LocalsFit
<1> QED BY <1>1, <1>2

LEMMA OwnLocal ==
  ASSUME IInv, NEW c \in Clis, NEW at, At(c, at)
  PROVE  FitLocal(cli[c], reviewed) /\ DOMAIN cli[c] = Fields /\ cli[c].at = at
BY DEF IInv, LocalsFit, At, FitLocal

\* The launcher of what was agreed to; only a Keychain credential is wrapped.
LEMMA LauncherFits ==
  ASSUME NEW c, NEW a, NEW agreed, Good(a.digest, agreed)
  PROVE  FitLauncher(Launcher(c, a), agreed)
BY DEF FitLauncher, Launcher, Available

\* A daemon just launched has the key of the source it was launched with.
LEMMA LaunchedFits ==
  ASSUME NEW by, NEW source, NEW digest, NEW key, NEW agreed,
         key = None \/ key = source, Good(digest, agreed)
  PROVE  FitDaemon(Launched(by, source, digest, key), agreed)
BY DEF FitDaemon, Launched

\* Reading a configuration, a daemon goes up with a key that is agreed to or none.
LEMMA ProviderFits ==
  ASSUME NEW d, NEW c \in ConfigType, NEW agreed, FitDaemon(d, agreed)
  PROVE  FitDaemon(Provider(d, c), agreed)
<1>1. CASE c.enabled /\ Authorized(d.source, d.digest, c) /\ d.key # None
  <2>1. c.enabled = TRUE /\ c.target \in Targets
    BY <1>1 DEF ConfigType
  <2>2. d.source \in Sources /\ d.digest = <<d.source, c.target, TRUE>>
    BY <1>1, <2>1 DEF Authorized, Digest
  <2>3. <<d.key, c.target>> \in agreed
    BY <1>1, <2>1, <2>2 DEF FitDaemon, Good
  <2>4. Provider(d, c) = [d EXCEPT !.at = "up", !.target = c.target]
    BY <1>1 DEF Provider
  <2> QED BY <2>3, <2>4 DEF FitDaemon
<1>2. CASE ~(c.enabled /\ Authorized(d.source, d.digest, c) /\ d.key # None)
  <2>1. Provider(d, c) = [d EXCEPT !.at = "up", !.key = None]
    BY <1>2 DEF Provider
  <2> QED BY <2>1 DEF FitDaemon
<1> QED BY <1>1, <1>2

\* When the target is another one and the user is not asked, there is no credential
\* to propose: what setup settles on is none, or one still to be entered.
LEMMA NothingUnasked ==
  ASSUME NEW seen, NEW target, ~MustConfirm(seen, target), target # seen.config.target,
         NEW choice \in Decisions(seen, Candidate(seen) # None)
  PROVE  choice[1] = None \/ choice[2]
<1>1. Candidate(seen) = None
  BY DEF MustConfirm
<1>2. None \notin Sources
  BY AuthorizationAssumption
<1> DEFINE offered == Decisions(seen, Candidate(seen) # None)
<1>3. offered \subseteq {<<None, FALSE>>, <<"keychain", TRUE>>}
  BY <1>1, <1>2 DEF Decisions, Sources
<1>4. choice \in offered
  OBVIOUS
<1> HIDE DEF offered
<1>5. choice = <<None, FALSE>> \/ choice = <<"keychain", TRUE>>
  BY <1>3, <1>4
<1>6. CASE choice = <<None, FALSE>>
  <2>1. choice[1] = None
    BY <1>6
  <2> QED BY <2>1
<1>7. CASE choice = <<"keychain", TRUE>>
  <2>1. choice[2] = TRUE
    BY <1>7
  <2> QED BY <2>1
<1> QED BY <1>5, <1>6, <1>7

-----------------------------------------------------------------------------
(* The steps.                                                                *)

LEMMA InitFits == Init => IInv
<1> SUFFICES ASSUME Init PROVE IInv
  OBVIOUS
<1>1. LocalsFit
  BY DEF Init, LocalsFit
<1>2. Good(None, reviewed)
  BY NoDigest
<1>3. DaemonFits
  BY <1>2 DEF Init, DaemonFits, FitDaemon, Down
<1>4. CASE config = NoFile /\ auth = NoFile /\ plist = NoFile
  BY <1>1, <1>3, <1>4 DEF IInv, ConfigFits, AuthFits, AgentFits
<1>5. ASSUME NEW t \in Targets, NEW source \in Sources,
             config = [target |-> t, enabled |-> TRUE],
             auth = Bound(config, source), reviewed = {<<source, t>>},
             wrapper = (source = "keychain"),
             plist = [wrapped |-> wrapper, source |-> source, digest |-> auth.digest]
      PROVE  IInv
  <2>1. config \in ConfigType
    BY <1>5 DEF ConfigType
  <2>2. Good(Digest(config, source), reviewed)
    BY <1>5, <2>1, AgreedDigest
  <2>3. auth.digest = Digest(config, source)
    BY <1>5 DEF Bound
  <2>4. FitLauncher(plist, reviewed)
    BY <1>5, <2>2, <2>3 DEF FitLauncher
  <2> QED BY <1>1, <1>3, <2>1, <2>2, <2>3, <2>4
          DEF IInv, ConfigFits, AuthFits, AgentFits
<1> QED BY <1>4, <1>5 DEF Init

LEMMA DaemonReadsFits == IInv /\ DaemonReads => IInv'
<1> SUFFICES ASSUME IInv, DaemonReads PROVE IInv'
  OBVIOUS
<1>1. UNCHANGED <<auth, plist, cli, reviewed>>
  BY DEF DaemonReads, ghosts
<1>2. PICK c \in ConfigType : daemon' = Provider(daemon, c) /\ config' = c
  <2>1. PICK t \in Targets :
          LET c == IF config = NoFile THEN [target |-> t, enabled |-> FALSE] ELSE config
          IN  daemon' = Provider(daemon, c) /\ config' = c
    BY DEF DaemonReads
  <2>2. [target |-> t, enabled |-> FALSE] \in ConfigType
    BY DEF ConfigType
  <2>3. config = NoFile \/ config \in ConfigType
    BY DEF IInv, ConfigFits
  <2> QED BY <2>1, <2>2, <2>3
<1>3. DaemonFits'
  BY <1>1, <1>2, ProviderFits DEF IInv, DaemonFits
<1> QED BY <1>1, <1>2, <1>3, Unwritten, LocalsStay DEF IInv, ConfigFits

LEMMA EventsFit ==
  ASSUME IInv, EditConfig \/ DamageAuthorization \/ DaemonStops
  PROVE  IInv'
<1>1. UNCHANGED reviewed /\ LocalsFit'
  BY LocalsStay DEF EditConfig, DamageAuthorization, DaemonStops
<1>2. CASE EditConfig
  <2>1. ConfigFits'
    BY <1>2 DEF EditConfig, ConfigFits, ConfigType
  <2> QED BY <1>1, <1>2, <2>1, Unwritten DEF IInv, EditConfig
<1>3. CASE DamageAuthorization
  <2>1. AuthFits'
    BY <1>3 DEF DamageAuthorization, AuthFits
  <2> QED BY <1>1, <1>3, <2>1, Unwritten DEF IInv, DamageAuthorization
<1>4. CASE DaemonStops
  BY <1>1, <1>4, Unwritten DEF IInv, DaemonStops, files
<1> QED BY <1>2, <1>3, <1>4

LEMMA BeginFits ==
  ASSUME IInv, NEW c \in Clis, Begin(c)
  PROVE  IInv'
<1>1. PICK op \in {"setup", "set-key", "start", "install", "delete"} :
        Step(c, Command(op, CASE op = "setup" -> "read" [] op = "set-key" -> "key"
                              [] op = "delete" -> "stop" [] OTHER -> "resolve"))
  BY DEF Begin
<1> DEFINE at == CASE op = "setup" -> "read" [] op = "set-key" -> "key"
                   [] op = "delete" -> "stop" [] OTHER -> "resolve"
<1>2. at \in {"read", "key", "stop", "resolve"} /\ (at = "key" => op # "setup")
  OBVIOUS
<1> HIDE DEF at
<1>3. DOMAIN Command(op, at) = Fields /\ Command(op, at).at = at /\ Command(op, at).op = op
  BY DEF Command, Fields
<1>4. FitLocal(Command(op, at), reviewed)
  BY <1>2, <1>3 DEF FitLocal, Binding, Planning
<1>5. UNCHANGED <<files, reviewed, daemon>> /\ Step(c, Command(op, at))
  BY <1>1 DEF Begin, at
<1> QED BY <1>4, <1>5, MovesOn

LEMMA ResolveFits ==
  ASSUME IInv, NEW c \in Clis, Resolve(c)
  PROVE  IInv'
<1>1. UNCHANGED <<auth, plist, daemon, reviewed>> /\ At(c, "resolve")
  BY DEF Resolve, ghosts
<1>2. FitLocal(cli[c], reviewed) /\ DOMAIN cli[c] = Fields
  BY <1>1, OwnLocal
<1>3. AuthFits' /\ AgentFits' /\ DaemonFits'
  BY <1>1, Unwritten
<1>4. CASE Bail(c) /\ UNCHANGED config
  <2>1. Step(c, Idle)
    BY <1>4 DEF Bail
  <2> QED BY <1>1, <1>3, <1>4, <2>1, CommandSteps, Unwritten DEF IInv
<1>5. CASE ~(Bail(c) /\ UNCHANGED config)
  <2>1. PICK t \in Targets :
          LET now == IF config = NoFile THEN [target |-> t, enabled |-> FALSE] ELSE config
              a == IF auth = NoFile
                   THEN Legacy(IF keychain THEN "keychain"
                               ELSE IF c \in Exported THEN "environment" ELSE "local-only")
                   ELSE IF auth # Invalid /\ Matches(auth, now) THEN auth
                   ELSE Bound(now, "local-only")
          IN  /\ config' = now
              /\ Step(c, [cli[c] EXCEPT !.at = "configure", !.auth = a])
    BY <1>5 DEF Resolve
  <2> DEFINE now == IF config = NoFile THEN [target |-> t, enabled |-> FALSE] ELSE config
             a == IF auth = NoFile
                  THEN Legacy(IF keychain THEN "keychain"
                              ELSE IF c \in Exported THEN "environment" ELSE "local-only")
                  ELSE IF auth # Invalid /\ Matches(auth, now) THEN auth
                  ELSE Bound(now, "local-only")
             local == [cli[c] EXCEPT !.at = "configure", !.auth = a]
  <2>2. config' = now /\ Step(c, local)
    BY <2>1
  <2>3. now \in ConfigType
    BY DEF IInv, ConfigFits, ConfigType
  <2>4. Good(a.digest, reviewed)
    <3>1. CASE auth = NoFile
      BY <3>1, NoDigest DEF Legacy
    <3>2. CASE auth # NoFile /\ auth # Invalid /\ Matches(auth, now)
      BY <3>2 DEF IInv, AuthFits
    <3>3. CASE auth # NoFile /\ ~(auth # Invalid /\ Matches(auth, now))
      BY <3>3, <2>3, LocalOnly DEF Bound
    <3> QED BY <3>1, <3>2, <3>3
  <2> HIDE DEF now, a
  <2>5. DOMAIN local = Fields /\ local.at = "configure" /\ local.auth = a
    BY <1>2 DEF Fields
  <2>6. FitLocal(local, reviewed)
    BY <2>4, <2>5 DEF FitLocal, Binding, Planning
  <2>7. LocalsFit'
    BY <1>1, <2>2, <2>6, CommandSteps
  <2> QED BY <1>3, <2>2, <2>3, <2>7 DEF IInv, ConfigFits
<1> QED BY <1>4, <1>5

LEMMA WriteWrapperFits ==
  ASSUME IInv, NEW c \in Clis, WriteWrapper(c)
  PROVE  IInv'
<1>1. UNCHANGED <<config, auth, plist, daemon, reviewed>> /\ At(c, "configure")
  BY DEF WriteWrapper, ghosts
<1>2. FitLocal(cli[c], reviewed) /\ DOMAIN cli[c] = Fields /\ cli[c].at = "configure"
  BY <1>1, OwnLocal
<1> DEFINE a == cli[c].auth
           local == [cli[c] EXCEPT !.at = "agent", !.available = Available(c, a),
                                   !.launcher = Launcher(c, a)]
<1>3. Step(c, Idle) \/ Step(c, local)
  BY DEF WriteWrapper, Bail
<1>4. DOMAIN local = Fields /\ local.at = "agent" /\ local.auth = a
      /\ local.launcher = Launcher(c, a)
  BY <1>2 DEF Fields
<1>5. Good(a.digest, reviewed)
  BY <1>2 DEF FitLocal, Binding
<1>6. FitLocal(local, reviewed)
  BY <1>4, <1>5, LauncherFits DEF FitLocal, Planning
<1>7. LocalsFit'
  BY <1>1, <1>3, <1>6, CommandSteps
<1> QED BY <1>1, <1>7, Unwritten DEF IInv

LEMMA WriteAgentFits ==
  ASSUME IInv, NEW c \in Clis, WriteAgent(c)
  PROVE  IInv'
<1>1. UNCHANGED <<config, auth, daemon, reviewed>> /\ At(c, "agent")
  BY DEF WriteAgent, ghosts
<1>2. FitLocal(cli[c], reviewed) /\ DOMAIN cli[c] = Fields /\ cli[c].at = "agent"
  BY <1>1, OwnLocal
<1> DEFINE to == CASE cli[c].op \in {"setup", "bind"} -> "authorize"
                   [] cli[c].op = "start" -> "ping"
                   [] cli[c].op = "delete" /\ ~cli[c].wasRunning -> "check"
                   [] cli[c].op = "delete" -> "launch"
                   [] OTHER -> "refresh"
           local == [cli[c] EXCEPT !.launcher = NoFile, !.require = FALSE, !.at = to]
<1>3. Step(c, local) /\ plist' = cli[c].launcher
  BY DEF WriteAgent
<1>4. to \in {"authorize", "ping", "check", "launch", "refresh"}
  OBVIOUS
<1> HIDE DEF to
<1>5. DOMAIN local = Fields /\ local.at = to /\ local.auth = cli[c].auth
  BY <1>2 DEF Fields
<1>6. Good(cli[c].auth.digest, reviewed) /\ FitLauncher(cli[c].launcher, reviewed)
  BY <1>2 DEF FitLocal, Binding
<1>7. FitLocal(local, reviewed)
  BY <1>4, <1>5, <1>6 DEF FitLocal, Planning
<1>8. LocalsFit' /\ AgentFits'
  BY <1>1, <1>3, <1>6, <1>7, CommandSteps DEF AgentFits
<1> QED BY <1>1, <1>8, Unwritten DEF IInv

LEMMA SaveAuthorizationFits ==
  ASSUME IInv, NEW c \in Clis, SaveAuthorization(c)
  PROVE  IInv'
<1>1. UNCHANGED <<config, plist, daemon, reviewed>> /\ At(c, "authorize")
  BY DEF SaveAuthorization, ghosts
<1>2. FitLocal(cli[c], reviewed) /\ cli[c].at = "authorize"
  BY <1>1, OwnLocal
<1>3. Good(cli[c].auth.digest, reviewed) /\ auth' = cli[c].auth
  BY <1>2 DEF FitLocal, Binding, SaveAuthorization
<1>4. FitLocal([cli[c] EXCEPT !.at = "refresh"], reviewed)
  BY <1>2, GoesOn DEF Binding, Planning
<1>5. LocalsFit'
  BY <1>1, <1>4, CommandSteps DEF SaveAuthorization, Goto
<1> QED BY <1>1, <1>3, <1>5, Unwritten DEF IInv, AuthFits

LEMMA RefreshFits ==
  ASSUME IInv, NEW c \in Clis,
         Refresh(c) \/ Reinstall(c) \/ Ping(c) \/ Wait(c) \/ StopForDelete(c) \/ Finish(c)
  PROVE  IInv'
<1>1. UNCHANGED <<files, reviewed>> /\ (UNCHANGED daemon \/ daemon' = Down)
  BY DEF Refresh, Reinstall, Ping, Wait, StopForDelete, Finish, Stopped, ghosts
<1>2. \E local : Step(c, local) /\ (local = Idle \/ FitLocal(local, reviewed))
  <2>1. CASE Bail(c)
    BY <2>1 DEF Bail
  <2>2. CASE Refresh(c) /\ ~Bail(c)
    <3>1. FitLocal(cli[c], reviewed) /\ DOMAIN cli[c] = Fields /\ cli[c].at = "refresh"
      BY <2>2, OwnLocal DEF Refresh
    <3> DEFINE local == [cli[c] EXCEPT !.at = "launch", !.wasRunning = TRUE]
    <3>2. Step(c, local) \/ Step(c, [cli[c] EXCEPT !.at = "check"])
      BY <2>2 DEF Refresh, Goto
    <3>3. DOMAIN local = Fields /\ local.at = "launch" /\ local.auth = cli[c].auth
      BY <3>1 DEF Fields
    <3>4. FitLocal(local, reviewed)
      BY <3>1, <3>3 DEF FitLocal, Binding, Planning
    <3>5. FitLocal([cli[c] EXCEPT !.at = "check"], reviewed)
      BY <3>1, GoesOn DEF Binding, Planning
    <3> QED BY <3>2, <3>4, <3>5
  <2>3. CASE Reinstall(c) /\ ~Bail(c)
    <3>1. FitLocal(cli[c], reviewed) /\ DOMAIN cli[c] = Fields
      BY <2>3, OwnLocal DEF Reinstall
    <3> DEFINE local == [cli[c] EXCEPT !.op = "start", !.at = "resolve"]
    <3>2. Step(c, local)
      BY <2>3 DEF Reinstall
    <3>3. DOMAIN local = Fields /\ local.at = "resolve"
      BY <3>1 DEF Fields
    <3>4. FitLocal(local, reviewed)
      BY <3>3 DEF FitLocal, Binding, Planning
    <3> QED BY <3>2, <3>4
  <2>4. CASE Ping(c)
    <3>1. FitLocal(cli[c], reviewed) /\ cli[c].at = "ping"
      BY <2>4, OwnLocal DEF Ping
    <3>2. FitLocal([cli[c] EXCEPT !.at = "check"], reviewed)
      BY <3>1, GoesOn DEF Binding, Planning
    <3>3. FitLocal([cli[c] EXCEPT !.at = "launch"], reviewed)
      BY <3>1, GoesOn DEF Binding, Planning
    <3>4. Step(c, [cli[c] EXCEPT !.at = "check"]) \/ Step(c, [cli[c] EXCEPT !.at = "launch"])
      BY <2>4 DEF Ping, Goto
    <3> QED BY <3>2, <3>3, <3>4
  <2>5. CASE Wait(c) /\ ~Bail(c)
    <3>1. FitLocal(cli[c], reviewed) /\ cli[c].at = "wait"
      BY <2>5, OwnLocal DEF Wait
    <3>2. FitLocal([cli[c] EXCEPT !.at = "check"], reviewed)
      BY <3>1, GoesOn DEF Binding, Planning
    <3> QED BY <2>5, <3>2 DEF Wait, Goto
  <2>6. CASE StopForDelete(c) /\ ~Bail(c)
    <3>1. FitLocal(cli[c], reviewed) /\ DOMAIN cli[c] = Fields
      BY <2>6, OwnLocal DEF StopForDelete
    <3> DEFINE local == [cli[c] EXCEPT !.at = "delete", !.wasRunning = Running]
    <3>2. Step(c, local)
      BY <2>6 DEF StopForDelete
    <3>3. DOMAIN local = Fields /\ local.at = "delete"
      BY <3>1 DEF Fields
    <3>4. FitLocal(local, reviewed)
      BY <3>3 DEF FitLocal, Binding, Planning
    <3> QED BY <3>2, <3>4
  <2>7. CASE Finish(c)
    BY <2>7 DEF Finish, Success, Bail
  <2> QED BY <2>1, <2>2, <2>3, <2>4, <2>5, <2>6, <2>7
<1> QED BY <1>1, <1>2, MovesOn

LEMMA StartDaemonFits ==
  ASSUME IInv, NEW c \in Clis, StartDaemon(c)
  PROVE  IInv'
<1>1. UNCHANGED <<files, reviewed>> /\ At(c, "launch")
  BY DEF StartDaemon, ghosts
<1>2. CASE Bail(c) /\ UNCHANGED daemon
  BY <1>1, <1>2, MovesOn DEF Bail
<1>3. CASE ~(Bail(c) /\ UNCHANGED daemon)
  <2> DEFINE a == cli[c].auth
  <2>1. /\ Launch(a, cli[c].available) /\ Goto(c, "wait")
        /\ plist # NoFile \/ (a.mode = "environment" /\ cli[c].available)
    BY <1>3 DEF StartDaemon
  <2>2. FitLocal(cli[c], reviewed) /\ cli[c].at = "launch"
    BY <1>1, OwnLocal
  <2>3. Good(a.digest, reviewed)
    BY <2>2 DEF FitLocal, Binding
  <2>4. DaemonFits'
    <3>1. CASE UNCHANGED daemon \/ daemon' = Down
      BY <1>1, <3>1, Unwritten
    <3>2. CASE daemon' = Launched("shell", a.mode, a.digest, "environment")
               /\ a.mode = "environment"
      BY <1>1, <2>3, <3>2, LaunchedFits DEF DaemonFits
    <3>3. CASE /\ plist # NoFile
               /\ \/ /\ daemon' = Launched("agent", plist.source, plist.digest, "keychain")
                     /\ plist.wrapped
                  \/ daemon' = Launched("agent", plist.source, plist.digest, None)
      <4>1. FitLauncher(plist, reviewed)
        BY <3>3 DEF IInv, AgentFits
      <4>2. Good(plist.digest, reviewed)
            /\ (plist.wrapped => plist.source = "keychain")
        BY <4>1 DEF FitLauncher
      <4> QED BY <1>1, <3>3, <4>2, LaunchedFits DEF DaemonFits
    <3> QED BY <2>1, <3>1, <3>2, <3>3 DEF Launch
  <2>5. FitLocal([cli[c] EXCEPT !.at = "wait"], reviewed)
    BY <2>2, GoesOn DEF Binding, Planning
  <2>6. LocalsFit'
    BY <1>1, <2>1, <2>5, CommandSteps DEF Goto
  <2> QED BY <1>1, <2>4, <2>6, Unwritten DEF IInv, files
<1> QED BY <1>2, <1>3

LEMMA KeysFit ==
  ASSUME IInv, NEW c \in Clis, StoreKey(c) \/ DeleteKey(c)
  PROVE  IInv'
<1>1. UNCHANGED <<files, daemon, reviewed>>
  BY DEF StoreKey, DeleteKey, ghosts
<1>2. CASE Bail(c)
  BY <1>1, <1>2, MovesOn DEF Bail
<1>3. CASE StoreKey(c) /\ ~Bail(c)
  <2>1. FitLocal(cli[c], reviewed) /\ cli[c].at = "key"
    BY <1>3, OwnLocal DEF StoreKey
  <2>2. CASE cli[c].op = "setup"
    <3>1. FitLocal([cli[c] EXCEPT !.at = "key stored"], reviewed)
      BY <2>1, <2>2, GoesOn DEF Binding, Planning
    <3> QED BY <1>1, <1>3, <2>2, <3>1, MovesOn DEF StoreKey, Goto
  <2>3. CASE cli[c].op # "setup"
    <3>1. FitLocal([cli[c] EXCEPT !.at = "decide"], reviewed)
      BY <2>1, GoesOn DEF Binding, Planning
    <3> QED BY <1>1, <1>3, <2>3, <3>1, MovesOn DEF StoreKey, Goto
  <2> QED BY <2>2, <2>3
<1>4. CASE DeleteKey(c) /\ ~Bail(c)
  <2>1. FitLocal(cli[c], reviewed) /\ cli[c].at = "delete"
    BY <1>4, OwnLocal DEF DeleteKey
  <2>2. FitLocal([cli[c] EXCEPT !.at = "resolve"], reviewed)
    BY <2>1, GoesOn DEF Binding, Planning
  <2> QED BY <1>1, <1>4, <2>2, MovesOn DEF DeleteKey, Goto
<1> QED BY <1>2, <1>3, <1>4

LEMMA DecideFits ==
  ASSUME IInv, NEW c \in Clis, Decide(c)
  PROVE  IInv'
<1>1. UNCHANGED <<files, daemon>> /\ At(c, "decide")
  BY DEF Decide
<1>2. FitLocal(cli[c], reviewed) /\ DOMAIN cli[c] = Fields
  BY <1>1, OwnLocal
<1>3. CASE Bail(c) /\ UNCHANGED reviewed
  BY <1>1, <1>3, MovesOn DEF Bail
<1>4. CASE ~(Bail(c) /\ UNCHANGED reviewed)
  <2>1. config \in ConfigType
    BY <1>4 DEF Decide, IInv, ConfigFits
  <2> DEFINE known == auth # NoFile /\ auth # Invalid
             bound == [cli[c] EXCEPT !.op = "bind", !.at = "configure", !.require = TRUE,
                                     !.auth = Bound(config, "keychain"), !.plan = config]
             kept == [cli[c] EXCEPT !.at = "configure", !.auth = auth]
             none == [cli[c] EXCEPT !.op = "bind", !.at = "configure",
                                    !.auth = Bound(config, "local-only")]
  <2>2. \/ /\ Step(c, bound)
           /\ reviewed' = reviewed \cup {<<"keychain", config.target>>}
        \/ known /\ Step(c, kept) /\ UNCHANGED reviewed
        \/ Step(c, none) /\ UNCHANGED reviewed
    BY <1>4 DEF Decide
  <2>3. CASE /\ Step(c, bound)
             /\ reviewed' = reviewed \cup {<<"keychain", config.target>>}
    <3>1. DOMAIN bound = Fields /\ bound.at = "configure"
          /\ bound.auth = Bound(config, "keychain")
      BY <1>2 DEF Fields
    <3>2. Good(Digest(config, "keychain"), reviewed')
      BY <2>1, <2>3, AgreedDigest
    <3>3. FitLocal(bound, reviewed')
      BY <3>1, <3>2 DEF FitLocal, Binding, Planning, Bound
    <3>4. LocalsFit'
      BY <2>3, <3>3, CommandSteps
    <3> QED BY <1>1, <2>3, <3>4, Unwritten DEF IInv, files
  <2>4. CASE known /\ Step(c, kept) /\ UNCHANGED reviewed
    <3>1. DOMAIN kept = Fields /\ kept.at = "configure" /\ kept.auth = auth
      BY <1>2 DEF Fields
    <3>2. Good(auth.digest, reviewed)
      BY <2>4 DEF IInv, AuthFits
    <3>3. FitLocal(kept, reviewed)
      BY <3>1, <3>2 DEF FitLocal, Binding, Planning
    <3> QED BY <1>1, <2>4, <3>3, MovesOn
  <2>5. CASE Step(c, none) /\ UNCHANGED reviewed
    <3>1. DOMAIN none = Fields /\ none.at = "configure"
          /\ none.auth = Bound(config, "local-only")
      BY <1>2 DEF Fields
    <3>2. Good(Digest(config, "local-only"), reviewed)
      BY <2>1, LocalOnly
    <3>3. FitLocal(none, reviewed)
      BY <3>1, <3>2 DEF FitLocal, Binding, Planning, Bound
    <3> QED BY <1>1, <2>5, <3>3, MovesOn
  <2> QED BY <2>2, <2>3, <2>4, <2>5
<1> QED BY <1>3, <1>4

LEMMA ReadsFit ==
  ASSUME IInv, NEW c \in Clis, ReadConfig(c) \/ Load(c)
  PROVE  IInv'
<1>1. UNCHANGED <<files, daemon, reviewed>> /\ DOMAIN cli[c] = Fields
  BY OwnLocal DEF ReadConfig, Load, ghosts
<1>2. CASE ReadConfig(c)
  <2> DEFINE local == [cli[c] EXCEPT !.at = "load",
                                     !.original = [config |-> config, auth |-> auth]]
  <2>1. DOMAIN local = Fields /\ local.at = "load"
    BY <1>1 DEF Fields
  <2>2. FitLocal(local, reviewed)
    BY <2>1 DEF FitLocal, Binding, Planning
  <2> QED BY <1>1, <1>2, <2>2, MovesOn DEF ReadConfig
<1>3. CASE Load(c)
  <2>1. PICK seen : Step(c, [cli[c] EXCEPT !.at = "answer", !.seen = seen])
    BY <1>3 DEF Load
  <2> DEFINE local == [cli[c] EXCEPT !.at = "answer", !.seen = seen]
  <2>2. DOMAIN local = Fields /\ local.at = "answer"
    BY <1>1 DEF Fields
  <2>3. FitLocal(local, reviewed)
    BY <2>2 DEF FitLocal, Binding, Planning
  <2> QED BY <1>1, <2>1, <2>3, MovesOn
<1> QED BY <1>2, <1>3

LEMMA AnswerFits ==
  ASSUME IInv, NEW c \in Clis, Answer(c)
  PROVE  IInv'
<1>1. UNCHANGED <<files, daemon>> /\ At(c, "answer")
  BY DEF Answer
<1>2. DOMAIN cli[c] = Fields
  BY <1>1, OwnLocal
<1>3. CASE Bail(c) /\ UNCHANGED reviewed
  BY <1>1, <1>3, MovesOn DEF Bail
<1>4. CASE ~(Bail(c) /\ UNCHANGED reviewed)
  <2> DEFINE seen == cli[c].seen
  <2>1. PICK target \in Targets, yes \in BOOLEAN, flight \in BOOLEAN :
          LET asked == MustConfirm(seen, target)
              confirmed == IF asked THEN yes ELSE Candidate(seen) # None
          IN  \E choice \in Decisions(seen, confirmed) :
                /\ flight => choice[1] # None
                /\ Step(c, [cli[c] EXCEPT
                              !.at = IF flight /\ ~choice[2] THEN "flight" ELSE "check config",
                              !.plan = [target |-> target, enabled |-> choice[1] # None],
                              !.auth = [mode |-> choice[1], digest |-> None],
                              !.available = flight, !.require = choice[2],
                              !.seen = None])
                /\ reviewed' = IF choice[1] = None \/ (~asked /\ target # seen.config.target
                                                       /\ ~choice[2])
                               THEN reviewed
                               ELSE reviewed \cup {<<choice[1], target>>}
    BY <1>4 DEF Answer
  <2> DEFINE asked == MustConfirm(seen, target)
             confirmed == IF asked THEN yes ELSE Candidate(seen) # None
  <2>2. PICK choice \in Decisions(seen, confirmed) :
          /\ Step(c, [cli[c] EXCEPT
                        !.at = IF flight /\ ~choice[2] THEN "flight" ELSE "check config",
                        !.plan = [target |-> target, enabled |-> choice[1] # None],
                        !.auth = [mode |-> choice[1], digest |-> None],
                        !.available = flight, !.require = choice[2],
                        !.seen = None])
          /\ reviewed' = IF choice[1] = None \/ (~asked /\ target # seen.config.target
                                                 /\ ~choice[2])
                         THEN reviewed
                         ELSE reviewed \cup {<<choice[1], target>>}
    BY <2>1
  <2> DEFINE to == IF flight /\ ~choice[2] THEN "flight" ELSE "check config"
             plan == [target |-> target, enabled |-> choice[1] # None]
             local == [cli[c] EXCEPT !.at = to, !.plan = plan,
                        !.auth = [mode |-> choice[1], digest |-> None],
                        !.available = flight, !.require = choice[2], !.seen = None]
  <2>3. reviewed \subseteq reviewed'
    BY <2>2
  <2>4. choice[1] # None => <<choice[1], target>> \in reviewed'
    <3>1. CASE ~asked /\ target # seen.config.target /\ ~choice[2]
      <4>1. choice \in Decisions(seen, Candidate(seen) # None)
        BY <3>1
      <4> QED BY <3>1, <4>1, NothingUnasked
    <3>2. CASE ~(~asked /\ target # seen.config.target /\ ~choice[2])
      BY <2>2, <3>2
    <3> QED BY <3>1, <3>2
  <2>5. FitPlan(plan, choice[1], reviewed')
    <3>1. plan \in ConfigType /\ plan.target = target /\ (plan.enabled => choice[1] # None)
      BY DEF ConfigType
    <3> QED BY <2>4, <3>1 DEF FitPlan
  <2>6. to \in {"flight", "check config"}
    OBVIOUS
  <2> HIDE DEF to, plan
  <2>7. DOMAIN local = Fields /\ local.at = to /\ local.plan = plan
        /\ local.auth.mode = choice[1]
    BY <1>2 DEF Fields
  <2>8. FitLocal(local, reviewed')
    BY <2>5, <2>6, <2>7 DEF FitLocal, Binding, Planning
  <2>9. Step(c, local)
    BY <2>2 DEF to, plan
  <2> HIDE DEF local
  <2>10. LocalsFit'
    BY <2>3, <2>8, <2>9, CommandSteps
  <2> QED BY <1>1, <2>3, <2>10, Unwritten DEF IInv, files
<1> QED BY <1>3, <1>4

\* Setup checks again, saves its plan, reads it back and goes to the key or the check.
LEMMA PlanFits ==
  ASSUME IInv, NEW c \in Clis,
         FlightCheck(c) \/ EnsureUnchanged(c) \/ SaveConfig(c) \/ KeyStored(c)
  PROVE  IInv'
<1>1. UNCHANGED <<auth, plist, daemon, reviewed>> /\ cli[c] # Idle
  BY DEF FlightCheck, EnsureUnchanged, SaveConfig, KeyStored, files, ghosts, At
<1>2. /\ cli[c].at \in {"flight", "check config", "check auth", "save", "read back", "key stored"}
      /\ FitLocal(cli[c], reviewed) /\ DOMAIN cli[c] = Fields
  BY OwnLocal DEF FlightCheck, EnsureUnchanged, SaveConfig, KeyStored, At
<1>3. FitPlan(cli[c].plan, cli[c].auth.mode, reviewed)
  BY <1>2 DEF FitLocal, Planning
<1>4. UNCHANGED config \/ config' = cli[c].plan
  BY DEF FlightCheck, EnsureUnchanged, SaveConfig, KeyStored, files
<1>5. ConfigFits'
  BY <1>1, <1>3, <1>4, Unwritten DEF ConfigFits, FitPlan
<1>6. \/ Step(c, Idle)
      \/ \E to \in Planning : Step(c, [cli[c] EXCEPT !.at = to])
      \/ \E to \in {"key", "verify"} : Step(c, [cli[c] EXCEPT !.saved = config, !.at = to])
  BY DEF FlightCheck, EnsureUnchanged, SaveConfig, KeyStored, Bail, Goto, Planning
<1>7. LocalsFit'
  <2>1. CASE Step(c, Idle)
    BY <1>1, <2>1, CommandSteps
  <2>2. ASSUME NEW to \in Planning, Step(c, [cli[c] EXCEPT !.at = to])
        PROVE  LocalsFit'
    <3>1. FitLocal([cli[c] EXCEPT !.at = to], reviewed)
      BY <1>2, GoesOn DEF Planning, Binding
    <3> QED BY <1>1, <2>2, <3>1, CommandSteps
  <2>3. ASSUME NEW to \in {"key", "verify"},
               Step(c, [cli[c] EXCEPT !.saved = config, !.at = to])
        PROVE  LocalsFit'
    <3> DEFINE local == [cli[c] EXCEPT !.saved = config, !.at = to]
    <3>1. DOMAIN local = Fields /\ local.at = to /\ local.plan = cli[c].plan
          /\ local.auth = cli[c].auth
      BY <1>2 DEF Fields
    <3>2. FitLocal(local, reviewed)
      BY <1>3, <3>1 DEF FitLocal, Binding
    <3> QED BY <1>1, <2>3, <3>2, CommandSteps
  <2> QED BY <1>6, <2>1, <2>2, <2>3
<1> QED BY <1>1, <1>5, <1>7, Unwritten DEF IInv

LEMMA VerifyFits ==
  ASSUME IInv, NEW c \in Clis, Verify(c)
  PROVE  IInv'
<1> DEFINE mode == IF cli[c].auth.mode = None THEN "local-only" ELSE cli[c].auth.mode
           b == mode # "local-only"
           local == [cli[c] EXCEPT !.at = "configure", !.auth = Bound(cli[c].plan, mode),
                                   !.require = b, !.available = FALSE, !.original = None]
<1>1. UNCHANGED <<files, daemon, reviewed>> /\ At(c, "verify")
      /\ (Step(c, Idle) \/ Step(c, local))
  BY DEF Verify, Bail, ghosts
<1>2. FitLocal(cli[c], reviewed) /\ DOMAIN cli[c] = Fields /\ cli[c].at = "verify"
  BY <1>1, OwnLocal
<1>3. FitPlan(cli[c].plan, cli[c].auth.mode, reviewed)
  BY <1>2 DEF FitLocal, Planning
<1>4. mode \in Sources => mode = cli[c].auth.mode
  BY DEF Sources
<1> HIDE DEF mode
<1>5. Good(Digest(cli[c].plan, mode), reviewed)
  BY <1>3, <1>4, AgreedDigest DEF FitPlan
<1> HIDE DEF b
<1>6. DOMAIN local = Fields /\ local.at = "configure" /\ local.auth = Bound(cli[c].plan, mode)
  BY <1>2 DEF Fields
<1>7. FitLocal(local, reviewed)
  BY <1>5, <1>6 DEF FitLocal, Binding, Planning, Bound
<1> HIDE DEF local
<1> QED BY <1>1, <1>7, MovesOn

-----------------------------------------------------------------------------
(* The theorems.                                                             *)

LEMMA StepFits == IInv /\ [Next]_vars => IInv'
<1> SUFFICES ASSUME IInv, [Next]_vars PROVE IInv'
  OBVIOUS
<1>1. CASE UNCHANGED vars
  <2>1. UNCHANGED <<config, auth, plist, daemon, cli, reviewed>>
    BY <1>1 DEF vars, files, ghosts
  <2> QED BY <2>1, Unwritten, LocalsStay DEF IInv
<1>2. CASE DaemonReads
  BY <1>2, DaemonReadsFits
<1>3. CASE EditConfig \/ DamageAuthorization \/ DaemonStops
  BY <1>3, EventsFit
<1>4. ASSUME NEW c \in Clis, Begin(c) \/ Resolve(c)
      PROVE  IInv'
  BY <1>4, BeginFits, ResolveFits
<1>5. ASSUME NEW c \in Clis, WriteWrapper(c) \/ WriteAgent(c) \/ SaveAuthorization(c)
      PROVE  IInv'
  BY <1>5, WriteWrapperFits, WriteAgentFits, SaveAuthorizationFits
<1>6. ASSUME NEW c \in Clis,
             \/ Refresh(c) \/ Reinstall(c) \/ Ping(c) \/ Wait(c) \/ StopForDelete(c)
             \/ Finish(c)
      PROVE  IInv'
  BY <1>6, RefreshFits
<1>7. ASSUME NEW c \in Clis, StartDaemon(c) \/ StoreKey(c) \/ DeleteKey(c) \/ Decide(c)
      PROVE  IInv'
  BY <1>7, StartDaemonFits, KeysFit, DecideFits
<1>8. ASSUME NEW c \in Clis, ReadConfig(c) \/ Load(c) \/ Answer(c) \/ Verify(c)
      PROVE  IInv'
  BY <1>8, ReadsFit, AnswerFits, VerifyFits
<1>9. ASSUME NEW c \in Clis,
             FlightCheck(c) \/ EnsureUnchanged(c) \/ SaveConfig(c) \/ KeyStored(c)
      PROVE  IInv'
  BY <1>9, PlanFits
<1> QED BY <1>1, <1>2, <1>3, <1>4, <1>5, <1>6, <1>7, <1>8, <1>9 DEF Next

\* Wherever a digest of an enabled target and a source is kept, in the
\* authorization file, the launch agent, on the daemon's command line or in a
\* command under way, the user agreed to it: whatever commands, edits, damage and
\* restarts came between (provider_setup.rs, main.rs of the CLI and of the daemon).
THEOREM DigestsAreAgreed == Spec => []IInv
<1>1. Init => IInv
  BY InitFits
<1>2. IInv /\ [Next]_vars => IInv'
  BY StepFits
<1> QED BY <1>1, <1>2, PTL DEF Spec

\* A daemon that may send a credential to a provider uses one the user agreed to
\* send to that target (configured_provider and provider_network_is_authorized).
THEOREM KeysGoWhereReviewed == Spec => []KeyGoesWhereReviewed
<1>1. IInv => KeyGoesWhereReviewed
  BY DEF IInv, DaemonFits, FitDaemon, KeyGoesWhereReviewed, Running
<1> QED BY <1>1, DigestsAreAgreed, PTL
-----------------------------------------------------------------------------
(* What a command reports.  Setup and the deletion of the key take a dozen     *)
(* steps over four files, the Keychain and the daemon; a command that has the  *)
(* machine for itself knows at every step what the steps before left there,    *)
(* and a report is given by a command that knew it up to the end.              *)

Machine == [config |-> config, plist |-> plist, wrapper |-> wrapper, keychain |-> keychain,
            daemon |-> daemon]

\* Setup from its plan to the check, and from the authorization it made on.
Planned == Planning \cup {"key"}
Making  == {"configure", "agent", "authorize", "refresh", "launch", "wait", "check"}

\* The launcher of a credential that is there, and the key it gives the daemon.
Promised(a) == [wrapped |-> a.mode = "keychain", source |-> a.mode, digest |-> a.digest]
Given(a)    == IF a.mode = "local-only" THEN None ELSE a.mode

SetupPlans(x) ==
  /\ x.at \in {"read", "load", "answer"} \cup Planned \cup Making
  /\ x.at \in Planned =>
       /\ x.plan \in ConfigType /\ x.auth.mode \in Sources \cup {None}
       /\ x.plan.enabled = (x.auth.mode # None)
  /\ x.at \in Making =>
       /\ x.plan \in ConfigType /\ x.auth.mode \in Sources \cup {"local-only"}
       /\ x.plan.enabled = (x.auth.mode \in Sources)
       /\ x.auth = Bound(x.plan, x.auth.mode)
  /\ x.at \notin {"launch", "wait", "check"} => x.wasRunning = FALSE

SetupFiles(x, m) ==
  /\ x.at \in {"read back", "key", "key stored", "verify"} \cup Making => m.config = x.plan
  /\ x.at = "configure" => x.require = (x.auth.mode \in Sources)
  /\ x.at = "agent" => x.launcher = Promised(x.auth)
  /\ x.at \in {"agent", "authorize", "refresh", "launch"} =>
       /\ x.available = (x.auth.mode \in Sources)
       /\ x.auth.mode = "keychain" => m.wrapper /\ m.keychain
  /\ x.at \in {"authorize", "refresh", "launch", "wait", "check"} => m.plist = Promised(x.auth)

SetupDaemon(x, m) ==
  /\ x.at = "launch" => m.daemon = Down
  /\ x.at = "wait" =>
       /\ m.daemon.key = Given(x.auth)
       /\ \/ m.daemon.at = "up"
          \/ /\ m.daemon.at = "booting"
             /\ m.daemon.source = x.auth.mode /\ m.daemon.digest = x.auth.digest
  /\ x.at = "check" /\ x.wasRunning = TRUE => m.daemon.at = "up" /\ m.daemon.key = Given(x.auth)

\* The daemon ended before the key went, and the launcher comes after both.
DeletionKnows(x, m) ==
  /\ x.at \in {"stop", "delete", "resolve", "configure", "agent", "launch", "wait", "check"}
  /\ x.at = "stop" => m.daemon.at # "booting"
  /\ x.at \in {"delete", "resolve", "configure", "agent", "launch"} => m.daemon = Down
  /\ x.at \notin {"stop", "delete"} => ~m.keychain
  /\ x.at = "agent" => ~x.launcher.wrapped
  /\ x.at \in {"agent", "launch", "wait", "check"} => ~m.wrapper
  /\ x.at \in {"launch", "wait", "check"} => ~m.plist.wrapped
  /\ x.at \in {"wait", "check"} => m.daemon.key # "keychain"

Knows(x, m) ==
  /\ x.op = "setup" => SetupPlans(x) /\ SetupFiles(x, m) /\ SetupDaemon(x, m)
  /\ x.op = "delete" => DeletionKnows(x, m)

DaemonIsSomewhere ==
  /\ daemon.at \in {"up", "booting", "down"}
  /\ daemon.at = "down" => daemon = Down

Alone(c) == cli[c] # Idle /\ cli[c].alone
AloneKnow ==
  \A c \in Clis : Alone(c) => Knows(cli[c], Machine) /\ \A d \in Clis \ {c} : cli[d] = Idle

\* Nobody has begun anything since the report.
ReportsStand ==
  report # None => /\ \A c \in Clis : cli[c] = Idle
                   /\ ReportsTakeEffect
                   /\ report.op = "setup" => config # NoFile

RInv == DaemonIsSomewhere /\ AloneKnow /\ ReportsStand

\* What a step of a command has to show: that where it goes it knows what it has
\* to, if it has the machine for itself.
LEMMA OthersAreDisturbed ==
  ASSUME IInv, RInv, NEW c \in Clis, NEW local, Step(c, local),
         local # Idle /\ local.alone =>
           Knows(local, Machine') /\ \A d \in Clis \ {c} : cli[d] = Idle
  PROVE  AloneKnow'
<1>1. cli' = [Disturbed(c) EXCEPT ![c] = local] /\ DOMAIN Disturbed(c) = Clis
  BY DEF Step, Disturbed
<1>2. cli'[c] = local
  BY <1>1
<1>3. ASSUME NEW d \in Clis, d # c, Alone(d)'
      PROVE  FALSE
  <2>1. cli'[d] = Disturbed(c)[d] /\ cli'[d] # Idle /\ cli'[d].alone
    BY <1>1, <1>3 DEF Alone
  <2>2. cli[d] # Idle /\ cli'[d] = [cli[d] EXCEPT !.alone = FALSE]
    BY <2>1, <1>3 DEF Disturbed
  <2>3. DOMAIN cli[d] = Fields
    BY <2>2 DEF IInv, LocalsFit, FitLocal
  <2> QED BY <2>1, <2>2, <2>3 DEF Fields
<1>4. ASSUME Alone(c)'
      PROVE  Knows(local, Machine') /\ \A d \in Clis \ {c} : cli'[d] = Idle
  <2>1. local # Idle /\ local.alone
    BY <1>2, <1>4 DEF Alone
  <2>2. ASSUME NEW d \in Clis \ {c} PROVE cli'[d] = Idle
    BY <1>1, <2>1, <2>2 DEF Disturbed
  <2> QED BY <2>1, <2>2
<1> QED BY <1>2, <1>3, <1>4 DEF AloneKnow

\* A step of a command at work that reports nothing.
LEMMA QuietStep ==
  ASSUME IInv, RInv, NEW c \in Clis, NEW local, Step(c, local), cli[c] # Idle,
         local # Idle => local.alone = cli[c].alone,
         local # Idle /\ cli[c].alone => Knows(local, Machine'),
         UNCHANGED report, DaemonIsSomewhere'
  PROVE  RInv'
<1>1. Alone(c) => \A d \in Clis \ {c} : cli[d] = Idle
  BY DEF RInv, AloneKnow
<1>2. AloneKnow'
  BY <1>1, OthersAreDisturbed DEF Alone
<1> QED BY <1>2 DEF RInv, ReportsStand

\* The command that acts, and what it knows.
LEMMA Actor ==
  ASSUME IInv, RInv, NEW c \in Clis, NEW at, At(c, at)
  PROVE  /\ DOMAIN cli[c] = Fields /\ cli[c].at = at /\ cli[c] # Idle
         /\ cli[c].alone => Knows(cli[c], Machine)
         /\ report = None
BY OwnLocal DEF RInv, AloneKnow, Alone, At, ReportsStand

\* A command that is ended, or that only moves on.
LEMMA Ends ==
  ASSUME IInv, RInv, NEW c \in Clis, cli[c] # Idle, Bail(c), UNCHANGED report,
         DaemonIsSomewhere'
  PROVE  RInv'
<1>1. Step(c, Idle)
  BY DEF Bail
<1> QED BY <1>1, QuietStep

\* A command that goes elsewhere keeps its locals.
LEMMA Elsewhere ==
  ASSUME NEW x, DOMAIN x = Fields, NEW to
  PROVE  LET y == [x EXCEPT !.at = to]
         IN  /\ y.at = to /\ y.op = x.op /\ y.auth = x.auth /\ y.plan = x.plan
             /\ y.launcher = x.launcher /\ y.alone = x.alone /\ y.available = x.available
             /\ y.wasRunning = x.wasRunning /\ y.require = x.require
BY DEF Fields

LEMMA GoesKnowing ==
  ASSUME IInv, RInv, NEW c \in Clis, cli[c] # Idle, DOMAIN cli[c] = Fields, NEW to,
         Goto(c, to), UNCHANGED report, DaemonIsSomewhere',
         cli[c].alone => Knows([cli[c] EXCEPT !.at = to], Machine')
  PROVE  RInv'
<1> DEFINE local == [cli[c] EXCEPT !.at = to]
<1>1. Step(c, local)
  BY DEF Goto
<1>2. local.alone = cli[c].alone
  BY Elsewhere
<1> QED BY <1>1, <1>2, QuietStep

LEMMA Unmoved ==
  /\ UNCHANGED daemon /\ DaemonIsSomewhere => DaemonIsSomewhere'
  /\ daemon' = Down => DaemonIsSomewhere'
BY DEF DaemonIsSomewhere, Down

LEMMA SameMachine ==
  UNCHANGED <<config, plist, wrapper, keychain, daemon>> => Machine' = Machine
BY DEF Machine
LEMMA InitKnows == Init => RInv
<1> SUFFICES ASSUME Init PROVE RInv
  OBVIOUS
<1>1. DaemonIsSomewhere
  BY DEF Init, DaemonIsSomewhere, Down
<1>2. AloneKnow
  BY DEF Init, AloneKnow, Alone
<1>3. ReportsStand
  BY DEF Init, ReportsStand
<1> QED BY <1>1, <1>2, <1>3 DEF RInv

\* What a booting daemon becomes when it reads its configuration.
LEMMA Reads ==
  ASSUME IInv, DaemonReads
  PROVE  /\ daemon.at = "booting" /\ daemon'.at = "up"
         /\ daemon'.key = daemon.key \/ daemon'.key = None
         /\ config # NoFile => config' = config
         /\ \A c \in ConfigType :
              /\ config = c /\ c.enabled /\ Authorized(daemon.source, daemon.digest, c)
              => daemon'.key = daemon.key
<1>1. DOMAIN daemon = {"at", "by", "source", "digest", "key", "target"}
  BY DEF IInv, DaemonFits, FitDaemon
<1>2. PICK t \in Targets :
        LET c == IF config = NoFile THEN [target |-> t, enabled |-> FALSE] ELSE config
        IN  daemon' = Provider(daemon, c) /\ config' = c
  BY DEF DaemonReads
<1> DEFINE c == IF config = NoFile THEN [target |-> t, enabled |-> FALSE] ELSE config
<1>3. daemon' = Provider(daemon, c) /\ config' = c
  BY <1>2
<1>4. config # NoFile => c = config
  OBVIOUS
<1>5. \A d \in ConfigType : config = d => c = d
  BY <1>4, AuthorizationAssumption DEF ConfigType
<1> HIDE DEF c
<1>6. /\ daemon'.at = "up"
      /\ daemon'.key = daemon.key \/ daemon'.key = None
      /\ c.enabled /\ Authorized(daemon.source, daemon.digest, c) => daemon'.key = daemon.key
  BY <1>1, <1>3 DEF Provider
<1>7. daemon.at = "booting"
  BY DEF DaemonReads
<1> QED BY <1>3, <1>4, <1>5, <1>6, <1>7

\* Whoever waits for the daemon it launched knows what it will come up with.
LEMMA DaemonReadsKnows ==
  ASSUME IInv, RInv, DaemonReads
  PROVE  RInv'
<1>1. UNCHANGED <<auth, plist, wrapper, keychain, cli, report>>
  BY DEF DaemonReads, ghosts
<1>9. PICK m : m = Machine'
  OBVIOUS
<1>2. /\ Machine.daemon = daemon /\ m.daemon = daemon'
      /\ Machine.config = config /\ m.config = config'
      /\ m.plist = Machine.plist /\ m.wrapper = Machine.wrapper
      /\ m.keychain = Machine.keychain
  BY <1>9, <1>1 DEF Machine
<1>3. NoFile \notin ConfigType /\ None \notin Sources
  BY AuthorizationAssumption DEF ConfigType
<1>4. daemon # Down
  BY Reads DEF Down
<1>5. ASSUME NEW x, x.op = "setup", SetupPlans(x), SetupFiles(x, Machine), SetupDaemon(x, Machine)
      PROVE  SetupFiles(x, m) /\ SetupDaemon(x, m)
  <2>1. x.at \in {"read back", "key", "key stored", "verify"} \cup Making =>
          config = x.plan /\ config # NoFile
    BY <1>2, <1>3, <1>5 DEF SetupPlans, SetupFiles, Planned, Planning, Making
  <2>2. SetupFiles(x, m)
    BY <1>2, <1>5, <2>1, Reads DEF SetupFiles
  <2>3. CASE x.at = "wait"
    <3>1. /\ x.plan \in ConfigType /\ config = x.plan
          /\ x.auth.mode \in Sources \cup {"local-only"}
          /\ x.plan.enabled = (x.auth.mode \in Sources)
          /\ x.auth = Bound(x.plan, x.auth.mode)
      BY <1>2, <1>5, <2>1, <2>3 DEF SetupPlans, Making
    <3>2. /\ daemon.key = Given(x.auth) /\ daemon.source = x.auth.mode
          /\ daemon.digest = x.auth.digest
      BY <1>2, <1>5, <2>3, Reads DEF SetupDaemon
    <3>3. CASE x.auth.mode = "local-only"
      <4>1. daemon'.key = None /\ daemon'.at = "up" /\ Given(x.auth) = None
        BY <3>2, <3>3, Reads DEF Given
      <4> QED BY <1>2, <2>2, <2>3, <4>1 DEF SetupDaemon
    <3>4. CASE x.auth.mode \in Sources
      <4>1. x.auth.digest = Digest(x.plan, x.auth.mode)
        BY <3>1 DEF Bound
      <4>2. Authorized(daemon.source, daemon.digest, x.plan)
        BY <3>2, <3>4, <4>1 DEF Authorized
      <4>3. daemon'.key = daemon.key /\ daemon'.at = "up"
        BY <3>1, <3>4, <4>2, Reads
      <4> QED BY <1>2, <2>2, <2>3, <3>2, <4>3 DEF SetupDaemon
    <3> QED BY <3>1, <3>3, <3>4
  <2>4. CASE x.at # "wait"
    <3>1. daemon.at = "booting"
      BY Reads
    <3>2. ~(x.at = "check" /\ x.wasRunning = TRUE) /\ x.at # "launch"
      BY <1>2, <1>4, <1>5, <3>1 DEF SetupDaemon
    <3> QED BY <2>2, <2>4, <3>2 DEF SetupDaemon
  <2> QED BY <2>2, <2>3, <2>4
<1>6. ASSUME NEW x, DeletionKnows(x, Machine)
      PROVE  DeletionKnows(x, m)
  <2>1. daemon.key # "keychain" => daemon'.key # "keychain"
    BY <1>3, Reads DEF Sources
  <2> QED BY <1>2, <1>4, <1>6, <2>1, Reads DEF DeletionKnows
<1>7. AloneKnow'
  BY <1>9, <1>1, <1>5, <1>6 DEF RInv, AloneKnow, Alone, Knows
<1>8. ReportsStand'
  <2> SUFFICES ASSUME report # None PROVE ReportsStand'
    BY <1>1 DEF ReportsStand
  <2>1. /\ \A c \in Clis : cli[c] = Idle
        /\ report.op = "setup" => ReportedSetupTakesEffect /\ config' = config
        /\ DeletedKeyIsGone
    BY Reads DEF RInv, ReportsStand, ReportsTakeEffect
  <2>2. ReportedSetupTakesEffect'
    BY <1>1, <2>1, Reads DEF ReportedSetupTakesEffect, Running, Bound, Digest
  <2>3. DeletedKeyIsGone'
    BY <1>1, <1>3, <2>1, Reads DEF DeletedKeyIsGone, Sources
  <2> QED BY <1>1, <2>1, <2>2, <2>3 DEF RInv, ReportsStand, ReportsTakeEffect
<1> QED BY <1>7, <1>8, Reads DEF RInv, DaemonIsSomewhere

LEMMA EventsKnow ==
  ASSUME IInv, RInv, EditConfig \/ DamageAuthorization \/ DaemonStops
  PROVE  RInv'
<1>1. cli' = Disturbed(Idle) /\ report' = None
  BY DEF EditConfig, DamageAuthorization, DaemonStops
<1>2. ASSUME NEW d \in Clis, Alone(d)' PROVE FALSE
  <2>1. cli'[d] = [cli[d] EXCEPT !.alone = FALSE] /\ cli[d] # Idle /\ cli'[d].alone
    BY <1>1, <1>2, AuthorizationAssumption DEF Alone, Disturbed
  <2>2. DOMAIN cli[d] = Fields
    BY <2>1 DEF IInv, LocalsFit, FitLocal
  <2> QED BY <2>1, <2>2 DEF Fields
<1>3. DaemonIsSomewhere'
  BY Unmoved DEF RInv, EditConfig, DamageAuthorization, DaemonStops
<1> QED BY <1>1, <1>2, <1>3 DEF RInv, AloneKnow, ReportsStand

LEMMA BeginKnows ==
  ASSUME IInv, RInv, NEW c \in Clis, Begin(c)
  PROVE  RInv'
<1>1. PICK op \in {"setup", "set-key", "start", "install", "delete"} :
        Step(c, Command(op, CASE op = "setup" -> "read" [] op = "set-key" -> "key"
                              [] op = "delete" -> "stop" [] OTHER -> "resolve"))
  BY DEF Begin
<1> DEFINE at == CASE op = "setup" -> "read" [] op = "set-key" -> "key"
                   [] op = "delete" -> "stop" [] OTHER -> "resolve"
           local == Command(op, at)
<1>2. (op = "setup" => at = "read") /\ (op = "delete" => at = "stop")
  OBVIOUS
<1> HIDE DEF at
<1>3. /\ local.op = op /\ local.at = at
      /\ op = "setup" => local.wasRunning = FALSE
      /\ local.alone => daemon.at # "booting" /\ \A d \in Clis : cli[d] = Idle
  BY DEF Command
<1>4. report' = None /\ UNCHANGED daemon
  BY DEF Begin
<1>5. Machine'.daemon = daemon
  BY <1>4 DEF Machine
<1> HIDE DEF local
<1>6. local.alone => Knows(local, Machine')
  BY <1>2, <1>3, <1>5
     DEF Knows, SetupPlans, SetupFiles, SetupDaemon, DeletionKnows, Planned, Planning, Making
<1>7. Step(c, local)
  BY <1>1 DEF at, local
<1>8. AloneKnow'
  BY <1>3, <1>6, <1>7, OthersAreDisturbed
<1> QED BY <1>4, <1>8, Unmoved DEF RInv, ReportsStand
\* The machine after a step.
LEMMA After ==
  \E m : /\ m = Machine'
         /\ m.config = config' /\ m.plist = plist' /\ m.wrapper = wrapper'
         /\ m.keychain = keychain' /\ m.daemon = daemon'
         /\ Machine.config = config /\ Machine.plist = plist /\ Machine.wrapper = wrapper
         /\ Machine.keychain = keychain /\ Machine.daemon = daemon
<1>1. /\ Machine'.config = config' /\ Machine'.plist = plist' /\ Machine'.wrapper = wrapper'
      /\ Machine'.keychain = keychain' /\ Machine'.daemon = daemon'
  BY DEF Machine
<1>2. /\ Machine.config = config /\ Machine.plist = plist /\ Machine.wrapper = wrapper
      /\ Machine.keychain = keychain /\ Machine.daemon = daemon
  BY DEF Machine
<1> QED BY <1>1, <1>2

\* Steps of commands other than setup and the deletion: nothing is to be known.
LEMMA NothingToKnow ==
  ASSUME NEW x, NEW m, x.op # "setup", x.op # "delete"
  PROVE  Knows(x, m)
BY DEF Knows

LEMMA ResolveKnows ==
  ASSUME IInv, RInv, NEW c \in Clis, Resolve(c)
  PROVE  RInv'
<1>1. At(c, "resolve") /\ UNCHANGED <<auth, wrapper, plist, keychain, daemon, report>>
  BY DEF Resolve, ghosts
<1>2. /\ DOMAIN cli[c] = Fields /\ cli[c].at = "resolve" /\ cli[c] # Idle
      /\ cli[c].alone => Knows(cli[c], Machine)
  BY <1>1, Actor
<1>3. DaemonIsSomewhere'
  BY <1>1, Unmoved DEF RInv
<1>4. CASE Bail(c)
  BY <1>1, <1>2, <1>3, <1>4, Ends
<1>5. CASE ~Bail(c)
  <2>1. PICK a : Step(c, [cli[c] EXCEPT !.at = "configure", !.auth = a])
    BY <1>5 DEF Resolve
  <2> DEFINE local == [cli[c] EXCEPT !.at = "configure", !.auth = a]
  <2>2. local.at = "configure" /\ local.op = cli[c].op /\ local.alone = cli[c].alone
    BY <1>2 DEF Fields
  <2>3. Step(c, local)
    BY <2>1
  <2> HIDE DEF local
  <2>4. PICK m : /\ m = Machine' /\ m.daemon = daemon /\ m.keychain = keychain
                 /\ Machine.daemon = daemon /\ Machine.keychain = keychain
    BY <1>1, After
  <2>5. ASSUME Knows(cli[c], Machine) PROVE Knows(local, m)
    <3>1. cli[c].op # "setup"
      BY <1>2, <2>5 DEF Knows, SetupPlans, Planned, Planning, Making
    <3>2. cli[c].op = "delete" => daemon = Down /\ keychain = FALSE
      BY <1>2, <2>4, <2>5 DEF Knows, DeletionKnows
    <3>3. cli[c].op = "delete" => DeletionKnows(local, m)
      BY <2>2, <2>4, <3>2 DEF DeletionKnows
    <3> QED BY <2>2, <3>1, <3>3 DEF Knows
  <2> QED BY <1>1, <1>2, <1>3, <2>2, <2>3, <2>4, <2>5, QuietStep
<1> QED BY <1>4, <1>5

\* The script is there for a launcher that uses it, and gone for a deletion.
LEMMA WriteWrapperKnows ==
  ASSUME IInv, RInv, NEW c \in Clis, WriteWrapper(c)
  PROVE  RInv'
<1>1. At(c, "configure") /\ UNCHANGED <<config, auth, plist, keychain, daemon, report>>
  BY DEF WriteWrapper, ghosts
<1>2. /\ DOMAIN cli[c] = Fields /\ cli[c].at = "configure" /\ cli[c] # Idle
      /\ cli[c].alone => Knows(cli[c], Machine)
  BY <1>1, Actor
<1>3. DaemonIsSomewhere'
  BY <1>1, Unmoved DEF RInv
<1>4. CASE Bail(c)
  BY <1>1, <1>2, <1>3, <1>4, Ends
<1>5. CASE ~Bail(c)
  <2> DEFINE a == cli[c].auth
             there == Available(c, a)
             local == [cli[c] EXCEPT !.at = "agent", !.available = there,
                                     !.launcher = Launcher(c, a)]
  <2>1. Step(c, local) /\ wrapper' = Launcher(c, a).wrapped /\ ~(cli[c].require /\ ~there)
    BY <1>5 DEF WriteWrapper
  <2>2. there \in BOOLEAN /\ (there => a.mode \in Sources) /\ (there /\ a.mode = "keychain" => keychain)
    BY DEF Available, Sources
  <2>3. Launcher(c, a) = [wrapped |-> a.mode = "keychain" /\ there,
                          source |-> IF there THEN a.mode ELSE "local-only",
                          digest |-> a.digest]
    BY DEF Launcher
  <2> HIDE DEF there
  <2>4. /\ local.at = "agent" /\ local.op = cli[c].op /\ local.alone = cli[c].alone
        /\ local.plan = cli[c].plan /\ local.auth = a /\ local.launcher = Launcher(c, a)
        /\ local.available = there /\ local.wasRunning = cli[c].wasRunning
    BY <1>2 DEF Fields
  <2> HIDE DEF local
  <2>5. PICK m : /\ m = Machine' /\ m.config = config /\ m.wrapper = wrapper'
                 /\ m.keychain = keychain /\ m.daemon = daemon
                 /\ Machine.daemon = daemon /\ Machine.keychain = keychain
                 /\ Machine.config = config
    BY <1>1, After
  <2>6. ASSUME Knows(cli[c], Machine), cli[c].op = "setup" PROVE Knows(local, m)
    <3>1. /\ cli[c].plan \in ConfigType /\ a.mode \in Sources \cup {"local-only"}
          /\ cli[c].plan.enabled = (a.mode \in Sources)
          /\ a = Bound(cli[c].plan, a.mode) /\ config = cli[c].plan
          /\ cli[c].require = (a.mode \in Sources) /\ cli[c].wasRunning = FALSE
      BY <1>2, <2>5, <2>6 DEF Knows, SetupPlans, SetupFiles, Making
    <3>2. there = (a.mode \in Sources)
      <4>1. a.mode \in Sources => cli[c].require
        BY <3>1
      <4>2. there <=> a.mode \in Sources
        BY <2>1, <2>2, <4>1
      <4> QED BY <2>2, <4>2
    <3>3. Launcher(c, a) = Promised(a)
      BY <2>3, <3>1, <3>2 DEF Promised, Sources
    <3>4. a.mode = "keychain" => wrapper' /\ keychain
      <4>1. ASSUME a.mode = "keychain" PROVE there
        BY <3>2, <4>1 DEF Sources
      <4>2. Launcher(c, a).wrapped = (a.mode = "keychain" /\ there)
        BY <2>3
      <4> QED BY <2>1, <2>2, <4>1, <4>2
    <3>5. SetupPlans(local)
      BY <2>4, <3>1 DEF SetupPlans, Making, Planned, Planning
    <3>6. SetupFiles(local, m)
      BY <2>4, <2>5, <3>1, <3>2, <3>3, <3>4 DEF SetupFiles, Making
    <3>7. SetupDaemon(local, m)
      BY <2>4 DEF SetupDaemon
    <3> QED BY <2>4, <2>6, <3>5, <3>6, <3>7 DEF Knows
  <2>7. ASSUME Knows(cli[c], Machine), cli[c].op = "delete" PROVE Knows(local, m)
    <3>1. daemon = Down /\ keychain = FALSE
      BY <1>2, <2>5, <2>7 DEF Knows, DeletionKnows
    <3>2. ~(a.mode = "keychain" /\ there)
      BY <2>2, <3>1
    <3>3. Launcher(c, a).wrapped = FALSE
      <4>1. Launcher(c, a).wrapped = (a.mode = "keychain" /\ there)
        BY <2>3
      <4> QED BY <3>2, <4>1
    <3>4. DeletionKnows(local, m)
      BY <2>1, <2>4, <2>5, <3>1, <3>3 DEF DeletionKnows
    <3> QED BY <2>4, <2>7, <3>4 DEF Knows
  <2>8. Knows(cli[c], Machine) => Knows(local, m)
    BY <2>4, <2>6, <2>7, NothingToKnow
  <2> QED BY <1>1, <1>2, <1>3, <2>1, <2>4, <2>5, <2>8, QuietStep
<1> QED BY <1>4, <1>5

LEMMA WriteAgentKnows ==
  ASSUME IInv, RInv, NEW c \in Clis, WriteAgent(c)
  PROVE  RInv'
<1>1. At(c, "agent") /\ UNCHANGED <<config, auth, wrapper, keychain, daemon, report>>
  BY DEF WriteAgent, ghosts
<1>2. /\ DOMAIN cli[c] = Fields /\ cli[c].at = "agent" /\ cli[c] # Idle
      /\ cli[c].alone => Knows(cli[c], Machine)
  BY <1>1, Actor
<1>3. DaemonIsSomewhere'
  BY <1>1, Unmoved DEF RInv
<1> DEFINE to == CASE cli[c].op \in {"setup", "bind"} -> "authorize"
                   [] cli[c].op = "start" -> "ping"
                   [] cli[c].op = "delete" /\ ~cli[c].wasRunning -> "check"
                   [] cli[c].op = "delete" -> "launch"
                   [] OTHER -> "refresh"
           local == [cli[c] EXCEPT !.launcher = NoFile, !.require = FALSE, !.at = to]
<1>4. Step(c, local) /\ plist' = cli[c].launcher
  BY DEF WriteAgent
<1>5. /\ cli[c].op = "setup" => to = "authorize"
      /\ cli[c].op = "delete" => to \in {"check", "launch"}
  OBVIOUS
<1> HIDE DEF to
<1>6. /\ local.at = to /\ local.op = cli[c].op /\ local.alone = cli[c].alone
      /\ local.plan = cli[c].plan /\ local.auth = cli[c].auth
      /\ local.available = cli[c].available /\ local.wasRunning = cli[c].wasRunning
  BY <1>2 DEF Fields
<1> HIDE DEF local
<1>7. PICK m : /\ m = Machine' /\ m.config = config /\ m.plist = plist' /\ m.wrapper = wrapper
               /\ m.keychain = keychain /\ m.daemon = daemon
               /\ Machine.daemon = daemon /\ Machine.keychain = keychain
               /\ Machine.config = config /\ Machine.wrapper = wrapper
  BY <1>1, After
<1>8. ASSUME Knows(cli[c], Machine), cli[c].op = "setup" PROVE Knows(local, m)
  <2>1. SetupPlans(local)
    BY <1>2, <1>5, <1>6, <1>8 DEF Knows, SetupPlans, Making, Planned, Planning
  <2>2. SetupFiles(local, m)
    BY <1>2, <1>4, <1>5, <1>6, <1>7, <1>8 DEF Knows, SetupFiles, Making
  <2>3. SetupDaemon(local, m)
    BY <1>5, <1>6, <1>8 DEF SetupDaemon
  <2> QED BY <1>6, <1>8, <2>1, <2>2, <2>3 DEF Knows
<1>9. ASSUME Knows(cli[c], Machine), cli[c].op = "delete" PROVE Knows(local, m)
  <2>1. daemon = Down /\ keychain = FALSE /\ ~cli[c].launcher.wrapped /\ ~wrapper
    BY <1>2, <1>7, <1>9 DEF Knows, DeletionKnows
  <2>2. daemon.key # "keychain"
    BY <2>1, AuthorizationAssumption DEF Down, Sources
  <2>3. DeletionKnows(local, m)
    BY <1>4, <1>5, <1>6, <1>7, <1>9, <2>1, <2>2 DEF DeletionKnows
  <2> QED BY <1>6, <1>9, <2>3 DEF Knows
<1>10. Knows(cli[c], Machine) => Knows(local, m)
  BY <1>6, <1>8, <1>9, NothingToKnow
<1> QED BY <1>1, <1>2, <1>3, <1>4, <1>6, <1>7, <1>10, QuietStep
\* Steps that only move a command of setup, and leave the daemon and the launcher.
LEMMA AuthorizationKnows ==
  ASSUME IInv, RInv, NEW c \in Clis, SaveAuthorization(c) \/ ReadConfig(c) \/ Load(c)
  PROVE  RInv'
<1>1. UNCHANGED <<config, wrapper, plist, keychain, daemon, report>>
  BY DEF SaveAuthorization, ReadConfig, Load, files, ghosts
<1>2. /\ DOMAIN cli[c] = Fields /\ cli[c] # Idle
      /\ cli[c].at \in {"authorize", "read", "load"}
      /\ cli[c].alone => Knows(cli[c], Machine)
  BY Actor DEF SaveAuthorization, ReadConfig, Load
<1>3. DaemonIsSomewhere' /\ Machine' = Machine
  BY <1>1, Unmoved, SameMachine DEF RInv
<1>4. \E local :
        /\ Step(c, local) /\ local.op = cli[c].op /\ local.plan = cli[c].plan
        /\ local.auth = cli[c].auth /\ local.available = cli[c].available
        /\ local.wasRunning = cli[c].wasRunning /\ local.alone = cli[c].alone
        /\ \/ cli[c].at = "authorize" /\ local.at = "refresh"
           \/ local.at \in {"load", "answer"}
  <2>1. CASE SaveAuthorization(c)
    <3> DEFINE local == [cli[c] EXCEPT !.at = "refresh"]
    <3>1. /\ local.op = cli[c].op /\ local.plan = cli[c].plan
          /\ local.auth = cli[c].auth /\ local.available = cli[c].available
          /\ local.wasRunning = cli[c].wasRunning /\ local.alone = cli[c].alone
          /\ local.at = "refresh"
      BY <1>2 DEF Fields
    <3>2. Step(c, local) /\ cli[c].at = "authorize"
      BY <2>1 DEF SaveAuthorization, Goto, At
    <3> QED BY <3>1, <3>2
  <2>2. CASE ReadConfig(c)
    <3> DEFINE local == [cli[c] EXCEPT !.at = "load",
                                       !.original = [config |-> config, auth |-> auth]]
    <3>1. /\ local.op = cli[c].op /\ local.plan = cli[c].plan
          /\ local.auth = cli[c].auth /\ local.available = cli[c].available
          /\ local.wasRunning = cli[c].wasRunning /\ local.alone = cli[c].alone
          /\ local.at = "load"
      BY <1>2 DEF Fields
    <3>2. Step(c, local)
      BY <2>2 DEF ReadConfig
    <3> QED BY <3>1, <3>2
  <2>3. CASE Load(c)
    <3>1. PICK seen : Step(c, [cli[c] EXCEPT !.at = "answer", !.seen = seen])
      BY <2>3 DEF Load
    <3> DEFINE local == [cli[c] EXCEPT !.at = "answer", !.seen = seen]
    <3>2. /\ local.op = cli[c].op /\ local.plan = cli[c].plan
          /\ local.auth = cli[c].auth /\ local.available = cli[c].available
          /\ local.wasRunning = cli[c].wasRunning /\ local.alone = cli[c].alone
          /\ local.at = "answer"
      BY <1>2 DEF Fields
    <3> QED BY <3>1, <3>2
  <2> QED BY <2>1, <2>2, <2>3
<1>5. PICK local :
        /\ Step(c, local) /\ local.op = cli[c].op /\ local.plan = cli[c].plan
        /\ local.auth = cli[c].auth /\ local.available = cli[c].available
        /\ local.wasRunning = cli[c].wasRunning /\ local.alone = cli[c].alone
        /\ \/ cli[c].at = "authorize" /\ local.at = "refresh"
           \/ local.at \in {"load", "answer"}
  BY <1>4
<1>6. ASSUME NEW m, Knows(cli[c], m), cli[c].op = "setup" PROVE Knows(local, m)
  <2>1. SetupPlans(local)
    BY <1>2, <1>5, <1>6 DEF Knows, SetupPlans, Making, Planned, Planning
  <2>2. SetupFiles(local, m)
    BY <1>2, <1>5, <1>6 DEF Knows, SetupFiles, Making
  <2>3. SetupDaemon(local, m)
    BY <1>2, <1>5, <1>6 DEF SetupDaemon
  <2> QED BY <1>5, <1>6, <2>1, <2>2, <2>3 DEF Knows
<1>7. ASSUME NEW m, Knows(cli[c], m) PROVE cli[c].op # "delete"
  BY <1>2, <1>7 DEF Knows, DeletionKnows
<1>8. Knows(cli[c], Machine) => Knows(local, Machine)
  BY <1>5, <1>6, <1>7, NothingToKnow
<1> QED BY <1>1, <1>2, <1>3, <1>5, <1>8, QuietStep

\* A setup that stops the daemon remembers that it did.
LEMMA RefreshKnows ==
  ASSUME IInv, RInv, NEW c \in Clis, Refresh(c)
  PROVE  RInv'
<1>1. At(c, "refresh") /\ UNCHANGED <<config, auth, wrapper, plist, keychain, report>>
  BY DEF Refresh, files, ghosts
<1>2. /\ DOMAIN cli[c] = Fields /\ cli[c].at = "refresh" /\ cli[c] # Idle
      /\ cli[c].alone => Knows(cli[c], Machine)
  BY <1>1, Actor
<1>3. PICK m : /\ m = Machine' /\ m.config = config /\ m.plist = plist /\ m.wrapper = wrapper
               /\ m.keychain = keychain /\ m.daemon = daemon'
               /\ Machine.keychain = keychain /\ Machine.config = config
               /\ Machine.wrapper = wrapper /\ Machine.plist = plist
  BY <1>1, After
<1>4. ASSUME NEW x, Knows(x, Machine), x.at = "refresh" PROVE x.op # "delete"
  BY <1>4 DEF Knows, DeletionKnows
<1>5. CASE Bail(c) /\ UNCHANGED daemon
  BY <1>1, <1>2, <1>5, Ends, Unmoved DEF RInv
<1>6. CASE Running /\ ~(Bail(c) /\ UNCHANGED daemon)
  <2> DEFINE local == [cli[c] EXCEPT !.at = "launch", !.wasRunning = TRUE]
  <2>1. Step(c, local) /\ daemon' = Down
    BY <1>6 DEF Refresh, Stopped, Running
  <2>2. /\ local.at = "launch" /\ local.op = cli[c].op /\ local.alone = cli[c].alone
        /\ local.plan = cli[c].plan /\ local.auth = cli[c].auth
        /\ local.available = cli[c].available
    BY <1>2 DEF Fields
  <2> HIDE DEF local
  <2>3. ASSUME Knows(cli[c], Machine), cli[c].op = "setup" PROVE Knows(local, m)
    <3>1. SetupPlans(local)
      BY <1>2, <2>2, <2>3 DEF Knows, SetupPlans, Making, Planned, Planning
    <3>2. SetupFiles(local, m)
      BY <1>2, <1>3, <2>2, <2>3 DEF Knows, SetupFiles, Making
    <3>3. SetupDaemon(local, m)
      BY <1>3, <2>1, <2>2 DEF SetupDaemon
    <3> QED BY <2>2, <2>3, <3>1, <3>2, <3>3 DEF Knows
  <2>4. Knows(cli[c], Machine) => Knows(local, m)
    BY <1>2, <1>4, <2>2, <2>3, NothingToKnow
  <2>5. DaemonIsSomewhere'
    BY <2>1, Unmoved
  <2> QED BY <1>1, <1>2, <1>3, <2>1, <2>2, <2>4, <2>5, QuietStep
<1>7. CASE ~Running
  <2>1. Goto(c, "check") /\ UNCHANGED daemon
    BY <1>7 DEF Refresh
  <2> DEFINE local == [cli[c] EXCEPT !.at = "check"]
  <2>2. /\ local.at = "check" /\ local.op = cli[c].op /\ local.alone = cli[c].alone
        /\ local.plan = cli[c].plan /\ local.auth = cli[c].auth
        /\ local.wasRunning = cli[c].wasRunning
    BY <1>2 DEF Fields
  <2> HIDE DEF local
  <2>3. ASSUME Knows(cli[c], Machine), cli[c].op = "setup" PROVE Knows(local, m)
    <3>1. SetupPlans(local)
      BY <1>2, <2>2, <2>3 DEF Knows, SetupPlans, Making, Planned, Planning
    <3>2. SetupFiles(local, m)
      BY <1>2, <1>3, <2>2, <2>3 DEF Knows, SetupFiles, Making
    <3>3. SetupDaemon(local, m)
      BY <1>2, <2>2, <2>3 DEF Knows, SetupPlans, SetupDaemon
    <3> QED BY <2>2, <2>3, <3>1, <3>2, <3>3 DEF Knows
  <2>4. Knows(cli[c], Machine) => Knows(local, m)
    BY <1>2, <1>4, <2>2, <2>3, NothingToKnow
  <2>5. DaemonIsSomewhere'
    BY <2>1, Unmoved DEF RInv
  <2> QED BY <1>1, <1>2, <1>3, <2>1, <2>4, <2>5, GoesKnowing DEF local
<1> QED BY <1>5, <1>6, <1>7

\* Other commands end, or move on and know nothing of the machine.
LEMMA OtherCommandsKnow ==
  ASSUME IInv, RInv, NEW c \in Clis, Reinstall(c) \/ Ping(c) \/ Decide(c)
  PROVE  RInv'
<1>1. UNCHANGED report /\ (UNCHANGED daemon \/ daemon' \in Stopped)
  BY DEF Reinstall, Ping, Decide, ghosts
<1>2. DaemonIsSomewhere'
  BY <1>1, Unmoved DEF RInv, Stopped
<1>3. DOMAIN cli[c] = Fields /\ cli[c] # Idle /\ (cli[c].alone => Knows(cli[c], Machine))
  BY Actor DEF Reinstall, Ping, Decide
<1>4. ASSUME NEW x, NEW m, Knows(x, m), x.at \in {"ping", "decide"}
      PROVE  x.op # "setup" /\ x.op # "delete"
  BY <1>4 DEF Knows, SetupPlans, DeletionKnows, Planned, Planning, Making
<1>5. CASE Bail(c)
  BY <1>1, <1>2, <1>3, <1>5, Ends
<1>6. CASE Reinstall(c) /\ ~Bail(c)
  <2> DEFINE local == [cli[c] EXCEPT !.op = "start", !.at = "resolve"]
  <2>1. Step(c, local) /\ local.op = "start" /\ local.alone = cli[c].alone
    BY <1>3, <1>6 DEF Reinstall, Fields
  <2>2. Knows(local, Machine')
    BY <2>1, NothingToKnow
  <2> QED BY <1>1, <1>2, <1>3, <2>1, <2>2, QuietStep
<1>7. CASE Ping(c)
  <2>1. PICK to : Goto(c, to)
    BY <1>7 DEF Ping
  <2>2. [cli[c] EXCEPT !.at = to].op = cli[c].op
    BY <1>3, Elsewhere
  <2>3. cli[c].alone => Knows([cli[c] EXCEPT !.at = to], Machine')
    BY <1>3, <1>4, <1>7, <2>2, NothingToKnow DEF Ping, At
  <2> QED BY <1>1, <1>2, <1>3, <2>1, <2>3, GoesKnowing
<1>8. CASE Decide(c) /\ ~Bail(c)
  <2>1. cli[c].alone => cli[c].op # "setup" /\ cli[c].op # "delete"
    BY <1>3, <1>4, <1>8 DEF Decide, At
  <2> DEFINE bound == [cli[c] EXCEPT !.op = "bind", !.at = "configure", !.require = TRUE,
                                     !.auth = Bound(config, "keychain"), !.plan = config]
             kept == [cli[c] EXCEPT !.at = "configure", !.auth = auth]
             none == [cli[c] EXCEPT !.op = "bind", !.at = "configure",
                                    !.auth = Bound(config, "local-only")]
  <2>2. Step(c, bound) \/ Step(c, kept) \/ Step(c, none)
    BY <1>8 DEF Decide
  <2>3. /\ bound.op = "bind" /\ bound.alone = cli[c].alone
        /\ kept.op = cli[c].op /\ kept.alone = cli[c].alone
        /\ none.op = "bind" /\ none.alone = cli[c].alone
    BY <1>3 DEF Fields
  <2> HIDE DEF bound, kept, none
  <2>4. /\ Knows(bound, Machine') /\ Knows(none, Machine')
        /\ cli[c].alone => Knows(kept, Machine')
    BY <2>1, <2>3, NothingToKnow
  <2> QED BY <1>1, <1>2, <1>3, <2>2, <2>3, <2>4, QuietStep
<1> QED BY <1>5, <1>6, <1>7, <1>8
\* What is launched is what the launcher promised, or what the shell has.
LEMMA StartDaemonKnows ==
  ASSUME IInv, RInv, NEW c \in Clis, StartDaemon(c)
  PROVE  RInv'
<1>1. At(c, "launch") /\ UNCHANGED <<config, auth, wrapper, plist, keychain, report>>
  BY DEF StartDaemon, files, ghosts
<1>2. /\ DOMAIN cli[c] = Fields /\ cli[c].at = "launch" /\ cli[c] # Idle
      /\ cli[c].alone => Knows(cli[c], Machine)
  BY <1>1, Actor
<1>3. CASE Bail(c) /\ UNCHANGED daemon
  BY <1>1, <1>2, <1>3, Ends, Unmoved DEF RInv
<1>4. CASE ~(Bail(c) /\ UNCHANGED daemon)
  <2> DEFINE a == cli[c].auth
             local == [cli[c] EXCEPT !.at = "wait"]
  <2>1. Launch(a, cli[c].available) /\ Goto(c, "wait")
    BY <1>4 DEF StartDaemon
  <2>2. /\ local.at = "wait" /\ local.op = cli[c].op /\ local.alone = cli[c].alone
        /\ local.plan = cli[c].plan /\ local.auth = a
        /\ local.wasRunning = cli[c].wasRunning
    BY <1>2 DEF Fields
  <2> HIDE DEF local
  <2>3. PICK m : /\ m = Machine' /\ m.config = config /\ m.plist = plist /\ m.wrapper = wrapper
                 /\ m.keychain = keychain /\ m.daemon = daemon'
                 /\ Machine.keychain = keychain /\ Machine.config = config
                 /\ Machine.wrapper = wrapper /\ Machine.plist = plist
                 /\ Machine.daemon = daemon
    BY <1>1, After
  <2>4. DaemonIsSomewhere'
    <3>1. UNCHANGED daemon \/ daemon' = Down \/ daemon'.at = "booting"
      BY <2>1 DEF Launch, Launched
    <3> QED BY <3>1, Unmoved DEF RInv, DaemonIsSomewhere
  <2>5. None # "shell" /\ None # "keychain" /\ None \notin Sources
    <3>1. None \notin Sources /\ None # "shell"
      BY AuthorizationAssumption
    <3> QED BY <3>1 DEF Sources
  <2>6. ASSUME Knows(cli[c], Machine), cli[c].op = "setup" PROVE Knows(local, m)
    <3>1. /\ a.mode \in Sources \cup {"local-only"} /\ daemon = Down
          /\ cli[c].available = (a.mode \in Sources)
          /\ a.mode = "keychain" => wrapper /\ keychain
          /\ plist = Promised(a)
      BY <1>2, <2>3, <2>6 DEF Knows, SetupPlans, SetupFiles, SetupDaemon, Making
    <3>2. SetupPlans(local)
      BY <1>2, <2>2, <2>6 DEF Knows, SetupPlans, Making, Planned, Planning
    <3>3. SetupFiles(local, m)
      BY <1>2, <2>2, <2>3, <2>6 DEF Knows, SetupFiles, Making
    <3>4. /\ daemon'.at = "booting" /\ daemon'.source = a.mode /\ daemon'.digest = a.digest
          /\ daemon'.key = Given(a)
      <4>1. CASE a.mode = "environment"
        <5>1. daemon' = Launched("shell", a.mode, a.digest, "environment")
          BY <2>1, <2>5, <3>1, <4>1 DEF Launch, Down, Sources
        <5> QED BY <4>1, <5>1 DEF Launched, Given
      <4>2. CASE a.mode = "keychain"
        <5>1. plist.wrapped = TRUE /\ plist.source = a.mode /\ plist.digest = a.digest
          BY <3>1, <4>2 DEF Promised
        <5>2. daemon' = Launched("agent", plist.source, plist.digest, "keychain")
          BY <2>1, <2>5, <3>1, <4>2, <5>1 DEF Launch, Down
        <5> QED BY <4>2, <5>1, <5>2 DEF Launched, Given
      <4>3. CASE a.mode = "local-only"
        <5>1. plist.wrapped = FALSE /\ plist.source = a.mode /\ plist.digest = a.digest
          BY <3>1, <4>3 DEF Promised
        <5>2. daemon' = Launched("agent", plist.source, plist.digest, None)
          BY <2>1, <2>5, <3>1, <4>3, <5>1 DEF Launch, Down
        <5> QED BY <4>3, <5>1, <5>2 DEF Launched, Given
      <4> QED BY <3>1, <4>1, <4>2, <4>3 DEF Sources
    <3>5. SetupDaemon(local, m)
      BY <2>2, <2>3, <3>4 DEF SetupDaemon
    <3> QED BY <2>2, <2>6, <3>2, <3>3, <3>5 DEF Knows
  <2>7. ASSUME Knows(cli[c], Machine), cli[c].op = "delete" PROVE Knows(local, m)
    <3>1. daemon = Down /\ keychain = FALSE /\ ~wrapper /\ ~plist.wrapped
      BY <1>2, <2>3, <2>7 DEF Knows, DeletionKnows
    <3>2. daemon'.key # "keychain"
      BY <2>1, <2>5, <3>1 DEF Launch, Launched, Down
    <3>3. DeletionKnows(local, m)
      BY <2>2, <2>3, <3>1, <3>2 DEF DeletionKnows
    <3> QED BY <2>2, <2>7, <3>3 DEF Knows
  <2>8. Knows(cli[c], Machine) => Knows(local, m)
    BY <2>2, <2>6, <2>7, NothingToKnow
  <2> QED BY <1>1, <1>2, <2>1, <2>3, <2>4, <2>8, GoesKnowing DEF local
<1> QED BY <1>3, <1>4

LEMMA WaitKnows ==
  ASSUME IInv, RInv, NEW c \in Clis, Wait(c)
  PROVE  RInv'
<1>1. At(c, "wait") /\ UNCHANGED <<config, wrapper, plist, keychain, daemon, report>>
  BY DEF Wait, files, ghosts
<1>2. /\ DOMAIN cli[c] = Fields /\ cli[c].at = "wait" /\ cli[c] # Idle
      /\ cli[c].alone => Knows(cli[c], Machine)
  BY <1>1, Actor
<1>3. DaemonIsSomewhere' /\ Machine' = Machine /\ Machine.daemon = daemon
  BY <1>1, Unmoved, SameMachine DEF RInv, Machine
<1>4. CASE Bail(c)
  BY <1>1, <1>2, <1>3, <1>4, Ends
<1>5. CASE ~Bail(c)
  <2> DEFINE local == [cli[c] EXCEPT !.at = "check"]
  <2>1. daemon.at = "up" /\ Goto(c, "check")
    BY <1>5 DEF Wait, Running
  <2>2. /\ local.at = "check" /\ local.op = cli[c].op /\ local.alone = cli[c].alone
        /\ local.plan = cli[c].plan /\ local.auth = cli[c].auth
    BY <1>2 DEF Fields
  <2> HIDE DEF local
  <2>3. ASSUME NEW m, m.daemon = daemon, Knows(cli[c], m), cli[c].op = "setup"
        PROVE  Knows(local, m)
    <3>1. SetupPlans(local)
      BY <1>2, <2>2, <2>3 DEF Knows, SetupPlans, Making, Planned, Planning
    <3>2. SetupFiles(local, m)
      BY <1>2, <2>2, <2>3 DEF Knows, SetupFiles, Making
    <3>3. m.daemon.key = Given(cli[c].auth)
      BY <1>2, <2>3 DEF Knows, SetupDaemon
    <3>4. SetupDaemon(local, m)
      BY <2>1, <2>2, <2>3, <3>3 DEF SetupDaemon
    <3> QED BY <2>2, <2>3, <3>1, <3>2, <3>4 DEF Knows
  <2>4. ASSUME NEW m, Knows(cli[c], m), cli[c].op = "delete"
        PROVE  Knows(local, m)
    <3>1. DeletionKnows(local, m)
      BY <1>2, <2>2, <2>4 DEF Knows, DeletionKnows
    <3> QED BY <2>2, <2>4, <3>1 DEF Knows
  <2>5. Knows(cli[c], Machine) => Knows(local, Machine)
    BY <1>3, <2>2, <2>3, <2>4, NothingToKnow
  <2> QED BY <1>1, <1>2, <1>3, <2>1, <2>5, GoesKnowing DEF local
<1> QED BY <1>4, <1>5

\* The Keychain: a key is stored for setup before its launcher, and goes for good
\* after the daemon has ended.
LEMMA KeysKnow ==
  ASSUME IInv, RInv, NEW c \in Clis, StoreKey(c) \/ DeleteKey(c)
  PROVE  RInv'
<1>1. UNCHANGED <<config, wrapper, plist, daemon, report>>
  BY DEF StoreKey, DeleteKey, files, ghosts
<1>2. /\ DOMAIN cli[c] = Fields /\ cli[c] # Idle /\ cli[c].at \in {"key", "delete"}
      /\ cli[c].alone => Knows(cli[c], Machine)
  BY Actor DEF StoreKey, DeleteKey
<1>3. DaemonIsSomewhere'
  BY <1>1, Unmoved DEF RInv
<1>4. PICK m : /\ m = Machine' /\ m.config = config /\ m.keychain = keychain' /\ m.daemon = daemon
               /\ Machine.config = config /\ Machine.daemon = daemon
  BY <1>1, After
<1>5. CASE Bail(c)
  BY <1>1, <1>2, <1>3, <1>5, Ends
<1>6. CASE StoreKey(c) /\ ~Bail(c)
  <2>1. PICK to : Goto(c, to) /\ (cli[c].op = "setup" => to = "key stored")
    BY <1>6 DEF StoreKey
  <2>2. cli[c].at = "key"
    BY <1>6 DEF StoreKey, At
  <2> DEFINE local == [cli[c] EXCEPT !.at = to]
  <2>3. /\ local.at = to /\ local.op = cli[c].op /\ local.plan = cli[c].plan
        /\ local.auth = cli[c].auth /\ local.wasRunning = cli[c].wasRunning
    BY <1>2, Elsewhere
  <2> HIDE DEF local
  <2>4. ASSUME Knows(cli[c], Machine), cli[c].op = "setup" PROVE Knows(local, m)
    <3>1. SetupPlans(local)
      BY <2>1, <2>2, <2>3, <2>4 DEF Knows, SetupPlans, Making, Planned, Planning
    <3>2. SetupFiles(local, m)
      BY <1>4, <2>1, <2>2, <2>3, <2>4 DEF Knows, SetupFiles, Making
    <3>3. SetupDaemon(local, m)
      BY <2>1, <2>3, <2>4 DEF SetupDaemon
    <3> QED BY <2>3, <2>4, <3>1, <3>2, <3>3 DEF Knows
  <2>5. Knows(cli[c], Machine) => cli[c].op # "delete"
    BY <2>2 DEF Knows, DeletionKnows
  <2>6. Knows(cli[c], Machine) => Knows(local, m)
    BY <2>3, <2>4, <2>5, NothingToKnow
  <2> QED BY <1>1, <1>2, <1>3, <1>4, <2>1, <2>6, GoesKnowing DEF local
<1>7. CASE DeleteKey(c) /\ ~Bail(c)
  <2>1. keychain' = FALSE /\ Goto(c, "resolve") /\ cli[c].at = "delete"
    BY <1>7 DEF DeleteKey, At
  <2> DEFINE local == [cli[c] EXCEPT !.at = "resolve"]
  <2>2. local.at = "resolve" /\ local.op = cli[c].op
    BY <1>2, Elsewhere
  <2> HIDE DEF local
  <2>3. ASSUME Knows(cli[c], Machine), cli[c].op = "delete" PROVE Knows(local, m)
    <3>1. DeletionKnows(local, m)
      BY <1>4, <2>1, <2>2, <2>3 DEF Knows, DeletionKnows
    <3> QED BY <2>2, <2>3, <3>1 DEF Knows
  <2>4. Knows(cli[c], Machine) => cli[c].op # "setup"
    BY <2>1 DEF Knows, SetupPlans, Planned, Planning, Making
  <2>5. Knows(cli[c], Machine) => Knows(local, m)
    BY <2>2, <2>3, <2>4, NothingToKnow
  <2> QED BY <1>1, <1>2, <1>3, <1>4, <2>1, <2>5, GoesKnowing DEF local
<1> QED BY <1>5, <1>6, <1>7

\* Nothing is being launched when a deletion begins, so the daemon it ends is all.
LEMMA StopForDeleteKnows ==
  ASSUME IInv, RInv, NEW c \in Clis, StopForDelete(c)
  PROVE  RInv'
<1>1. At(c, "stop") /\ UNCHANGED report
  BY DEF StopForDelete, ghosts
<1>2. /\ DOMAIN cli[c] = Fields /\ cli[c].at = "stop" /\ cli[c] # Idle
      /\ cli[c].alone => Knows(cli[c], Machine)
  BY <1>1, Actor
<1>3. UNCHANGED daemon \/ daemon' = Down
  BY DEF StopForDelete, Stopped
<1>4. DaemonIsSomewhere'
  BY <1>3, Unmoved DEF RInv
<1>5. CASE Bail(c)
  BY <1>1, <1>2, <1>4, <1>5, Ends
<1>6. CASE ~Bail(c)
  <2> DEFINE b == Running
             local == [cli[c] EXCEPT !.at = "delete", !.wasRunning = b]
  <2>1. Step(c, local) /\ daemon' \in IF Running THEN Stopped ELSE {daemon}
    BY <1>6 DEF StopForDelete
  <2> HIDE DEF b
  <2>2. local.at = "delete" /\ local.op = cli[c].op /\ local.alone = cli[c].alone
    BY <1>2 DEF Fields
  <2> HIDE DEF local
  <2>3. PICK m : m = Machine' /\ m.daemon = daemon' /\ Machine.daemon = daemon
    BY After
  <2>4. ASSUME Knows(cli[c], Machine), cli[c].op = "delete" PROVE Knows(local, m)
    <3>1. daemon.at # "booting"
      BY <1>2, <2>3, <2>4 DEF Knows, DeletionKnows
    <3>2. daemon' = Down
      BY <2>1, <3>1 DEF Stopped, Running, RInv, DaemonIsSomewhere
    <3>3. DeletionKnows(local, m)
      BY <2>2, <2>3, <3>2 DEF DeletionKnows
    <3> QED BY <2>2, <2>4, <3>3 DEF Knows
  <2>5. Knows(cli[c], Machine) => cli[c].op # "setup"
    BY <1>2 DEF Knows, SetupPlans, Planned, Planning, Making
  <2>6. Knows(cli[c], Machine) => Knows(local, m)
    BY <2>2, <2>4, <2>5, NothingToKnow
  <2> QED BY <1>1, <1>2, <1>4, <2>1, <2>2, <2>3, <2>6, QuietStep
<1> QED BY <1>5, <1>6
\* The plan is enabled if and only if a credential was chosen.
LEMMA AnswerKnows ==
  ASSUME IInv, RInv, NEW c \in Clis, Answer(c)
  PROVE  RInv'
<1>1. At(c, "answer") /\ UNCHANGED <<config, wrapper, plist, keychain, daemon, report>>
  BY DEF Answer, files
<1>2. /\ DOMAIN cli[c] = Fields /\ cli[c].at = "answer" /\ cli[c] # Idle
      /\ cli[c].alone => Knows(cli[c], Machine)
  BY <1>1, Actor
<1>3. DaemonIsSomewhere' /\ Machine' = Machine
  BY <1>1, Unmoved, SameMachine DEF RInv
<1>4. CASE Bail(c)
  BY <1>1, <1>2, <1>3, <1>4, Ends
<1>5. CASE ~Bail(c)
  <2>1. PICK target \in Targets, yes \in BOOLEAN, flight \in BOOLEAN :
          LET seen == cli[c].seen
              asked == MustConfirm(seen, target)
              confirmed == IF asked THEN yes ELSE Candidate(seen) # None
          IN  \E choice \in Decisions(seen, confirmed) :
                /\ flight => choice[1] # None
                /\ Step(c, [cli[c] EXCEPT
                              !.at = IF flight /\ ~choice[2] THEN "flight" ELSE "check config",
                              !.plan = [target |-> target, enabled |-> choice[1] # None],
                              !.auth = [mode |-> choice[1], digest |-> None],
                              !.available = flight, !.require = choice[2],
                              !.seen = None])
                /\ reviewed' = IF choice[1] = None \/ (~asked /\ target # seen.config.target
                                                       /\ ~choice[2])
                               THEN reviewed
                               ELSE reviewed \cup {<<choice[1], target>>}
    BY <1>5 DEF Answer
  <2> DEFINE confirmed == IF MustConfirm(cli[c].seen, target) THEN yes
                          ELSE Candidate(cli[c].seen) # None
  <2>2. PICK choice \in Decisions(cli[c].seen, confirmed) :
          Step(c, [cli[c] EXCEPT
                     !.at = IF flight /\ ~choice[2] THEN "flight" ELSE "check config",
                     !.plan = [target |-> target, enabled |-> choice[1] # None],
                     !.auth = [mode |-> choice[1], digest |-> None],
                     !.available = flight, !.require = choice[2],
                     !.seen = None])
    BY <2>1
  <2> HIDE DEF confirmed
  <2>3. choice[1] \in Sources \cup {None}
    <3>1. Decisions(cli[c].seen, confirmed) \subseteq
            {<<None, FALSE>>, <<"keychain", FALSE>>, <<"environment", FALSE>>, <<"keychain", TRUE>>}
      BY DEF Decisions
    <3>2. choice \in {<<None, FALSE>>, <<"keychain", FALSE>>, <<"environment", FALSE>>,
                      <<"keychain", TRUE>>}
      BY <3>1
    <3>3. choice[1] = None \/ choice[1] = "keychain" \/ choice[1] = "environment"
      <4>1. CASE choice = <<None, FALSE>>
        BY <4>1
      <4>2. CASE choice = <<"keychain", FALSE>>
        BY <4>2
      <4>3. CASE choice = <<"keychain", TRUE>>
        BY <4>3
      <4>4. CASE choice = <<"environment", FALSE>>
        BY <4>4
      <4> QED BY <3>2, <4>1, <4>2, <4>3, <4>4
    <3> QED BY <3>3 DEF Sources
  <2> DEFINE to == IF flight /\ ~choice[2] THEN "flight" ELSE "check config"
             plan == [target |-> target, enabled |-> choice[1] # None]
             local == [cli[c] EXCEPT !.at = to, !.plan = plan,
                        !.auth = [mode |-> choice[1], digest |-> None],
                        !.available = flight, !.require = choice[2], !.seen = None]
  <2>4. to \in {"flight", "check config"}
    OBVIOUS
  <2>5. plan \in ConfigType /\ plan.enabled = (choice[1] # None)
    BY DEF ConfigType
  <2>6. Step(c, local)
    BY <2>2
  <2> HIDE DEF to, plan
  <2>7. /\ local.at = to /\ local.op = cli[c].op /\ local.alone = cli[c].alone
        /\ local.plan = plan /\ local.auth.mode = choice[1]
        /\ local.wasRunning = cli[c].wasRunning
    BY <1>2 DEF Fields
  <2> HIDE DEF local
  <2>8. ASSUME NEW m, Knows(cli[c], m), cli[c].op = "setup" PROVE Knows(local, m)
    <3>1. cli[c].wasRunning = FALSE
      BY <1>2, <2>8 DEF Knows, SetupPlans
    <3>2. SetupPlans(local)
      BY <2>3, <2>4, <2>5, <2>7, <3>1 DEF SetupPlans, Making, Planned, Planning
    <3>3. SetupFiles(local, m)
      BY <2>4, <2>7 DEF SetupFiles, Making
    <3>4. SetupDaemon(local, m)
      BY <2>4, <2>7 DEF SetupDaemon
    <3> QED BY <2>7, <2>8, <3>2, <3>3, <3>4 DEF Knows
  <2>9. ASSUME NEW m, Knows(cli[c], m) PROVE cli[c].op # "delete"
    BY <1>2, <2>9 DEF Knows, DeletionKnows
  <2>10. Knows(cli[c], Machine) => Knows(local, Machine)
    BY <2>7, <2>8, <2>9, NothingToKnow
  <2> QED BY <1>1, <1>2, <1>3, <2>6, <2>7, <2>10, QuietStep
<1> QED BY <1>4, <1>5

\* From the plan to the configuration that holds it.
LEMMA PlanKnows ==
  ASSUME IInv, RInv, NEW c \in Clis,
         FlightCheck(c) \/ EnsureUnchanged(c) \/ SaveConfig(c) \/ KeyStored(c)
  PROVE  RInv'
<1>1. UNCHANGED <<daemon, report>>
  BY DEF FlightCheck, EnsureUnchanged, SaveConfig, KeyStored, ghosts
<1>2. /\ DOMAIN cli[c] = Fields /\ cli[c] # Idle
      /\ cli[c].at \in {"flight", "check config", "check auth", "save", "read back", "key stored"}
      /\ cli[c].alone => Knows(cli[c], Machine)
  BY Actor DEF FlightCheck, EnsureUnchanged, SaveConfig, KeyStored
<1>3. DaemonIsSomewhere'
  BY <1>1, Unmoved DEF RInv
<1>4. PICK m : m = Machine' /\ m.config = config' /\ Machine.config = config
  BY After
<1>5. CASE Bail(c)
  BY <1>1, <1>2, <1>3, <1>5, Ends
<1>6. CASE ~Bail(c)
  <2>1. \/ /\ \/ cli[c].at = "save" /\ config' = cli[c].plan
              \/ cli[c].at = "key stored" /\ UNCHANGED config
           /\ \E to \in {"read back", "verify"} : Step(c, [cli[c] EXCEPT !.at = to])
        \/ /\ cli[c].at \in {"flight", "check config", "check auth"}
           /\ \E to \in {"check config", "check auth", "save"} : Step(c, [cli[c] EXCEPT !.at = to])
        \/ /\ cli[c].at = "read back" /\ UNCHANGED config
           /\ \E to \in {"key", "verify"} : Step(c, [cli[c] EXCEPT !.saved = config, !.at = to])
    <3>1. CASE FlightCheck(c)
      BY <1>6, <3>1 DEF FlightCheck, At, Goto
    <3>2. CASE EnsureUnchanged(c)
      BY <1>6, <3>2 DEF EnsureUnchanged, At, Goto
    <3>3. CASE SaveConfig(c)
      <4>1. CASE cli[c].at = "save"
        BY <3>3, <4>1 DEF SaveConfig, At, Goto
      <4>2. CASE cli[c].at # "save"
        <5> DEFINE to == IF cli[c].require THEN "key" ELSE "verify"
        <5>1. /\ cli[c].at = "read back" /\ UNCHANGED config
              /\ Step(c, [cli[c] EXCEPT !.saved = config, !.at = to])
          BY <3>3, <4>2 DEF SaveConfig, At, files
        <5>2. to \in {"key", "verify"}
          OBVIOUS
        <5> HIDE DEF to
        <5> QED BY <5>1, <5>2
      <4> QED BY <4>1, <4>2
    <3>4. CASE KeyStored(c)
      BY <1>6, <3>4 DEF KeyStored, At, Goto, files
    <3> QED BY <3>1, <3>2, <3>3, <3>4
  <2> DEFINE Moved(local) ==
               /\ Step(c, local) /\ local.op = cli[c].op /\ local.alone = cli[c].alone
               /\ local.plan = cli[c].plan /\ local.auth = cli[c].auth
               /\ local.wasRunning = cli[c].wasRunning
               /\ \/ /\ local.at \in {"read back", "key", "verify"}
                     /\ \/ config' = cli[c].plan
                        \/ cli[c].at \in {"read back", "key stored"} /\ UNCHANGED config
                  \/ local.at \in {"check config", "check auth", "save"}
  <2>2. \E local : Moved(local)
    <3>1. ASSUME NEW to, Step(c, [cli[c] EXCEPT !.at = to]),
                 \/ to \in {"check config", "check auth", "save"}
                 \/ /\ to \in {"read back", "verify"}
                    /\ \/ config' = cli[c].plan
                       \/ cli[c].at = "key stored" /\ UNCHANGED config
          PROVE  \E local : Moved(local)
      <4> DEFINE next == [cli[c] EXCEPT !.at = to]
      <4>1. /\ next.op = cli[c].op /\ next.alone = cli[c].alone
            /\ next.plan = cli[c].plan /\ next.auth = cli[c].auth
            /\ next.wasRunning = cli[c].wasRunning /\ next.at = to
        BY <1>2 DEF Fields
      <4>2. Step(c, next)
        BY <3>1
      <4> HIDE DEF next
      <4>3. Moved(next)
        BY <3>1, <4>1, <4>2
      <4> QED BY <4>3
    <3>2. ASSUME NEW to \in {"key", "verify"}, cli[c].at = "read back", UNCHANGED config,
                 Step(c, [cli[c] EXCEPT !.saved = config, !.at = to])
          PROVE  \E local : Moved(local)
      <4> DEFINE next == [cli[c] EXCEPT !.saved = config, !.at = to]
      <4>1. /\ next.op = cli[c].op /\ next.alone = cli[c].alone
            /\ next.plan = cli[c].plan /\ next.auth = cli[c].auth
            /\ next.wasRunning = cli[c].wasRunning /\ next.at = to
        BY <1>2 DEF Fields
      <4>2. Step(c, next)
        BY <3>2
      <4> HIDE DEF next
      <4> QED BY <3>2, <4>1, <4>2
    <3> QED BY <2>1, <3>1, <3>2
  <2>3. PICK local : Moved(local)
    BY <2>2
  <2>4. ASSUME Knows(cli[c], Machine), cli[c].op = "setup" PROVE Knows(local, m)
    <3>1. cli[c].at \in {"read back", "key stored"} => config = cli[c].plan
      BY <1>4, <2>4 DEF Knows, SetupFiles
    <3>2. SetupPlans(local)
      BY <1>2, <2>3, <2>4 DEF Knows, SetupPlans, Making, Planned, Planning
    <3>3. SetupFiles(local, m)
      BY <1>4, <2>3, <3>1 DEF SetupFiles, Making
    <3>4. SetupDaemon(local, m)
      BY <2>3 DEF SetupDaemon
    <3> QED BY <2>3, <2>4, <3>2, <3>3, <3>4 DEF Knows
  <2>5. Knows(cli[c], Machine) => cli[c].op # "delete"
    BY <1>2 DEF Knows, DeletionKnows
  <2>6. Knows(cli[c], Machine) => Knows(local, m)
    BY <2>3, <2>4, <2>5, NothingToKnow
  <2> QED BY <1>1, <1>2, <1>3, <1>4, <2>3, <2>6, QuietStep
<1> QED BY <1>5, <1>6

\* What is bound is the plan the configuration holds.
LEMMA VerifyKnows ==
  ASSUME IInv, RInv, NEW c \in Clis, Verify(c)
  PROVE  RInv'
<1>1. At(c, "verify") /\ UNCHANGED <<config, wrapper, plist, keychain, daemon, report>>
  BY DEF Verify, files, ghosts
<1>2. /\ DOMAIN cli[c] = Fields /\ cli[c].at = "verify" /\ cli[c] # Idle
      /\ cli[c].alone => Knows(cli[c], Machine)
  BY <1>1, Actor
<1>3. DaemonIsSomewhere' /\ Machine' = Machine
  BY <1>1, Unmoved, SameMachine DEF RInv
<1>4. CASE Bail(c)
  BY <1>1, <1>2, <1>3, <1>4, Ends
<1>5. CASE ~Bail(c)
  <2> DEFINE mode == IF cli[c].auth.mode = None THEN "local-only" ELSE cli[c].auth.mode
             b == mode # "local-only"
             local == [cli[c] EXCEPT !.at = "configure", !.auth = Bound(cli[c].plan, mode),
                                     !.require = b, !.available = FALSE, !.original = None]
  <2>1. Step(c, local)
    BY <1>5 DEF Verify
  <2>2. None \notin Sources
    BY AuthorizationAssumption
  <2>3. cli[c].auth.mode \in Sources \cup {None} =>
          /\ mode \in Sources \cup {"local-only"}
          /\ (mode \in Sources) = (cli[c].auth.mode # None)
          /\ b = (mode \in Sources)
    BY <2>2 DEF Sources
  <2> HIDE DEF mode, b
  <2>4. /\ local.at = "configure" /\ local.op = cli[c].op /\ local.alone = cli[c].alone
        /\ local.plan = cli[c].plan /\ local.auth = Bound(cli[c].plan, mode)
        /\ local.require = b /\ local.wasRunning = cli[c].wasRunning
    BY <1>2 DEF Fields
  <2> HIDE DEF local
  <2>5. local.auth.mode = mode
    BY <2>4 DEF Bound
  <2>6. ASSUME NEW m, Knows(cli[c], m), cli[c].op = "setup" PROVE Knows(local, m)
    <3>1. /\ cli[c].plan \in ConfigType /\ cli[c].auth.mode \in Sources \cup {None}
          /\ cli[c].plan.enabled = (cli[c].auth.mode # None)
          /\ cli[c].wasRunning = FALSE /\ m.config = cli[c].plan
      BY <1>2, <2>6 DEF Knows, SetupPlans, SetupFiles, Planned, Planning
    <3>2. SetupPlans(local)
      BY <2>3, <2>4, <2>5, <3>1 DEF SetupPlans, Making, Planned, Planning
    <3>3. SetupFiles(local, m)
      BY <2>3, <2>4, <2>5, <3>1 DEF SetupFiles, Making
    <3>4. SetupDaemon(local, m)
      BY <2>4 DEF SetupDaemon
    <3> QED BY <2>4, <2>6, <3>2, <3>3, <3>4 DEF Knows
  <2>7. ASSUME NEW m, Knows(cli[c], m) PROVE cli[c].op # "delete"
    BY <1>2, <2>7 DEF Knows, DeletionKnows
  <2>8. Knows(cli[c], Machine) => Knows(local, Machine)
    BY <2>4, <2>6, <2>7, NothingToKnow
  <2> QED BY <1>1, <1>2, <1>3, <2>1, <2>4, <2>8, QuietStep
<1> QED BY <1>4, <1>5
\* The command that ends knows what it reports.
LEMMA FinishKnows ==
  ASSUME IInv, RInv, NEW c \in Clis, Finish(c)
  PROVE  RInv'
<1>1. At(c, "check") /\ UNCHANGED <<config, auth, wrapper, plist, keychain>> /\ Bail(c)
  BY DEF Finish, Success, files
<1>2. /\ DOMAIN cli[c] = Fields /\ cli[c].at = "check" /\ cli[c] # Idle
      /\ cli[c].alone => Knows(cli[c], Machine)
  BY <1>1, Actor
<1>3. UNCHANGED daemon \/ daemon' = Down
  BY DEF Finish, Stopped
<1>4. DaemonIsSomewhere'
  BY <1>3, Unmoved DEF RInv
<1>5. CASE UNCHANGED report
  BY <1>1, <1>2, <1>4, <1>5, Ends
<1>6. CASE ~UNCHANGED report
  <2>1. /\ UNCHANGED daemon /\ Success(c)
        /\ ~(cli[c].op = "setup" /\ (config # cli[c].saved \/ auth # cli[c].auth))
    BY <1>6 DEF Finish
  <2>2. CASE ~cli[c].alone
    <3>1. report' = None
      BY <2>1, <2>2 DEF Success
    <3>2. Step(c, Idle)
      BY <1>1 DEF Bail
    <3>3. AloneKnow'
      BY <3>2, OthersAreDisturbed
    <3> QED BY <1>4, <3>1, <3>3 DEF RInv, ReportsStand
  <2>3. CASE cli[c].alone
    <3>1. report' = [op |-> cli[c].op, auth |-> cli[c].auth, plan |-> cli[c].plan,
                     restarted |-> cli[c].wasRunning]
      BY <2>1, <2>3 DEF Success
    <3>2. /\ report'.op = cli[c].op /\ report'.auth = cli[c].auth
          /\ report'.plan = cli[c].plan /\ report'.restarted = cli[c].wasRunning
      BY <3>1
    <3>3. Knows(cli[c], Machine) /\ Step(c, Idle) /\ \A d \in Clis \ {c} : cli[d] = Idle
      BY <1>1, <1>2, <2>3 DEF Bail, RInv, AloneKnow, Alone
    <3>4. AloneKnow'
      BY <3>3, OthersAreDisturbed
    <3>5. \A d \in Clis : cli'[d] = Idle
      BY <3>3 DEF Step, Disturbed
    <3>6. /\ Machine.config = config /\ Machine.plist = plist /\ Machine.wrapper = wrapper
          /\ Machine.keychain = keychain /\ Machine.daemon = daemon
      BY DEF Machine
    <3>7. ASSUME cli[c].op = "setup"
          PROVE  ReportedSetupTakesEffect' /\ config' # NoFile
      <4> DEFINE a == cli[c].auth
      <4>1. auth = a
        BY <2>1, <3>7
      <4>2. /\ cli[c].plan \in ConfigType /\ config = cli[c].plan /\ a = Bound(cli[c].plan, a.mode)
            /\ plist = Promised(a) /\ a.mode \in Sources \cup {"local-only"}
        BY <1>2, <3>3, <3>6, <3>7 DEF Knows, SetupPlans, SetupFiles, Making
      <4>3. cli[c].wasRunning = TRUE => daemon.at = "up" /\ daemon.key = Given(a)
        BY <1>2, <3>3, <3>6, <3>7 DEF Knows, SetupDaemon
      <4>4. config # NoFile
        BY <4>2, AuthorizationAssumption DEF ConfigType
      <4>5. plist.source = a.mode /\ plist.digest = a.digest
        BY <4>2 DEF Promised
      <4>6. auth' = Bound(config', auth'.mode) /\ auth' = a /\ plist' = plist /\ config' = config
        BY <1>1, <4>1, <4>2 DEF Bound, Digest
      <4>7. report'.restarted => daemon'.at = "up" /\ daemon'.key = Given(a)
        BY <2>1, <3>2, <4>3
      <4> HIDE DEF a
      <4>8. ReportedSetupTakesEffect'
        BY <3>2, <4>2, <4>5, <4>6, <4>7 DEF ReportedSetupTakesEffect, Running, Given, a
      <4> QED BY <4>4, <4>6, <4>8
    <3>8. ASSUME cli[c].op = "delete"
          PROVE  DeletedKeyIsGone'
      <4>1. keychain = FALSE /\ ~wrapper /\ ~plist.wrapped /\ daemon.key # "keychain"
        BY <1>2, <3>3, <3>6, <3>8 DEF Knows, DeletionKnows
      <4> QED BY <1>1, <2>1, <4>1 DEF DeletedKeyIsGone
    <3>9. ReportsTakeEffect'
      BY <3>2, <3>7, <3>8 DEF ReportsTakeEffect, ReportedSetupTakesEffect, DeletedKeyIsGone
    <3> QED BY <1>4, <3>2, <3>4, <3>5, <3>7, <3>9 DEF RInv, ReportsStand
  <2> QED BY <2>2, <2>3
<1> QED BY <1>5, <1>6

LEMMA StepKnows == IInv /\ RInv /\ [Next]_vars => RInv'
<1> SUFFICES ASSUME IInv, RInv, [Next]_vars PROVE RInv'
  OBVIOUS
<1>1. CASE UNCHANGED vars
  <2>1. UNCHANGED <<config, auth, wrapper, plist, keychain, daemon, cli, report>>
    BY <1>1 DEF vars, files, ghosts
  <2>2. Machine' = Machine /\ DaemonIsSomewhere'
    BY <2>1, SameMachine, Unmoved DEF RInv
  <2>3. AloneKnow'
    BY <2>1, <2>2 DEF RInv, AloneKnow, Alone
  <2>4. ReportsTakeEffect => ReportsTakeEffect'
    BY <2>1 DEF ReportsTakeEffect, ReportedSetupTakesEffect, DeletedKeyIsGone, Running, Bound, Digest
  <2>5. ReportsStand'
    BY <2>1, <2>4 DEF RInv, ReportsStand
  <2> QED BY <2>2, <2>3, <2>5 DEF RInv
<1>2. CASE DaemonReads
  BY <1>2, DaemonReadsKnows
<1>3. CASE EditConfig \/ DamageAuthorization \/ DaemonStops
  BY <1>3, EventsKnow
<1>4. ASSUME NEW c \in Clis, Begin(c) \/ Resolve(c) \/ WriteWrapper(c) \/ WriteAgent(c)
      PROVE  RInv'
  BY <1>4, BeginKnows, ResolveKnows, WriteWrapperKnows, WriteAgentKnows
<1>5. ASSUME NEW c \in Clis, SaveAuthorization(c) \/ ReadConfig(c) \/ Load(c) \/ Refresh(c)
      PROVE  RInv'
  BY <1>5, AuthorizationKnows, RefreshKnows
<1>6. ASSUME NEW c \in Clis, Reinstall(c) \/ Ping(c) \/ Decide(c) \/ StartDaemon(c) \/ Wait(c)
      PROVE  RInv'
  BY <1>6, OtherCommandsKnow, StartDaemonKnows, WaitKnows
<1>7. ASSUME NEW c \in Clis, StoreKey(c) \/ DeleteKey(c) \/ StopForDelete(c) \/ Answer(c)
      PROVE  RInv'
  BY <1>7, KeysKnow, StopForDeleteKnows, AnswerKnows
<1>8. ASSUME NEW c \in Clis,
             \/ FlightCheck(c) \/ EnsureUnchanged(c) \/ SaveConfig(c) \/ KeyStored(c)
             \/ Verify(c) \/ Finish(c)
      PROVE  RInv'
  BY <1>8, PlanKnows, VerifyKnows, FinishKnows
<1> QED BY <1>1, <1>2, <1>3, <1>4, <1>5, <1>6, <1>7, <1>8 DEF Next

\* A command that has the machine for itself knows at every step what its earlier
\* steps left in the files, the Keychain and the daemon, and what it reports stays
\* so until somebody begins something else (provider_setup.rs, main.rs of the CLI).
THEOREM CommandsKnow == Spec => []RInv
<1>1. Init => RInv
  BY InitKnows
<1>2. IInv /\ RInv /\ [Next]_vars => RInv'
  BY StepKnows
<1> QED BY <1>1, <1>2, DigestsAreAgreed, PTL DEF Spec

\* A setup that reports success has bound the configuration it saved, and a daemon
\* it restarted uses the credential chosen or none; after a deletion no daemon and
\* no launcher holds on to the Keychain credential (run_setup, delete_keychain_key).
THEOREM ReportsAreTrue == Spec => []ReportsTakeEffect
<1>1. RInv => ReportsTakeEffect
  BY DEF RInv, ReportsStand, ReportsTakeEffect, ReportedSetupTakesEffect, DeletedKeyIsGone
<1> QED BY <1>1, CommandsKnow, PTL
=============================================================================

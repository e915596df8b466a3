------------------------------ MODULE TwinTerminal ------------------------------
(***************************************************************************)
(* What two terminals are compared by: `aicoach twin` in one terminal      *)
(* marks a baseline, in another it asks for the difference (CLI twin.rs;   *)
(* daemon state.rs, in memory only; core twin_terminal_diff.rs).  A        *)
(* snapshot is collected step by step while the files change; the daemon   *)
(* may restart, answer late, or be told to forget.                         *)
(*                                                                         *)
(* One tool, one hashed variable and one plain one stand for the lists of  *)
(* the code; a value is a sequence, and Nothing is <<>>.                   *)
(***************************************************************************)
EXTENDS Naturals, FiniteSets, SequencesExt

CONSTANTS Terminals, Names,
          Environments, \* what a shell may be in: [cwd, home, path, arch, flag]
          FirstEnvironments, \* terminal -> one of them, at first
          Placed,       \* place -> the places from it up to the root
          Relative,     \* place -> how it is written from each of them
          FirstFiles,   \* [tool: directory -> what it holds, git: place -> its .git]
          MaxBaselines, \* baselines kept (8 in the code)
          MaxRuns,  \* bound: commands run, and restarts
          ChangeCost    \* bound: commands given up for a change of files or terminals

VARIABLES env,       \* terminal -> its environment
          machine,   \* what the directories hold, as FirstFiles
          twins,     \* terminal -> the `aicoach twin` run in it
          sent,      \* requests the daemon has not handled
          baselines, \* SessionState::twin_baselines, oldest first
          log,       \* marks and clears of this daemon, as handled
          spent      \* of MaxRuns

twinVars == <<env, machine, twins, sent, baselines, log, spent>>

Dirs == DOMAIN FirstFiles.tool
AllPlaces == DOMAIN Placed
Nothing == <<>>
Branches == {"main", "topic"}
Commits == {"c1", "c2"} \* what a detached HEAD may be at
Heads == {"none", "damaged"} \cup Branches \cup Commits
Machines == [tool : [Dirs -> {"absent", "plain", "executable"}], git : [AllPlaces -> Heads]]

\* An environment is of directories and places there are, and two places are not
\* written alike from one above them.
ASSUME TwinAssumption ==
  /\ MaxBaselines \in Nat \ {0}
  /\ FirstEnvironments \subseteq [Terminals -> Environments]
  /\ \A e \in Environments : e.path \in Seq(Dirs) /\ e.cwd \in AllPlaces
  /\ \A p \in AllPlaces : Placed[p] \in Seq(AllPlaces)
  /\ \A p, q \in AllPlaces : \A home \in ToSet(Placed[p]) \cap ToSet(Placed[q]) :
       Relative[p][home] = Relative[q][home] => p = q
  /\ FirstFiles \in Machines

AtPrompt == [at |-> "idle", op |-> "list", name |-> "", env |-> Nothing, seen |-> Nothing,
             true |-> Nothing, steady |-> TRUE, found |-> Nothing]

TwinInit ==
  /\ env \in FirstEnvironments
  /\ machine = FirstFiles
  /\ twins = [t \in Terminals |-> AtPrompt]
  /\ sent = {} /\ baselines = <<>> /\ log = <<>>
  /\ spent = 0

-----------------------------------------------------------------------------
(* What is really there: the tool the shell of `e` would run, the place and  *)
(* head of its repository, and the home its paths are written from.          *)

Runs(e) ==
  LET has == {i \in DOMAIN e.path : machine.tool[e.path[i]] = "executable"}
  IN  IF has = {} THEN Nothing ELSE <<e.path[CHOOSE i \in has : \A j \in has : i <= j]>>

Above(e) == {i \in DOMAIN Placed[e.cwd] : machine.git[Placed[e.cwd][i]] # "none"}
Nearest(e) == Placed[e.cwd][CHOOSE i \in Above(e) : \A j \in Above(e) : i <= j]
Truth(e) ==
  <<Runs(e), IF Above(e) = {} THEN Nothing ELSE <<Nearest(e), machine.git[Nearest(e)]>>, e.home>>

-----------------------------------------------------------------------------
(* collect_snapshot.                                                         *)

\* Mutant: any file of the name is taken for the tool.
ResolveFile(path) ==
  IF \E i \in DOMAIN path : machine.tool[path[i]] # "absent"
  THEN <<path[SelectInSeq(path, LAMBDA d : machine.tool[d] # "absent")]>> ELSE Nothing

\* The first directory of PATH with an executable regular file.
ResolveTool(path) ==
  LET i == SelectInSeq(path, LAMBDA d : machine.tool[d] = "executable")
  IN  IF i = 0 THEN Nothing ELSE <<path[i]>>

\* A path below HOME is written from there.
Normal(home, place) ==
  IF home \in ToSet(Placed[place]) THEN <<"$HOME", Relative[place][home]>> ELSE <<place>>

CollectTools(t) ==
  /\ twins[t].at = "collecting"
  /\ LET e == twins[t].env
         tool == ResolveTool(e.path)
     IN twins' = [twins EXCEPT ![t].at = "searching", ![t].true = Truth(e),
          ![t].seen = [cwd |-> Normal(e.home, e.cwd), arch |-> e.arch,
                       prefix |-> tool, tool |-> <<"resolved">> \o tool,
                       path |-> e.path, flag |-> e.flag]]
  /\ UNCHANGED <<env, machine, sent, baselines, log, spent>>

\* The nearest ancestor with a .git; a link, or a gitfile that leads nowhere, ends
\* the search with nothing.
FindGit(t) ==
  /\ twins[t].at = "searching"
  /\ LET e == twins[t].env
         up == Placed[e.cwd]
         i == SelectInSeq(up, LAMBDA p : machine.git[p] # "none")
     IN twins' = [twins EXCEPT ![t].at = "reading", ![t].found = IF i = 0 THEN Nothing ELSE <<up[i]>>]
  /\ UNCHANGED <<env, machine, sent, baselines, log, spent>>

\* HEAD of the directory found: a branch, a commit, or not readable; of a commit
\* the snapshot says that HEAD is detached, never where.
ReadHead(t) ==
  /\ twins[t].at = "reading"
  /\ LET e == twins[t].env
         found == twins[t].found
         head == IF found = Nothing THEN "none" ELSE machine.git[found[1]]
         git == CASE head \in Branches ->
                       [repository |-> Normal(e.home, found[1]), branch |-> <<head>>,
                        detached |-> <<"no">>]
                  [] head \in Commits ->
                       [repository |-> Normal(e.home, found[1]), branch |-> Nothing,
                        detached |-> <<"yes">>]
                  [] OTHER -> [repository |-> Nothing, branch |-> Nothing, detached |-> Nothing]
     IN twins' = [twins EXCEPT ![t].at = "ready",
                           ![t].seen = [f \in DOMAIN @ \cup DOMAIN git |->
                                          IF f \in DOMAIN git THEN git[f] ELSE @[f]]]
  /\ UNCHANGED <<env, machine, sent, baselines, log, spent>>

-----------------------------------------------------------------------------
(* compare_twin_terminal_snapshots.                                          *)

Git == {"repository", "branch", "detached"}
Fields == {"cwd", "arch", "prefix", "tool", "path", "flag"} \cup Git

\* Branch and head are compared between two repositories only.
Differing(before, now) ==
  {f \in Fields :
     /\ before[f] # now[f]
     /\ f \in {"branch", "detached"} => before.repository # Nothing /\ now.repository # Nothing}

Kind(before, now) ==
  IF before = Nothing THEN "only_current" ELSE IF now = Nothing THEN "only_baseline" ELSE "changed"

Compare(before, now) == {<<f, Kind(before[f], now[f])>> : f \in Differing(before, now)}

-----------------------------------------------------------------------------
(* The daemon: dispatch TwinDiff and the baselines.                          *)

\* validate_twin_snapshot: of its limits, that of a path.
ValidSnapshot(s) == Last(s.cwd) # "deep"

Position(name) == SelectInSeq(baselines, LAMBDA b : b.name = name)

\* The name moves to the end; a new name takes the place of the oldest.
WithMark(b) ==
  LET kept == IF Position(b.name) # 0 THEN RemoveAt(baselines, Position(b.name))
              ELSE IF Len(baselines) >= MaxBaselines THEN Tail(baselines) ELSE baselines
  IN  Append(kept, b)

\* Mutant: what is cleared is what should stay.
ClearedOthers(name) == SelectSeq(baselines, LAMBDA b : b.name = name)

Cleared(name) ==
  IF Position(name) = 0 THEN baselines ELSE RemoveAt(baselines, Position(name))

Refused(r) ==
  \/ r.op \in {"mark", "diff", "clear"} /\ r.name = "unsafe"
  \/ r.op \in {"mark", "diff"} /\ ~ValidSnapshot(r.seen)

Outcome(r) ==
  IF Refused(r) THEN <<"refused">>
  ELSE CASE r.op = "mark" -> <<"marked">>
         [] r.op = "diff" /\ Position(r.name) = 0 -> <<"not_found">>
         [] r.op = "diff" /\ Position(r.name) # 0 ->
              <<"diff", Compare(baselines[Position(r.name)].seen, r.seen)>>
         [] r.op = "list" -> <<"list", [i \in DOMAIN baselines |-> baselines[i].name]>>
         [] r.op \in {"clear", "clear_all"} -> <<"cleared">>

Baselined(r) == [name |-> r.name, seen |-> r.seen, true |-> r.true, steady |-> r.steady]

\* Handles one request, whichever connection's task comes first; its answer is
\* lost on a command that has given up.
Handle(r) ==
  LET outcome == Outcome(r)
      done == outcome # <<"refused">>
  IN
  /\ sent' = sent \ {r}
  /\ baselines' = CASE r.op = "mark" /\ done -> WithMark(Baselined(r))
                    [] r.op = "clear" /\ done -> Cleared(r.name)
                    [] r.op = "clear_all" /\ done -> <<>>
                    [] OTHER -> baselines
  /\ log' = IF r.op \in {"mark", "clear", "clear_all"} /\ done
            THEN Append(log, [op |-> r.op, name |-> r.name, seen |-> r.seen]) ELSE log
  /\ twins' = [twins EXCEPT ![r.of] = IF @.at = "sent" THEN AtPrompt ELSE @]
  /\ UNCHANGED <<env, machine, spent>>

\* `aicoach data clear all`.
ClearData ==
  /\ baselines # <<>> /\ spent < MaxRuns
  /\ spent' = spent + 1
  /\ baselines' = <<>>
  /\ log' = Append(log, [op |-> "clear_all", name |-> "", seen |-> Nothing])
  /\ UNCHANGED <<env, machine, twins, sent>>

Restart ==
  /\ spent < MaxRuns
  /\ spent' = spent + 1
  /\ baselines' = <<>> /\ log' = <<>> /\ sent' = {}
  /\ twins' = [t \in Terminals |-> IF twins[t].at = "sent" THEN AtPrompt ELSE twins[t]]
  /\ UNCHANGED <<env, machine>>

-----------------------------------------------------------------------------
(* The command.                                                              *)

\* A process has the environment its shell had when it started it.
RunTwin(t, op, name) ==
  /\ twins[t].at = "idle" /\ ~\E r \in sent : r.of = t
  /\ spent < MaxRuns
  /\ spent' = spent + 1
  /\ twins' = [twins EXCEPT ![t] = [AtPrompt EXCEPT !.op = op, !.name = name, !.env = env[t],
               !.at = IF op \in {"mark", "diff"} THEN "collecting" ELSE "ready"]]
  /\ UNCHANGED <<env, machine, sent, baselines, log>>

\* A name is trimmed; one with a control sequence, or too long, is refused.
Spelled(name) == IF name = " n1" THEN "n1" ELSE name

Send(t) ==
  /\ twins[t].at = "ready"
  /\ sent' = sent \cup
       {[of |-> t, op |-> twins[t].op, name |-> Spelled(twins[t].name), seen |-> twins[t].seen,
         true |-> twins[t].true, steady |-> twins[t].steady]}
  /\ twins' = [twins EXCEPT ![t] = [AtPrompt EXCEPT !.at = "sent"]]
  /\ UNCHANGED <<env, machine, baselines, log, spent>>

\* Two seconds; the daemon handles the request all the same.
StopWaiting(t) ==
  /\ twins[t].at = "sent"
  /\ twins' = [twins EXCEPT ![t] = AtPrompt]
  /\ UNCHANGED <<env, machine, sent, baselines, log, spent>>

-----------------------------------------------------------------------------
(* The user and the rest of the machine.                                     *)

Change ==
  /\ spent + ChangeCost <= MaxRuns /\ spent' = spent + ChangeCost
  /\ \/ \E t \in Terminals, e \in Environments :
          env' = [env EXCEPT ![t] = e] /\ UNCHANGED <<machine, twins>>
     \/ /\ \/ \E d \in Dirs, how \in {"absent", "plain", "executable"} :
                machine' = [machine EXCEPT !.tool[d] = how]
           \/ \E p \in AllPlaces, head \in Heads : machine' = [machine EXCEPT !.git[p] = head]
        /\ twins' = [t \in Terminals |->
                     IF twins[t].at \in {"searching", "reading"}
                     THEN [twins[t] EXCEPT !.steady = FALSE] ELSE twins[t]]
        /\ UNCHANGED env
  /\ UNCHANGED <<sent, baselines, log>>

TwinNext ==
  \/ \E t \in Terminals :
       \/ \E op \in {"mark", "diff", "clear"}, name \in Names : RunTwin(t, op, name)
       \/ \E op \in {"list", "clear_all"} : RunTwin(t, op, "")
       \/ CollectTools(t) \/ FindGit(t) \/ ReadHead(t) \/ Send(t) \/ StopWaiting(t)
  \/ \E r \in sent : Handle(r)
  \/ ClearData \/ Restart \/ Change

TwinSpec == TwinInit /\ [][TwinNext]_twinVars

-----------------------------------------------------------------------------
\* A mark that nothing in the log repeats or clears.
IsLastMark(i) ==
  /\ log[i].op = "mark"
  /\ \A j \in DOMAIN log : j > i => log[j].name # log[i].name /\ log[j].op # "clear_all"

MarkedAfter(i) == {log[j].name : j \in {j \in DOMAIN log : j > i /\ log[j].op = "mark"}}

\* A baseline, once marked, is what its name is compared with until it is marked
\* again or cleared, or as many other names are marked after it as are kept: no
\* order of marks, clears, late requests and names spelled another way loses it
\* sooner, keeps it longer or puts another in its place.
BaselinesLast ==
  /\ \A b \in DOMAIN baselines : \E i \in DOMAIN log :
       /\ IsLastMark(i)
       /\ log[i].name = baselines[b].name /\ log[i].seen = baselines[b].seen
  /\ \A i \in DOMAIN log :
       IsLastMark(i) /\ Cardinality(MarkedAfter(i)) < MaxBaselines =>
         \E b \in DOMAIN baselines : baselines[b].name = log[i].name
  /\ Len(baselines) <= MaxBaselines

\* The same repository, on the same branch or with HEAD detached in both: the
\* commits of two detached heads are not compared.
SameHead(a, b) ==
  /\ a # Nothing /\ b # Nothing /\ a[1] = b[1]
  /\ a[2] = b[2] \/ {a[2], b[2]} \subseteq Commits

\* An answer that two terminals do not differ means that they run the same tool
\* and are in the same repository, on the same branch or both detached, if one can
\* read it; an answer that a tool differs, or its repository, branch or state, means
\* that it does, and no different tool is passed over: unless the files changed while
\* one of them was being looked at, or paths are written from two home directories.
DifferencesAreReal ==
  [][\A r \in sent \ sent' :
       (twins[r.of].at = "sent" /\ Outcome(r)[1] = "diff") =>
         LET b == baselines[Position(r.name)]
             names == {d[1] : d \in Outcome(r)[2]}
         IN  b.steady /\ r.steady /\ b.true[3] = r.true[3] =>
               /\ ("tool" \in names) <=> (b.true[1] # r.true[1])
               /\ names \cap Git # {} => b.true[2] # r.true[2]
               /\ (names = {} /\ r.true[2] # Nothing /\ r.true[2][2] # "damaged") =>
                    SameHead(b.true[2], r.true[2])]_twinVars
=============================================================================

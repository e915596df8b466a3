---------------------------- MODULE EnvironmentDrift ----------------------------
(***************************************************************************)
(* What changed since a session's last successful command (daemon          *)
(* server.rs, state.rs; core environment_drift.rs, git.rs).  A command     *)
(* that ends leaves the directory and the environment it ended in; Git is  *)
(* asked about the directory afterwards, while the user goes on, and may   *)
(* take too long or fail.  What a probe finds of an older success is not   *)
(* recorded.                                                               *)
(***************************************************************************)
EXTENDS Naturals, FiniteSets

CONSTANTS Places,     \* directories, each the root of a repository or of none
          Heads,      \* branches, and "none" without a repository
          Venvs,      \* values of VIRTUAL_ENV, the empty one among them
          MaxEnded    \* bound: commands that end

VARIABLES shell,   \* where the user is: [cwd, venv]
          git,     \* place -> its head, "none" without a repository
          ended,   \* commands ended
          last,    \* Session::last_success, if any; `touched`: repositories changed since,
                   \* `missed`: Git failed in the repository when it was asked
          looks,   \* Git probes of successful commands under way
          reports, \* drift jobs of failed commands under way
          hint     \* the report just sent, if any, and what it rests on

driftVars == <<shell, git, ended, last, looks, reports, hint>>

Nothing == <<>>

DriftInit ==
  /\ shell \in [cwd : Places, venv : Venvs]
  /\ git \in [Places -> Heads]
  /\ ended = 0 /\ last = Nothing /\ looks = {} /\ reports = {} /\ hint = Nothing

\* Success: the baseline is replaced at once, without Git; its probe starts.
Succeed ==
  /\ ended < MaxEnded /\ ended' = ended + 1
  /\ last' = <<[id |-> ended', cwd |-> shell.cwd, venv |-> shell.venv, observed |-> FALSE,
                git |-> "none", missed |-> FALSE, touched |-> {}]>>
  /\ looks' = looks \cup {[id |-> ended', cwd |-> shell.cwd]}
  /\ hint' = Nothing /\ UNCHANGED <<shell, git, reports>>

\* A failure takes the baseline along as it is now.
FailCommand ==
  /\ ended < MaxEnded /\ ended' = ended + 1
  /\ reports' = IF last = Nothing THEN reports
                ELSE reports \cup {[before |-> last[1], cwd |-> shell.cwd, venv |-> shell.venv]}
  /\ hint' = Nothing /\ UNCHANGED <<shell, git, last, looks>>

\* collect_git_probe.  One that takes too long observes nothing; one whose Git cannot
\* be started or ends with an error observes that there is no repository.
Probed(cwd) ==
  {[observed |-> FALSE, git |-> "none", missed |-> FALSE],
   [observed |-> TRUE, git |-> git[cwd], missed |-> FALSE],
   [observed |-> TRUE, git |-> "none", missed |-> git[cwd] # "none"]}

Now(j, found) ==
  [cwd |-> j.cwd, venv |-> j.venv, observed |-> found.observed, git |-> found.git,
   missed |-> found.missed]

\* record_success_git: unless a newer command succeeded.
IsLatest(id) == last # Nothing /\ last[1].id = id

RecordGit(p) ==
  /\ looks' = looks \ {p}
  /\ \E found \in Probed(p.cwd) :
       last' = IF IsLatest(p.id)
               THEN <<[last[1] EXCEPT !.observed = found.observed, !.git = found.git,
                                      !.missed = found.missed]>> ELSE last
  /\ hint' = Nothing /\ UNCHANGED <<shell, git, ended, reports>>

\* Mutant: what was not observed was not there.
MayCompareAnyway(before, observed) == TRUE

MayCompare(before, observed) == before.observed /\ observed

\* EnvironmentDriftReport::between.  Branch and work tree are those of one repository.
Drift(before, now) ==
  LET compared == MayCompare(before, now.observed)
      rooted(o) == o.git # "none"
      moved == rooted(before) # rooted(now) \/ (rooted(before) /\ before.cwd # now.cwd)
  IN  (IF before.cwd # now.cwd THEN {"directory"} ELSE {})
      \cup (IF before.venv # now.venv THEN {"python"} ELSE {})
      \cup (IF compared /\ moved THEN {"repository"} ELSE {})
      \cup (IF compared /\ ~moved /\ before.git # now.git THEN {"branch"} ELSE {})

\* collect_and_send_environment_drift, after its probe; nothing is sent of nothing.
SendDrift(j) ==
  /\ reports' = reports \ {j}
  /\ \E found \in Probed(j.cwd) :
       LET now == Now(j, found)
           report == Drift(j.before, now)
       IN  hint' = IF report = {} THEN Nothing
                   ELSE <<[report |-> report, before |-> j.before, now |-> now]>>
  /\ UNCHANGED <<shell, git, ended, last, looks>>

\* The user moves, or the repository of a place changes.
Move ==
  /\ shell' \in [cwd : Places, venv : Venvs]
  /\ hint' = Nothing /\ UNCHANGED <<git, ended, last, looks, reports>>

Touched(before, p) == [before EXCEPT !.touched = @ \cup {p}]

Rework(p) ==
  /\ \E head \in Heads : git' = [git EXCEPT ![p] = head]
  /\ last' = IF last = Nothing THEN Nothing ELSE <<Touched(last[1], p)>>
  /\ reports' = {[j EXCEPT !.before = Touched(@, p)] : j \in reports}
  /\ hint' = Nothing /\ UNCHANGED <<shell, ended, looks>>

\* clear_transient_session_data
Erase ==
  /\ last' = Nothing /\ hint' = Nothing /\ UNCHANGED <<shell, git, ended, looks, reports>>

DriftNext ==
  \/ Succeed \/ FailCommand \/ Move \/ Erase
  \/ \E p \in Places : Rework(p)
  \/ \E p \in looks : RecordGit(p)
  \/ \E j \in reports : SendDrift(j)

DriftSpec == DriftInit /\ [][DriftNext]_driftVars

-----------------------------------------------------------------------------
\* A report names a branch only of a repository that was changed since the success it
\* is compared with, and a repository only if the directory is another, or it was
\* changed, or Git failed in it for one of the two probes: however many probes are
\* late, lost, or overtaken by newer commands and erasures.
NoFalseAlarm ==
  hint # Nothing =>
    LET before == hint[1].before
        now == hint[1].now
    IN  /\ "branch" \in hint[1].report => now.cwd \in before.touched
        /\ "repository" \in hint[1].report =>
             \/ before.cwd # now.cwd \/ now.cwd \in before.touched
             \/ before.missed # now.missed

\* (Not so, README.md:820: "incomplete Git probes are omitted".  A Git that fails in a
\* repository nobody changed is reported as having left or entered it.)
IncompleteProbesAreOmitted ==
  hint # Nothing =>
    LET before == hint[1].before
        now == hint[1].now
    IN  before.cwd = now.cwd /\ now.cwd \notin before.touched => "repository" \notin hint[1].report
=============================================================================

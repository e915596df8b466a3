------------------------------- MODULE MCClient -------------------------------
(* Small instances of the two kinds of clients: calls over the Rust client, and  *)
(* frames of the shell plug-in, to the daemon or from it.  A behaviour is one of *)
(* one lane; the variables of the other lanes never change.                      *)
EXTENDS IpcClient

VARIABLES lane, up, down, partial, open, made, took, said, shown

lineVars == <<up, down, partial, open, made, took, said, shown>>
allVars  == <<lane, vars, lineVars>>

\* Texts that look like escapes, frames, fields and variables, and a plain one for the
\* second frame of a connection.
Tried ==
  <<{<<>>, <<"a", "tab", "cr">>, <<"%", "0", "A">>, <<"%", "%", "2", "5">>, <<"a", "%">>,
     <<"nl", "ZSH", "tab", "PING">>, <<"nl", "TERM", "=", "a">>, <<"%", "0", "0", "nul">>},
    {<<"a", "%", "0", "9">>}>>

Lines == INSTANCE ZshFrames WITH Texts <- Tried, Cuts <- {4},
  Following <- {"PREEXEC", "CANCEL", "HINT", "CANCELLED"}, Variables <- {"LANG", "TERM"}

MCInit == lane \in {"calls", "to daemon", "to shell"} /\ Init /\ Lines!Init

MCNext ==
  \/ lane = "calls" /\ Next /\ UNCHANGED <<lane, lineVars>>
  \/ lane = "to daemon" /\ (Lines!ShellWrites \/ Lines!DaemonReads) /\ UNCHANGED <<lane, vars>>
  \/ lane = "to shell" /\ (Lines!DaemonWrites \/ Lines!ShellReads) /\ UNCHANGED <<lane, vars>>

MCSpec == MCInit /\ [][MCNext]_allVars /\ Fairness

\* What is asked and said over the line protocol is what is understood at its other end.
FramesKeepTheirMeaning == lane # "calls" => Lines!FramesKeepTheirMeaning
=============================================================================

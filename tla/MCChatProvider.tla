--------------------------- MODULE MCChatProvider ---------------------------
(* Small instances of the provider's calls and of what becomes of a line that  *)
(* a completion or an insertion changes.  A behaviour is one of one lane; the  *)
(* variables of the other never change.                                        *)
EXTENDS ChatProvider, CommandProposals

CONSTANTS s1, w1

VARIABLE lane
allVars == <<lane, vars, proposalVars>>

-----------------------------------------------------------------------------
MCKind == (s1 :> "stream") @@ (w1 :> "whole")

Body(events, tail) == [events |-> events, tail |-> tail]

MCAnswers ==
  (s1 :> { Body(<<"a", "silent", "b", "done">>, "whole"), Body(<<"a", "b", "done">>, "open"),
           Body(<<"a", "bytes">>, "whole"), Body(<<"a", "failed", "b">>, "whole"),
           Body(<<"a", "b">>, "open"),
           Body(<<"a">>, "broken"), Body(<<"done", "b">>, "whole") }) @@
  (w1 :> { Body(<<"a">>, "whole"), Body(<<"garbage">>, "whole"),
           Body(<<"a", "b", "a", "b">>, "whole"), Body(<<"a">>, "broken") })

-----------------------------------------------------------------------------
\* "d" twice, or "a" twice, is dangerous; "c" is a control character.
MCLines == {<<>>, <<"d">>, <<"b", "_", "a">>, <<"a", "_", "b", "_", "a">>, <<"d", "_", "_">>}
MCCommands == {<<>>, <<"d">>, <<"_", "d">>, <<"d", "d">>, <<"a", "a", "_", "b">>,
               <<"a", "_", "_", "b", "_">>, <<"d", "c">>}
MCInserted == {<<"d">>, <<"a", "a", "_", "_", "b">>, <<"d", "c">>}
MCDangers  == {<<"d", "d">>, <<"a", "a">>}
MCShellDangers == {<<"d", "d">>}

-----------------------------------------------------------------------------
MCInit ==
  /\ lane \in {"calls", "lines"}
  /\ Init /\ ProposalsInit
  /\ lane # "lines" => rules
  /\ lane # "calls" => \A r \in Requests : answer[r] = Body(<<"a">>, "broken")

MCNext == \/ /\ lane = "calls" /\ Next /\ UNCHANGED <<lane, proposalVars>>
          \/ /\ lane = "lines" /\ ProposalsNext /\ UNCHANGED <<lane, vars>>

MCSpec == MCInit /\ [][MCNext]_allVars /\ Fairness

-----------------------------------------------------------------------------
\* A call ends, and asks for nothing any more once it was cancelled or out of time.
CallsEndInTime == CallsEnd /\ NothingIsPostedLate
=============================================================================

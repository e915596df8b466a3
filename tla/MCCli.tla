--------------------------------- MODULE MCCli ---------------------------------
(* Small instances of what the command line manages and may meet a second time: *)
(* the failure memory and the chat history it clears beside daemons and         *)
(* windows, the provider authorization it writes, the twin baselines it marks   *)
(* and compares, and the daemon it starts and stops.  A behaviour is one of one *)
(* lane; the variables of the other lanes never change.                         *)
EXTENDS ProviderAuthorization, FailureMemory, ChatHistoryFile, AutoStart, TwinTerminal

VARIABLE lane

allVars == <<lane, vars, memoryVars, historyVars, twinVars, startVars>>

-----------------------------------------------------------------------------
(* The failure memory: one session, a command that shows a secret and one that  *)
(* only looks; every command has a shape of its own.                            *)
Typed == {"make", "login", "ls"}
Own   == [c \in Typed |-> c]

-----------------------------------------------------------------------------
(* The chat history: one window, and a file with entries of two sessions.       *)
Chats   == {"a", "b", "c"}
ShownBy == [w \in Windows |-> "a"]

Store(first, second) ==
  [chats |-> [s \in Chats |-> IF s \in {first, second} THEN << <<s, 0>> >> ELSE <<>>],
   earlier |-> [s \in {first, second} |-> IF s = first THEN {} ELSE {first}]]

FirstStores == {Store("a", "b"), Store("c", "b")}

-----------------------------------------------------------------------------
(* Authorization, as the configuration has it: two command lines, or one and an *)
(* event; one of them with a key in its environment.                            *)
OneCli == events > 0 => cli["b"] = Idle

-----------------------------------------------------------------------------
(* The twins: two terminals, in a project inside the home directory, a second   *)
(* home, an old directory before the usual one in PATH.                         *)
In(cwd, home, path, flag) ==
  [cwd |-> cwd, home |-> home, path |-> path, arch |-> <<"arm64">>, flag |-> flag]

MCEnvironments ==
  {In("project", "home", <<"old", "bin">>, <<>>), In("home", "home", <<"bin">>, <<"v1">>),
   In("deep", "project", <<"old", "bin">>, <<>>), In("project", "project", <<"bin">>, <<"v1">>)}

MCFirstEnvironments ==
  {[t \in Terminals |-> CHOOSE e \in MCEnvironments : e.cwd = "project" /\ e.home = "home"]}

MCFirstFiles ==
  [tool |-> [old |-> "plain", bin |-> "executable"],
   git |-> [project |-> "main", home |-> "none", deep |-> "none"]]

MCPlaced ==
  [project |-> <<"project", "home">>, home |-> <<"home">>, deep |-> <<"deep", "home">>]

MCRelative ==
  [p \in DOMAIN MCPlaced |-> [home \in {MCPlaced[p][i] : i \in DOMAIN MCPlaced[p]} |->
                             IF p = home THEN "" ELSE p]]

-----------------------------------------------------------------------------
(* Starting and stopping: the configuration has an up-to-date shell, one with an *)
(* old integration, and two commands.                                           *)

MCInit ==
  /\ lane \in {"memory", "history", "authorization", "twin", "start"}
  /\ Init /\ MemoryInit /\ HistoryInit /\ TwinInit /\ StartInit
  /\ lane # "memory" => file = NoMemory
  /\ lane # "history" => disk = NoHistory
  /\ lane # "authorization" => config = NoFile /\ ~keychain
  /\ lane # "start" => ~marker

MCNext ==
  \/ /\ lane = "authorization" /\ Next /\ OneCli'
     /\ UNCHANGED <<lane, memoryVars, historyVars, twinVars, startVars>>
  \/ /\ lane = "memory" /\ MemoryNext
     /\ UNCHANGED <<lane, vars, historyVars, twinVars, startVars>>
  \/ /\ lane = "history" /\ HistoryNext
     /\ UNCHANGED <<lane, vars, memoryVars, twinVars, startVars>>
  \/ /\ lane = "twin" /\ TwinNext
     /\ UNCHANGED <<lane, vars, memoryVars, historyVars, startVars>>
  \/ /\ lane = "start" /\ StartNext
     /\ UNCHANGED <<lane, vars, memoryVars, historyVars, twinVars>>

MCSpec == MCInit /\ [][MCNext]_allVars
================================================================================

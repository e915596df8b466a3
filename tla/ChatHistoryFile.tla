---------------------------- MODULE ChatHistoryFile ----------------------------
(***************************************************************************)
(* history.json, the chat history the Coach windows keep on disk: a window *)
(* saves its own session by reading the whole store, replacing one entry   *)
(* and renaming a new file into place (aicoach-tui/src/main.rs), while the *)
(* CLI's clear commands ask the daemon first, which tells open windows,    *)
(* and then change or delete the file themselves (aicoach-cli/src/data.rs).*)
(* Nothing locks the file.  A saved message is its session and a number,   *)
(* at most 0 when it is older than every window: only which messages are   *)
(* where matters.                                                          *)
(***************************************************************************)
EXTENDS Integers, FiniteSets, Sequences, Functions

CONSTANTS Windows,       \* Coach windows
          Sessions,      \* sessions with an entry in the file or a window
          SessionOf,     \* the session a window shows
          HistoryLimit,  \* config.history.max_messages
          MaxSessions,   \* MAX_PERSISTED_HISTORY_SESSIONS
          MaxIssued,     \* bound: messages ever said
          MaxClears,     \* bound: clear commands
          NoHistory,     \* the path holds no file
          Malformed,     \* it holds one that cannot be parsed, or is too large
          Stores         \* what the file may hold when the first window opens

VARIABLES disk,       \* the file: NoHistory, Malformed or a store
          at,         \* where a window's loop stands
          said,       \* App.messages
          inbox,      \* DataCleared events sent to the window that it has not handled
          connected,  \* its connection to the daemon lives
          informed,   \* ghost: windows that showed nothing erased when they began to listen
                      \* for events, have missed none since, and lost no save
          replaced,   \* ghost: windows whose entry in the file someone else has
                      \* rewritten since they opened or saved it last
          copy,       \* the store a writer has read
          clearing,   \* the clear command under way
          issued,     \* messages said so far
          rounds,     \* clear commands so far
          erased      \* messages some clear has erased

windowVars == <<at, said, inbox, connected>>
standing == <<informed, replaced>>
historyVars == <<disk, windowVars, standing, copy, clearing, issued, rounds, erased>>

\* The messages of a session up to a number.
MessagesTo(s, n) == {s} \X {m \in Int : m <= n}

\* A parsed file: the messages of each session and, of each session with an entry, those
\* whose entries were saved earlier.
Files == [chats : [Sessions -> Seq(Sessions \X Int)],
          earlier : UNION {[entries -> SUBSET entries] : entries \in SUBSET Sessions}]

Live(store) == {s \in Sessions : store.chats[s] # <<>>}

\* Entries are saved at one time each; those without one, as an older version left them,
\* come first, in the order of their keys.
InSavedOrder(store) ==
  /\ DOMAIN store.earlier = Live(store)
  /\ \A s \in Live(store) : s \notin store.earlier[s] /\ store.earlier[s] \subseteq Live(store)
  /\ \A s, t \in Live(store) :
       /\ s # t => (s \in store.earlier[t] <=> t \notin store.earlier[s])
       /\ s \in store.earlier[t] => store.earlier[s] \subseteq store.earlier[t]

\* A window shows one session; a window is not the CLI, the third party that writes; an entry
\* of the file holds its own session's messages.
ASSUME HistoryAssumption ==
  /\ SessionOf \in [Windows -> Sessions] /\ "cli" \notin Windows
  /\ IsFiniteSet(Sessions) /\ HistoryLimit \in Nat \ {0} /\ MaxSessions \in Nat \ {0}
  /\ NoHistory # Malformed /\ NoHistory \notin Files /\ Malformed \notin Files
  /\ \A store \in Stores :
       /\ store \in Files /\ InSavedOrder(store)
       /\ \A s \in Sessions : store.chats[s] \in Seq(MessagesTo(s, 0))

Empty == [chats |-> [s \in Sessions |-> <<>>], earlier |-> [s \in {} |-> {}]]
IsStore(d) == d # NoHistory /\ d # Malformed

\* A CLI that runs no command.
NoClear == [scope |-> "none", session |-> "none", step |-> "done"]
Writers == Windows \cup {"cli"}

HistoryInit ==
  /\ disk \in Stores \cup {NoHistory, Malformed}
  /\ at = [w \in Windows |-> "opening"]
  /\ said = [w \in Windows |-> <<>>]
  /\ inbox = [w \in Windows |-> 0]
  /\ connected = [w \in Windows |-> FALSE]
  /\ informed = {} /\ replaced = {}
  /\ copy = [x \in Writers |-> Empty]
  /\ clearing = NoClear /\ issued = 0 /\ rounds = 0 /\ erased = {}

-----------------------------------------------------------------------------
(* The window.                                                               *)

\* The window has connected and attached itself to its session: the daemon sends it events.
Attach(w) ==
  /\ at[w] = "opening"
  /\ at' = [at EXCEPT ![w] = "attached"]
  /\ connected' = [connected EXCEPT ![w] = TRUE]
  /\ UNCHANGED <<disk, said, inbox, standing, copy, clearing, issued, rounds, erased>>

\* App::new, load_history: a missing file is an empty history, a malformed one is reported
\* and left alone.
LoadHistory(w) ==
  /\ at[w] = "attached"
  /\ at' = [at EXCEPT ![w] = "loaded"]
  /\ said' = [said EXCEPT ![w] = IF IsStore(disk) THEN disk.chats[SessionOf[w]] ELSE <<>>]
  /\ replaced' = replaced \ {w}
  /\ UNCHANGED <<disk, inbox, connected, informed, copy, clearing, issued, rounds, erased>>

\* The context has been refreshed and the loop begins: of what the daemon sent before there
\* was a receiver, the events the client had already read are gone.
Subscribe(w) ==
  /\ at[w] = "loaded"
  /\ at' = [at EXCEPT ![w] = "open"]
  /\ \E n \in 0 .. inbox[w] : inbox' = [inbox EXCEPT ![w] = n]
  /\ informed' = IF connected[w] /\ Range(said[w]) \cap erased = {}
                 THEN informed \cup {w} ELSE informed
  /\ UNCHANGED <<disk, said, connected, replaced, copy, clearing, issued, rounds, erased>>

\* The receiver has fallen behind: the oldest events are gone, and the window only says so.
Lag(w) ==
  /\ at[w] = "open"
  /\ \E n \in 0 .. inbox[w] - 1 : inbox' = [inbox EXCEPT ![w] = n]
  /\ informed' = informed \ {w}
  /\ UNCHANGED <<disk, at, said, connected, replaced, copy, clearing, issued, rounds, erased>>

\* A chat ends: its messages are in the window, and finish_stream saves them.
Talk(w) ==
  /\ at[w] = "open" /\ issued < MaxIssued
  /\ issued' = issued + 1
  /\ said' = [said EXCEPT ![w] = Append(@, <<SessionOf[w], issued'>>)]
  /\ at' = [at EXCEPT ![w] = "saving"]
  /\ UNCHANGED <<disk, inbox, connected, standing, copy, clearing, rounds, erased>>

\* handle_ipc_event, DataCleared: the window forgets its chat and saves that.
HandleCleared(w) ==
  /\ at[w] = "open" /\ inbox[w] > 0
  /\ inbox' = [inbox EXCEPT ![w] = @ - 1]
  /\ said' = [said EXCEPT ![w] = <<>>]
  /\ at' = [at EXCEPT ![w] = "saving"]
  /\ UNCHANGED <<disk, connected, standing, copy, clearing, issued, rounds, erased>>

\* The loop ends and run() saves a last time: events still queued stay unread.
Leave(w) ==
  /\ at[w] = "open"
  /\ at' = [at EXCEPT ![w] = "last_save"]
  /\ UNCHANGED <<disk, said, inbox, connected, standing, copy, clearing, issued, rounds, erased>>

\* The daemon goes away; the window has no reconnection and goes on without it.
LoseContact(w) ==
  /\ at[w] \in {"attached", "loaded", "open"} /\ connected[w]
  /\ connected' = [connected EXCEPT ![w] = FALSE]
  /\ informed' = informed \ {w}
  /\ UNCHANGED <<disk, at, said, inbox, replaced, copy, clearing, issued, rounds, erased>>

\* Where a window is after a save, kept or failed.
AfterSave(w) == IF at[w] \in {"last_save", "last_write"} THEN "closed" ELSE "open"

\* Variant: a file that cannot be parsed is an empty history.
ReadStoreAnyway(w) ==
  /\ at[w] \in {"saving", "last_save"}
  /\ at' = [at EXCEPT ![w] = IF @ = "saving" THEN "writing" ELSE "last_write"]
  /\ copy' = [copy EXCEPT ![w] = IF IsStore(disk) THEN disk ELSE Empty]
  /\ UNCHANGED <<disk, said, inbox, connected, standing, clearing, issued, rounds, erased>>

\* save_history, the first half: a malformed file is never overwritten.
ReadStore(w) ==
  /\ at[w] \in {"saving", "last_save"}
  /\ IF disk = Malformed
     THEN /\ at' = [at EXCEPT ![w] = AfterSave(w)]
          /\ UNCHANGED copy
     ELSE /\ at' = [at EXCEPT ![w] = IF @ = "saving" THEN "writing" ELSE "last_write"]
          /\ copy' = [copy EXCEPT ![w] = IF disk = NoHistory THEN Empty ELSE disk]
  /\ UNCHANGED <<disk, said, inbox, connected, standing, clearing, issued, rounds, erased>>

Newest(messages) ==
  SubSeq(messages, IF Len(messages) > HistoryLimit THEN Len(messages) - HistoryLimit + 1 ELSE 1,
         Len(messages))

\* A store without the entries of some sessions.
Without(store, gone) ==
  [chats |-> [s \in Sessions |-> IF s \in gone THEN <<>> ELSE store.chats[s]],
   earlier |-> [s \in DOMAIN store.earlier \ gone |-> store.earlier[s] \ gone]]

\* The entry of a session becomes the newest, with the tail of its messages.  The clock is
\* taken not to be set back.
WithChat(store, s, messages) ==
  LET others == DOMAIN store.earlier \ {s}
  IN  [chats |-> [store.chats EXCEPT ![s] = Newest(messages)],
       earlier |-> [t \in others \cup {s} |-> IF t = s THEN others ELSE store.earlier[t] \ {s}]]

\* Variant: the entry saved last goes first.
BoundedLastFirst(store) ==
  LET surplus == Cardinality(Live(store)) - MaxSessions
  IN  Without(store, {s \in Live(store) :
                        Cardinality({t \in Live(store) : s \in store.earlier[t]}) < surplus})

\* Above the limit the entries saved longest ago go.
Bounded(store) ==
  LET surplus == Cardinality(Live(store)) - MaxSessions
  IN  Without(store, {s \in Live(store) : Cardinality(store.earlier[s]) < surplus})

\* What a window's save leaves in the file: an empty chat removes the entry,
\* and the file with its last entry.
Saved(store, s, messages) ==
  IF messages # <<>> THEN Bounded(WithChat(store, s, messages))
  ELSE LET rest == Without(store, {s})
       IN  IF Live(rest) = {} THEN NoHistory ELSE Bounded(rest)

\* The windows whose entry a write changes, other than by taking it out.
Rewritten ==
  {w \in Windows :
     /\ IsStore(disk') /\ disk'.chats[SessionOf[w]] # <<>>
     /\ IsStore(disk) => disk'.chats[SessionOf[w]] # disk.chats[SessionOf[w]]}

\* save_history, the second half: the new file is renamed over whatever the
\* path holds by now.
WriteStore(w) ==
  /\ at[w] \in {"writing", "last_write"}
  /\ disk' = Saved(copy[w], SessionOf[w], said[w])
  /\ at' = [at EXCEPT ![w] = AfterSave(w)]
  /\ replaced' = (replaced \cup Rewritten) \ {w}
  /\ UNCHANGED <<said, inbox, connected, informed, copy, clearing, issued, rounds, erased>>

\* The temporary file cannot be written: the old file stays.
WriteFails(w) ==
  /\ at[w] \in {"writing", "last_write"}
  /\ at' = [at EXCEPT ![w] = AfterSave(w)]
  /\ informed' = informed \ {w}
  /\ UNCHANGED <<disk, said, inbox, connected, replaced, copy, clearing, issued, rounds, erased>>

-----------------------------------------------------------------------------
(* The CLI and the daemon.                                                   *)

\* The sessions a clear command is about.
Scope(command) == IF command.scope = "session" THEN {command.session} ELSE Sessions

MessagesOf(sessions) ==
  (UNION {Range(said[w]) : w \in {v \in Windows : SessionOf[v] \in sessions}})
    \cup (IF IsStore(disk) THEN UNION {Range(disk.chats[s]) : s \in sessions} ELSE {})

\* Variant: only a clear of one session tells its windows.
NotifyOneSession(sessions) ==
  inbox' = [w \in Windows |->
             IF sessions = {SessionOf[w]} /\ connected[w] /\ at[w] # "closed"
             THEN inbox[w] + 1 ELSE inbox[w]]

\* The daemon has cleared its memory and sent the event to the connections of these sessions
\* before it answers the CLI, whether the window listens yet or not.
Notify(sessions) ==
  inbox' = [w \in Windows |->
             IF SessionOf[w] \in sessions /\ connected[w] /\ at[w] # "closed"
             THEN inbox[w] + 1 ELSE inbox[w]]

\* clear_session, clear_history and clear_all up to the daemon's answer.
RequestClear(command) ==
  /\ clearing.step = "done" /\ rounds < MaxClears
  /\ clearing' = [command EXCEPT !.step = "asked"]
  /\ rounds' = rounds + 1
  /\ Notify(Scope(command))
  /\ erased' = erased \cup MessagesOf(Scope(command))
  /\ UNCHANGED <<disk, at, said, connected, standing, copy, issued>>

\* remove_history_session reads the store, unless it is missing or malformed.
ReadForRemoval ==
  /\ clearing.step = "asked" /\ clearing.scope = "session"
  /\ IF IsStore(disk)
     THEN /\ copy' = [copy EXCEPT !["cli"] = disk]
          /\ clearing' = [clearing EXCEPT !.step = "read"]
     ELSE /\ clearing' = NoClear
          /\ UNCHANGED copy
  /\ UNCHANGED <<disk, windowVars, standing, issued, rounds, erased>>

\* ... and writes it back without the session, or deletes an empty one.
RemoveSession ==
  /\ clearing.step = "read"
  /\ LET rest == Without(copy["cli"], {clearing.session})
     IN  disk' = IF Live(rest) = {} THEN NoHistory ELSE rest
  /\ clearing' = NoClear
  /\ replaced' = replaced \cup Rewritten
  /\ UNCHANGED <<windowVars, informed, copy, issued, rounds, erased>>

\* clear_history and clear_all delete the file, malformed or not.
RemoveHistory ==
  /\ clearing.step = "asked" /\ clearing.scope = "history"
  /\ disk' = NoHistory
  /\ clearing' = NoClear
  /\ UNCHANGED <<windowVars, standing, copy, issued, rounds, erased>>

Clears == {[scope |-> "session", session |-> s, step |-> "done"] : s \in Sessions}
              \cup {[scope |-> "history", session |-> "none", step |-> "done"]}

HistoryNext ==
  \/ \E w \in Windows :
       \/ Attach(w) \/ LoadHistory(w) \/ Subscribe(w) \/ Lag(w) \/ LoseContact(w)
       \/ Talk(w) \/ HandleCleared(w) \/ Leave(w)
       \/ ReadStore(w) \/ WriteStore(w) \/ WriteFails(w)
  \/ \E command \in Clears : RequestClear(command)
  \/ ReadForRemoval \/ RemoveSession \/ RemoveHistory

HistorySpec == HistoryInit /\ [][HistoryNext]_historyVars

-----------------------------------------------------------------------------
\* A window that showed nothing erased when it began to listen, has missed no event and lost no
\* save since, has handled what it was told and is not saving: its session's entry holds nothing
\* a clear has erased, whatever saves and clears have crossed before, unless another window or
\* the CLI has since put an older copy of that entry back (they read and rewrite the whole
\* file, and nothing locks it).  A clear that comes while a window opens, or an event lost to a
\* receiver that fell behind, is not made up for: ErasedHistoryStaysErased.
SettledHistoryIsErased ==
  \A w \in informed \ replaced :
    (at[w] = "open" /\ inbox[w] = 0 /\ IsStore(disk))
      => Range(disk.chats[SessionOf[w]]) \cap erased = {}

\* A save never costs the window the entry it saves, and never leaves more
\* sessions or messages than the bounds allow.
SaveIsKept ==
  [][\A w \in Windows :
       (WriteStore(w) /\ said[w] # <<>>)
         => /\ IsStore(disk') /\ disk'.chats[SessionOf[w]] = Newest(said[w])
            /\ Cardinality(Live(disk')) <= MaxSessions]_historyVars

\* A file that cannot be read is evidence: only the commands that delete the
\* whole history remove it.
MalformedIsKept ==
  [][disk = Malformed /\ disk' # Malformed
       => clearing.scope = "history" /\ disk' = NoHistory]_historyVars

\* A window's save costs neither its own entry nor a file it could not read.
HistoryFileIsKept == SaveIsKept /\ MalformedIsKept

\* The README (lines 498-500: open windows receive the event and drop the old chat, so that
\* none is saved again when they exit) and state.rs (lines 640-643: every open window must
\* receive it): once a clear is done, a window that stayed connected, has handled all it was
\* sent and is not saving has not put its erased chat back.
ErasedHistoryStaysErased ==
  \A w \in Windows :
    (/\ clearing = NoClear /\ connected[w] /\ at[w] \in {"open", "closed"}
     /\ inbox[w] = 0 /\ IsStore(disk))
      => Range(disk.chats[SessionOf[w]]) \cap erased = {}
=============================================================================

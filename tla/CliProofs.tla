------------------------------ MODULE CliProofs -------------------------------
(***************************************************************************)
(* The files of the CLI and the coach window, and what its twins compare:  *)
(* ChatHistoryFile, AutoStart, FailureMemory and TwinTerminal.             *)
(*                                                                         *)
(* ChatHistoryFile for any number of windows, sessions, messages and       *)
(* clears: the entry of a window that was told of every clear, and has     *)
(* saved since, holds nothing erased.                                      *)
(*                                                                         *)
(* The entry is inductive only together with the window (KnowsOfClears): a *)
(* window that was told and has handled what it was told shows nothing     *)
(* erased, so what it saves is clean, whatever copy of the file it saves   *)
(* it into. What other writers put back from copies of their own is        *)
(* outside its control; the ghost `replaced` names the windows that met    *)
(* it, and a window leaves it with its own next save.                      *)
(***************************************************************************)
EXTENDS ChatHistoryFile, AutoStart, FailureMemory, TwinTerminal, FiniteSetTheorems,
        SequenceTheorems, WellFoundedInduction, TLAPS

Unopened == {"opening", "attached", "loaded"}
Places == Unopened \cup {"open", "saving", "writing", "last_save", "last_write", "closed"}

\* A store holds, of each session, messages of that session.
IsStoreTo(d, n) ==
  DOMAIN d.chats = Sessions /\ \A s \in Sessions : d.chats[s] \in Seq(MessagesTo(s, n))

HistoryTypes ==
  /\ issued \in Nat
  /\ at \in [Windows -> Places]
  /\ inbox \in [Windows -> Nat]
  /\ DOMAIN said = Windows /\ DOMAIN connected = Windows
  /\ DOMAIN copy = Writers
  /\ \A w \in Windows : said[w] \in Seq(MessagesTo(SessionOf[w], issued))
  /\ IsStore(disk) => IsStoreTo(disk, issued)
  /\ \A x \in Writers : IsStoreTo(copy[x], issued)
  /\ \A m \in erased : \E s \in Sessions : m \in MessagesTo(s, issued)

\* What a window that was told knows: it shows nothing erased when it has handled what it
\* was told, and neither does its entry when it has saved since.
KnowsOfClears(w) ==
  /\ w \in Windows /\ connected[w] /\ at[w] \notin Unopened
  /\ (at[w] # "closed" /\ inbox[w] = 0) => Range(said[w]) \cap erased = {}
  /\ (w \notin replaced /\ at[w] = "open" /\ inbox[w] = 0 /\ IsStore(disk))
       => Range(disk.chats[SessionOf[w]]) \cap erased = {}

\* A window that has just loaded its chat shows what its entry holds, if there still is one.
ShowsItsEntry(w) ==
  (at[w] = "loaded" /\ w \notin replaced /\ IsStore(disk))
    => Range(disk.chats[SessionOf[w]]) \subseteq Range(said[w])

HistoryInv ==
  HistoryTypes /\ (\A w \in informed : KnowsOfClears(w)) /\ (\A w \in Windows : ShowsItsEntry(w))

-----------------------------------------------------------------------------
(* Messages and stores.                                                      *)

LEMMA MessagesGrow ==
  ASSUME NEW s, NEW n \in Int, NEW k \in Int, n <= k, NEW seq \in Seq(MessagesTo(s, n))
  PROVE  seq \in Seq(MessagesTo(s, k))
<1>1. MessagesTo(s, n) \subseteq MessagesTo(s, k)
  BY DEF MessagesTo
<1> QED
  BY <1>1

LEMMA SessionsAreApart ==
  ASSUME NEW s, NEW t, s # t, NEW n, NEW k,
         NEW seq \in Seq(MessagesTo(s, n)), NEW other \in Seq(MessagesTo(t, k))
  PROVE  Range(seq) \cap Range(other) = {}
<1>1. Range(seq) \subseteq MessagesTo(s, n) /\ Range(other) \subseteq MessagesTo(t, k)
  BY DEF Range
<1>2. MessagesTo(s, n) \cap MessagesTo(t, k) = {}
  BY DEF MessagesTo
<1> QED
  BY <1>1, <1>2

\* The tail of a chat is part of it.
LEMMA NewestIsOfThem ==
  ASSUME NEW S, NEW seq \in Seq(S)
  PROVE  Newest(seq) \in Seq(S) /\ Range(Newest(seq)) \subseteq Range(seq)
<1> DEFINE first == IF Len(seq) > HistoryLimit THEN Len(seq) - HistoryLimit + 1 ELSE 1
<1>1. first \in Int /\ first >= 1 /\ Len(seq) \in Int
  BY HistoryAssumption
<1>2. \A i \in first .. Len(seq) : seq[i] \in Range(seq) /\ seq[i] \in S
  BY <1>1 DEF Range
<1> HIDE DEF first
<1>3. SubSeq(seq, first, Len(seq)) \in Seq(S) /\ SubSeq(seq, first, Len(seq)) \in Seq(Range(seq))
  BY <1>1, <1>2, SubSeqProperties
<1>4. \A t \in Seq(Range(seq)) : Range(t) \subseteq Range(seq)
  BY DEF Range
<1> QED
  BY <1>3, <1>4 DEF Newest, first

\* A store within the bound keeps an entry as it is or drops it.
LEMMA BoundedDrops ==
  ASSUME NEW d, DOMAIN d.chats = Sessions
  PROVE  /\ DOMAIN Bounded(d).chats = Sessions
         /\ \A s \in Sessions : Bounded(d).chats[s] \in {d.chats[s], <<>>}
BY DEF Bounded, Without

\* What a save leaves: the newest of the window's own messages, and of the others what was
\* there when the file was read.
LEMMA SavedIsOwn ==
  ASSUME NEW d, NEW n, IsStoreTo(d, n), NEW s \in Sessions, NEW messages \in Seq(MessagesTo(s, n)),
         IsStore(Saved(d, s, messages))
  PROVE  /\ IsStoreTo(Saved(d, s, messages), n)
         /\ Range(Saved(d, s, messages).chats[s]) \subseteq Range(messages)
<1> DEFINE now == Saved(d, s, messages)
<1>1. /\ DOMAIN now.chats = Sessions
      /\ \A t \in Sessions \ {s} : now.chats[t] \in {d.chats[t], <<>>}
      /\ now.chats[s] \in {Newest(messages), <<>>}
  <2>1. CASE messages # <<>>
    <3>1. /\ DOMAIN WithChat(d, s, messages).chats = Sessions
          /\ \A t \in Sessions \ {s} : WithChat(d, s, messages).chats[t] = d.chats[t]
          /\ WithChat(d, s, messages).chats[s] = Newest(messages)
      BY DEF WithChat, IsStoreTo
    <3>2. now = Bounded(WithChat(d, s, messages))
      BY <2>1 DEF Saved
    <3> QED
      BY <3>1, <3>2, BoundedDrops
  <2>2. CASE messages = <<>>
    <3>1. /\ DOMAIN Without(d, {s}).chats = Sessions
          /\ \A t \in Sessions \ {s} : Without(d, {s}).chats[t] = d.chats[t]
          /\ Without(d, {s}).chats[s] = <<>>
      BY DEF Without
    <3>2. now = Bounded(Without(d, {s}))
      BY <2>2 DEF Saved, IsStore
    <3>3. /\ DOMAIN Bounded(Without(d, {s})).chats = Sessions
          /\ \A t \in Sessions :
               Bounded(Without(d, {s})).chats[t] \in {Without(d, {s}).chats[t], <<>>}
      BY <3>1, BoundedDrops
    <3> QED
      BY <3>1, <3>2, <3>3
  <2> QED
    BY <2>1, <2>2
<1>2. Newest(messages) \in Seq(MessagesTo(s, n)) /\ Range(Newest(messages)) \subseteq Range(messages)
  BY NewestIsOfThem
<1>3. \A S : <<>> \in Seq(S) /\ Range(<<>>) = {}
  BY DEF Range
<1> HIDE DEF now
<1>4. IsStoreTo(now, n) /\ Range(now.chats[s]) \subseteq Range(messages)
  BY <1>1, <1>2, <1>3 DEF IsStoreTo
<1> QED
  BY <1>4 DEF now

LEMMA WithoutIsStore ==
  ASSUME NEW d, NEW n, IsStoreTo(d, n), NEW gone
  PROVE  IsStoreTo(Without(d, gone), n)
<1>1. \A S : <<>> \in Seq(S)
  OBVIOUS
<1> QED
  BY <1>1 DEF IsStoreTo, Without
\* What a clear covers is shown by a window or in the file.
LEMMA CoveredIsSomewhere ==
  ASSUME NEW sessions, NEW m \in MessagesOf(sessions)
  PROVE  \/ \E w \in Windows : SessionOf[w] \in sessions /\ m \in Range(said[w])
         \/ IsStore(disk) /\ \E s \in sessions : m \in Range(disk.chats[s])
<1>1. CASE m \in UNION {Range(said[w]) : w \in {v \in Windows : SessionOf[v] \in sessions}}
  BY <1>1
<1>2. CASE m \in (IF IsStore(disk) THEN UNION {Range(disk.chats[s]) : s \in sessions} ELSE {})
  BY <1>2
<1> QED
  BY <1>1, <1>2 DEF MessagesOf

LEMMA EmptyIsStore == \A n : IsStoreTo(Empty, n)
<1>1. \A S : <<>> \in Seq(S)
  OBVIOUS
<1> QED
  BY <1>1 DEF IsStoreTo, Empty

-----------------------------------------------------------------------------
(* Types                                                                     *)

LEMMA HistoryBegins == HistoryInit => HistoryInv
<1> SUFFICES ASSUME HistoryInit PROVE HistoryInv
  OBVIOUS
<1>1. IsStore(disk) => IsStoreTo(disk, 0)
  <2> SUFFICES ASSUME IsStore(disk) PROVE IsStoreTo(disk, 0)
    OBVIOUS
  <2>1. disk \in Stores
    BY DEF HistoryInit, IsStore
  <2>2. disk \in Files /\ \A s \in Sessions : disk.chats[s] \in Seq(MessagesTo(s, 0))
    BY <2>1, HistoryAssumption
  <2>3. DOMAIN disk.chats = Sessions
    BY <2>2 DEF Files
  <2> QED
    BY <2>2, <2>3 DEF IsStoreTo
<1>2. \A S : <<>> \in Seq(S)
  OBVIOUS
<1>3. HistoryTypes
  BY <1>1, <1>2, EmptyIsStore DEF HistoryInit, HistoryTypes, Places, Unopened
<1> QED
  BY <1>3 DEF HistoryInit, HistoryInv, ShowsItsEntry

LEMMA HistoryStepTypes == HistoryTypes /\ [HistoryNext]_historyVars => HistoryTypes'
<1> SUFFICES ASSUME HistoryTypes, [HistoryNext]_historyVars PROVE HistoryTypes'
  OBVIOUS
<1>0. \A S : <<>> \in Seq(S)
  OBVIOUS
<1>1. CASE UNCHANGED historyVars
  BY <1>1 DEF historyVars, windowVars, standing, HistoryTypes
<1>2. ASSUME NEW w \in Windows, LoadHistory(w) PROVE HistoryTypes'
  <2>1. SessionOf[w] \in Sessions
    BY HistoryAssumption
  <2>2. IF IsStore(disk) THEN disk.chats[SessionOf[w]] \in Seq(MessagesTo(SessionOf[w], issued))
                         ELSE <<>> \in Seq(MessagesTo(SessionOf[w], issued))
    BY <1>0, <2>1 DEF HistoryTypes, IsStoreTo
  <2>3. PICK read \in Seq(MessagesTo(SessionOf[w], issued)) : said' = [said EXCEPT ![w] = read]
    BY <1>2, <2>2 DEF LoadHistory
  <2> QED
    BY <1>2, <2>3 DEF LoadHistory, HistoryTypes, Places, Unopened
<1>12. ASSUME NEW w \in Windows, Attach(w) \/ Subscribe(w) \/ Lag(w) PROVE HistoryTypes'
  <2>1. at' \in [Windows -> Places] /\ DOMAIN connected' = Windows
        /\ UNCHANGED <<disk, said, copy, issued, erased>>
    BY <1>12 DEF Attach, Subscribe, Lag, HistoryTypes, Places, Unopened, standing
  <2>2. inbox' \in [Windows -> Nat]
    <3>1. inbox \in [Windows -> Nat]
      BY DEF HistoryTypes
    <3>2. inbox' = inbox \/ \E n \in Nat : inbox' = [inbox EXCEPT ![w] = n]
      BY <1>12, <3>1 DEF Attach, Subscribe, Lag
    <3> QED
      BY <3>1, <3>2
  <2> QED
    BY <2>1, <2>2 DEF HistoryTypes
<1>3. ASSUME NEW w \in Windows, Talk(w) PROVE HistoryTypes'
  <2>1. issued' = issued + 1 /\ issued \in Nat /\ issued' \in Nat
    BY <1>3 DEF Talk, HistoryTypes
  <2>2. \A s, seq : seq \in Seq(MessagesTo(s, issued)) => seq \in Seq(MessagesTo(s, issued'))
    BY <2>1, MessagesGrow
  <2>3. <<SessionOf[w], issued'>> \in MessagesTo(SessionOf[w], issued')
    BY <2>1 DEF MessagesTo
  <2>4. Append(said[w], <<SessionOf[w], issued'>>) \in Seq(MessagesTo(SessionOf[w], issued'))
    BY <2>2, <2>3, AppendProperties DEF HistoryTypes
  <2>5. \A v \in Windows : said'[v] \in Seq(MessagesTo(SessionOf[v], issued'))
    <3>1. said' = [said EXCEPT ![w] = Append(said[w], <<SessionOf[w], issued'>>)]
      BY <1>3 DEF Talk, HistoryTypes
    <3> QED
      BY <2>2, <2>4, <3>1 DEF HistoryTypes
  <2>6. \A d : IsStoreTo(d, issued) => IsStoreTo(d, issued')
    BY <2>2 DEF IsStoreTo
  <2>7. \A m \in erased : \E s \in Sessions : m \in MessagesTo(s, issued')
    BY <2>1 DEF HistoryTypes, MessagesTo
  <2>8. at' \in [Windows -> Places] /\ DOMAIN said' = Windows
        /\ UNCHANGED <<disk, inbox, connected, copy, erased>>
    BY <1>3 DEF Talk, HistoryTypes, Places, Unopened, standing
  <2> QED
    BY <2>1, <2>5, <2>6, <2>7, <2>8 DEF HistoryTypes
<1>4. ASSUME NEW w \in Windows, HandleCleared(w) PROVE HistoryTypes'
  <2>1. at' \in [Windows -> Places] /\ inbox' \in [Windows -> Nat]
    BY <1>4 DEF HandleCleared, HistoryTypes, Places, Unopened
  <2>2. DOMAIN said' = Windows
        /\ \A v \in Windows : said'[v] \in Seq(MessagesTo(SessionOf[v], issued))
    BY <1>0, <1>4 DEF HandleCleared, HistoryTypes
  <2>3. UNCHANGED <<disk, connected, copy, issued, erased>>
    BY <1>4 DEF HandleCleared
  <2> QED
    BY <2>1, <2>2, <2>3 DEF HistoryTypes
<1>5. ASSUME NEW w \in Windows, Leave(w) \/ LoseContact(w) \/ WriteFails(w) PROVE HistoryTypes'
  BY <1>5 DEF Leave, LoseContact, WriteFails, AfterSave, HistoryTypes, Places, Unopened
<1>6. ASSUME NEW w \in Windows, ReadStore(w) PROVE HistoryTypes'
  <2>1. at' \in [Windows -> Places] /\ UNCHANGED <<disk, said, inbox, connected, issued, erased>>
    BY <1>6 DEF ReadStore, AfterSave, HistoryTypes, Places, Unopened
  <2>2. copy' = copy \/ \E d : copy' = [copy EXCEPT ![w] = d] /\ IsStoreTo(d, issued)
    <3>1. disk # Malformed /\ disk # NoHistory => IsStoreTo(disk, issued)
      BY DEF HistoryTypes, IsStore
    <3> QED
      BY <1>6, <3>1, EmptyIsStore DEF ReadStore
  <2>3. DOMAIN copy' = Writers /\ \A x \in Writers : IsStoreTo(copy'[x], issued)
    BY <2>2 DEF HistoryTypes
  <2> QED
    BY <2>1, <2>3 DEF HistoryTypes
<1>7. ASSUME NEW w \in Windows, WriteStore(w) PROVE HistoryTypes'
  <2>1. IsStore(disk') => IsStoreTo(disk', issued)
    <3>1. IsStoreTo(copy[w], issued) /\ said[w] \in Seq(MessagesTo(SessionOf[w], issued))
          /\ SessionOf[w] \in Sessions
      BY HistoryAssumption DEF HistoryTypes, Writers
    <3> QED
      BY <1>7, <3>1, SavedIsOwn DEF WriteStore
  <2> QED
    BY <1>7, <2>1 DEF WriteStore, AfterSave, HistoryTypes, Places, Unopened
<1>8. ASSUME NEW command \in Clears, RequestClear(command) PROVE HistoryTypes'
  <2>1. inbox' \in [Windows -> Nat]
    BY <1>8 DEF RequestClear, Notify, HistoryTypes
  <2>2. Scope(command) \subseteq Sessions
    BY <1>8 DEF Scope, Clears
  <2>3. \A m \in MessagesOf(Scope(command)) : \E s \in Sessions : m \in MessagesTo(s, issued)
    <3>1. \A w \in Windows : Range(said[w]) \subseteq MessagesTo(SessionOf[w], issued)
      BY DEF HistoryTypes, Range
    <3>2. IsStore(disk) => \A s \in Sessions : Range(disk.chats[s]) \subseteq MessagesTo(s, issued)
      BY DEF HistoryTypes, IsStoreTo, Range
    <3>3. \A w \in Windows : SessionOf[w] \in Sessions
      BY HistoryAssumption
    <3> QED
      BY <2>2, <3>1, <3>2, <3>3, CoveredIsSomewhere
  <2>4. erased' = erased \cup MessagesOf(Scope(command))
        /\ UNCHANGED <<disk, at, said, connected, copy, issued>>
    BY <1>8 DEF RequestClear
  <2>5. \A m \in erased' : \E s \in Sessions : m \in MessagesTo(s, issued)
    BY <2>3, <2>4 DEF HistoryTypes
  <2> QED
    BY <2>1, <2>4, <2>5 DEF HistoryTypes
<1>9. CASE ReadForRemoval
  <2>1. UNCHANGED <<disk, windowVars, issued, erased>>
    BY <1>9 DEF ReadForRemoval
  <2>2. DOMAIN copy' = Writers /\ \A x \in Writers : IsStoreTo(copy'[x], issued)
    BY <1>9 DEF ReadForRemoval, HistoryTypes
  <2> QED
    BY <2>1, <2>2 DEF HistoryTypes, windowVars
<1>10. CASE RemoveSession
  <2>1. UNCHANGED <<windowVars, copy, issued, erased>>
    BY <1>10 DEF RemoveSession
  <2>2. IsStoreTo(Without(copy["cli"], {clearing.session}), issued)
    BY WithoutIsStore DEF HistoryTypes, Writers
  <2>3. IsStore(disk') => IsStoreTo(disk', issued)
    BY <1>10, <2>2 DEF RemoveSession, IsStore
  <2> QED
    BY <2>1, <2>3 DEF HistoryTypes, windowVars
<1>11. CASE RemoveHistory
  <2>1. UNCHANGED <<windowVars, copy, issued, erased>> /\ ~IsStore(disk')
    BY <1>11 DEF RemoveHistory, IsStore
  <2> QED
    BY <2>1 DEF HistoryTypes, windowVars
<1> QED
  BY <1>1, <1>2, <1>3, <1>4, <1>5, <1>6, <1>7, <1>8, <1>9, <1>10, <1>11, <1>12
     DEF HistoryNext
-----------------------------------------------------------------------------
(* What windows that were told know                                          *)

\* A step after which a window holds no more, and no more is erased, keeps what it knows.
LEMMA KnowledgeStays ==
  ASSUME NEW w \in Windows, KnowsOfClears(w), connected'[w] = connected[w], inbox'[w] = inbox[w],
         at'[w] \notin Unopened, at'[w] # "closed" => at[w] # "closed",
         said'[w] = said[w], erased' = erased,
         (w \notin replaced' /\ at'[w] = "open" /\ IsStore(disk'))
           => \/ /\ w \notin replaced /\ at[w] = "open" /\ IsStore(disk)
                 /\ disk'.chats[SessionOf[w]] = disk.chats[SessionOf[w]]
              \/ Range(disk'.chats[SessionOf[w]]) \subseteq Range(said[w])
  PROVE  KnowsOfClears(w)'
BY DEF KnowsOfClears

\* The same for a window somebody else's write is no news to.
LEMMA WriteOfAnother ==
  ASSUME NEW w \in Windows, KnowsOfClears(w), connected'[w] = connected[w], inbox'[w] = inbox[w],
         at'[w] = at[w], said'[w] = said[w], erased' = erased,
         w \in replaced \cup Rewritten => w \in replaced'
  PROVE  KnowsOfClears(w)'
<1>1. ASSUME w \notin replaced', IsStore(disk')
      PROVE  \/ Range(disk'.chats[SessionOf[w]]) = {}
             \/ IsStore(disk) /\ disk'.chats[SessionOf[w]] = disk.chats[SessionOf[w]]
  <2>1. w \notin Rewritten
    BY <1>1
  <2>2. Range(<<>>) = {}
    BY DEF Range
  <2> QED
    BY <1>1, <2>1, <2>2 DEF Rewritten
<1> QED
  BY <1>1 DEF KnowsOfClears

\* A window that has loaded its chat goes on showing what is left of its entry until it listens.
LEMMA EntryStep ==
  HistoryInv /\ [HistoryNext]_historyVars => \A w \in Windows : ShowsItsEntry(w)'
<1> SUFFICES ASSUME HistoryInv, [HistoryNext]_historyVars, NEW v \in Windows,
                    at'[v] = "loaded", v \notin replaced', IsStore(disk')
             PROVE  Range(disk'.chats[SessionOf[v]]) \subseteq Range(said'[v])
  BY DEF ShowsItsEntry
<1>0. HistoryTypes /\ ShowsItsEntry(v)
  BY DEF HistoryInv
\* Steps that leave the file and its entries' standing alone.
<1>1. ASSUME UNCHANGED <<disk, replaced>>, at[v] = "loaded", said'[v] = said[v]
      PROVE  Range(disk'.chats[SessionOf[v]]) \subseteq Range(said'[v])
  BY <1>0, <1>1 DEF ShowsItsEntry, IsStore
\* A write that is news to no loaded window.
<1>2. ASSUME UNCHANGED said, at[v] = "loaded", v \notin replaced, v \notin Rewritten
      PROVE  Range(disk'.chats[SessionOf[v]]) \subseteq Range(said'[v])
  <2>1. CASE disk'.chats[SessionOf[v]] = <<>>
    BY <2>1 DEF Range
  <2>2. CASE disk'.chats[SessionOf[v]] # <<>>
    <3>1. IsStore(disk) /\ disk'.chats[SessionOf[v]] = disk.chats[SessionOf[v]]
      BY <1>2, <2>2 DEF Rewritten
    <3> QED
      BY <1>0, <1>2, <3>1 DEF ShowsItsEntry
  <2> QED
    BY <2>1, <2>2
<1>3. CASE UNCHANGED historyVars
  BY <1>1, <1>3 DEF historyVars, windowVars, standing
<1>4. ASSUME NEW w \in Windows, LoadHistory(w)
      PROVE  Range(disk'.chats[SessionOf[v]]) \subseteq Range(said'[v])
  <2>1. CASE v = w
    BY <1>0, <1>4, <2>1 DEF LoadHistory, HistoryTypes, IsStore
  <2>2. CASE v # w
    BY <1>0, <1>4, <2>2 DEF LoadHistory, HistoryTypes, ShowsItsEntry, IsStore
  <2> QED
    BY <2>1, <2>2
<1>5. ASSUME NEW w \in Windows,
             \/ Attach(w) \/ Subscribe(w) \/ Lag(w) \/ Talk(w) \/ HandleCleared(w) \/ Leave(w)
             \/ LoseContact(w) \/ ReadStore(w) \/ WriteFails(w)
      PROVE  Range(disk'.chats[SessionOf[v]]) \subseteq Range(said'[v])
  <2>1. UNCHANGED <<disk, replaced>> /\ at[v] = "loaded"
    BY <1>0, <1>5 DEF Attach, Subscribe, Lag, Talk, HandleCleared, Leave, LoseContact, ReadStore,
                      WriteFails, AfterSave, HistoryTypes, standing
  <2>2. said'[v] = said[v]
    BY <1>0, <1>5, <2>1 DEF Attach, Subscribe, Lag, Talk, HandleCleared, Leave, LoseContact,
                            ReadStore, WriteFails, HistoryTypes
  <2> QED
    BY <1>1, <2>1, <2>2
<1>6. ASSUME NEW w \in Windows, WriteStore(w)
      PROVE  Range(disk'.chats[SessionOf[v]]) \subseteq Range(said'[v])
  <2>1. at[v] = "loaded" /\ v # w
    BY <1>0, <1>6 DEF WriteStore, AfterSave, HistoryTypes
  <2> QED
    BY <1>2, <1>6, <2>1 DEF WriteStore
<1>7. ASSUME NEW command \in Clears, RequestClear(command)
      PROVE  Range(disk'.chats[SessionOf[v]]) \subseteq Range(said'[v])
  BY <1>1, <1>7 DEF RequestClear, standing
<1>8. CASE ReadForRemoval
  BY <1>1, <1>8 DEF ReadForRemoval, windowVars, standing
<1>9. CASE RemoveSession
  BY <1>2, <1>9 DEF RemoveSession, windowVars
<1>10. CASE RemoveHistory
  BY <1>10 DEF RemoveHistory, IsStore
<1> QED
  BY <1>3, <1>4, <1>5, <1>6, <1>7, <1>8, <1>9, <1>10 DEF HistoryNext

LEMMA HistoryStep == HistoryInv /\ [HistoryNext]_historyVars => \A v \in informed' : KnowsOfClears(v)'
<1> SUFFICES ASSUME HistoryInv, [HistoryNext]_historyVars, NEW v \in informed' PROVE KnowsOfClears(v)'
  OBVIOUS
<1>0. HistoryTypes /\ (v \in informed => v \in Windows /\ KnowsOfClears(v))
  BY DEF HistoryInv, KnowsOfClears
<1>1. CASE UNCHANGED historyVars
  BY <1>0, <1>1 DEF historyVars, windowVars, standing, KnowsOfClears
<1>2. ASSUME NEW w \in Windows, Attach(w) \/ LoadHistory(w) PROVE KnowsOfClears(v)'
  <2>1. v \in informed /\ v # w
    BY <1>0, <1>2 DEF Attach, LoadHistory, KnowsOfClears, Unopened, standing
  <2>2. /\ UNCHANGED <<disk, inbox, erased>> /\ at'[v] = at[v] /\ said'[v] = said[v]
        /\ connected'[v] = connected[v] /\ replaced' \in {replaced, replaced \ {w}}
    BY <1>0, <1>2, <2>1 DEF Attach, LoadHistory, HistoryTypes, standing
  <2> QED
    BY <1>0, <2>1, <2>2 DEF KnowsOfClears, IsStore
\* A window that begins to listen starts from what it has loaded; one that loses events counts
\* no longer.
<1>12. ASSUME NEW w \in Windows, Subscribe(w) \/ Lag(w) PROVE KnowsOfClears(v)'
  <2>1. CASE v # w
    <3>1. v \in informed
      BY <1>12, <2>1 DEF Subscribe, Lag
    <3>2. /\ UNCHANGED <<disk, said, connected, replaced, erased>> /\ at'[v] = at[v]
          /\ inbox'[v] = inbox[v]
      BY <1>0, <1>12, <2>1, <3>1 DEF Subscribe, Lag, HistoryTypes
    <3> QED
      BY <1>0, <3>1, <3>2 DEF KnowsOfClears, IsStore
  <2>2. CASE v = w
    <3>1. Subscribe(w)
      BY <1>12, <2>2 DEF Lag
    <3>2. w \notin informed
      BY <1>0, <2>2, <3>1 DEF Subscribe, KnowsOfClears, Unopened
    <3>3. /\ UNCHANGED <<disk, said, connected, replaced, erased>> /\ at[w] = "loaded"
          /\ at'[w] = "open" /\ connected[w] /\ Range(said[w]) \cap erased = {}
      BY <1>0, <2>2, <3>1, <3>2 DEF Subscribe, HistoryTypes
    <3>4. ShowsItsEntry(w)
      BY DEF HistoryInv
    <3> QED
      BY <2>2, <3>3, <3>4 DEF KnowsOfClears, ShowsItsEntry, Unopened, IsStore
  <2> QED
    BY <2>1, <2>2
\* What it says is new: no clear has erased it.
<1>3. ASSUME NEW w \in Windows, Talk(w) PROVE KnowsOfClears(v)'
  <2>1. /\ at' = [at EXCEPT ![w] = "saving"] /\ at[w] = "open" /\ issued' = issued + 1
        /\ said' = [said EXCEPT ![w] = Append(said[w], <<SessionOf[w], issued'>>)]
        /\ UNCHANGED <<disk, inbox, connected, informed, replaced, erased>>
    BY <1>0, <1>3 DEF Talk, HistoryTypes, standing
  <2>2. CASE v = w
    <3>1. said[w] \in Seq(MessagesTo(SessionOf[w], issued)) /\ issued \in Nat
      BY <1>0 DEF HistoryTypes
    <3>2. <<SessionOf[w], issued'>> \notin erased
      BY <1>0, <2>1, <3>1 DEF HistoryTypes, MessagesTo
    <3>3. Range(said'[w]) \subseteq Range(said[w]) \cup {<<SessionOf[w], issued'>>}
      <4>1. said'[w] = Append(said[w], <<SessionOf[w], issued'>>)
        BY <1>0, <2>1 DEF HistoryTypes
      <4> QED
        BY <3>1, <4>1 DEF Range
    <3>4. at'[w] = "saving"
      BY <1>0, <2>1 DEF HistoryTypes
    <3> QED
      BY <1>0, <2>1, <2>2, <3>2, <3>3, <3>4 DEF KnowsOfClears, Unopened
  <2>3. CASE v # w
    BY <1>0, <2>1, <2>3 DEF HistoryTypes, KnowsOfClears
  <2> QED
    BY <2>2, <2>3
<1>4. ASSUME NEW w \in Windows, HandleCleared(w) PROVE KnowsOfClears(v)'
  <2>1. /\ at' = [at EXCEPT ![w] = "saving"] /\ said' = [said EXCEPT ![w] = <<>>] /\ at[w] = "open"
        /\ inbox' = [inbox EXCEPT ![w] = inbox[w] - 1]
        /\ UNCHANGED <<disk, connected, informed, replaced, erased>>
    BY <1>0, <1>4 DEF HandleCleared, HistoryTypes, standing
  <2>2. CASE v = w
    <3>1. at'[w] = "saving" /\ Range(said'[w]) = {}
      BY <1>0, <2>1 DEF HistoryTypes, Range
    <3> QED
      BY <1>0, <2>1, <2>2, <3>1 DEF KnowsOfClears, Unopened
  <2>3. CASE v # w
    BY <1>0, <2>1, <2>3 DEF HistoryTypes, KnowsOfClears
  <2> QED
    BY <2>2, <2>3
<1>5. ASSUME NEW w \in Windows, Leave(w) \/ LoseContact(w) \/ WriteFails(w) PROVE KnowsOfClears(v)'
  <2>1. v \in informed /\ UNCHANGED <<disk, said, inbox, replaced, erased>>
    BY <1>5 DEF Leave, LoseContact, WriteFails, standing
  <2>2. CASE Leave(w)
    <3>1. at'[v] \in {at[v], "last_save"} /\ connected' = connected
      BY <1>0, <2>1, <2>2 DEF Leave, HistoryTypes
    <3>2. at[v] \notin Unopened /\ (at'[v] # "closed" => at[v] # "closed")
      BY <1>0, <2>1, <2>2 DEF Leave, HistoryTypes, KnowsOfClears, Unopened
    <3> QED
      BY <1>0, <2>1, <3>1, <3>2, KnowledgeStays DEF Unopened
  \* It counts no longer as told, or as having saved.
  <2>3. CASE LoseContact(w) \/ WriteFails(w)
    <3>1. v # w
      BY <2>3 DEF LoseContact, WriteFails
    <3>2. at'[v] = at[v] /\ connected'[v] = connected[v]
      BY <1>0, <2>1, <2>3, <3>1 DEF LoseContact, WriteFails, HistoryTypes
    <3> QED
      BY <1>0, <2>1, <3>2 DEF KnowsOfClears
  <2> QED
    BY <1>5, <2>2, <2>3
<1>6. ASSUME NEW w \in Windows, ReadStore(w) PROVE KnowsOfClears(v)'
  <2>1. v \in informed /\ UNCHANGED <<disk, said, inbox, connected, replaced, erased>>
    BY <1>6 DEF ReadStore, standing
  <2>2. /\ at'[v] \notin Unopened /\ (at'[v] # "closed" => at[v] # "closed")
        /\ at'[v] = "open" => at[v] = "open" \/ ~IsStore(disk)
    BY <1>0, <1>6, <2>1 DEF ReadStore, AfterSave, HistoryTypes, KnowsOfClears, Unopened, IsStore
  <2> QED
    BY <1>0, <2>1, <2>2, KnowledgeStays
\* A window's own save leaves of its session what the window shows.
<1>7. ASSUME NEW w \in Windows, WriteStore(w) PROVE KnowsOfClears(v)'
  <2>1. /\ v \in informed /\ UNCHANGED <<said, inbox, connected, erased>>
        /\ disk' = Saved(copy[w], SessionOf[w], said[w]) /\ at[w] \in {"writing", "last_write"}
        /\ at' = [at EXCEPT ![w] = AfterSave(w)]
        /\ replaced' = (replaced \cup Rewritten) \ {w}
    BY <1>7 DEF WriteStore
  <2>2. CASE v = w
    <3>1. IsStoreTo(copy[w], issued) /\ said[w] \in Seq(MessagesTo(SessionOf[w], issued))
          /\ SessionOf[w] \in Sessions
      BY <1>0, HistoryAssumption DEF HistoryTypes, Writers
    <3>2. IsStore(disk') => Range(disk'.chats[SessionOf[w]]) \subseteq Range(said[w])
      BY <2>1, <3>1, SavedIsOwn
    <3>3. at'[w] \notin Unopened /\ at[w] # "closed"
      BY <1>0, <2>1 DEF AfterSave, HistoryTypes, Unopened
    <3> QED
      BY <1>0, <2>1, <2>2, <3>2, <3>3, KnowledgeStays
  <2>3. CASE v # w
    <3>1. at'[v] = at[v] /\ (v \in replaced \cup Rewritten => v \in replaced')
      BY <1>0, <2>1, <2>3 DEF HistoryTypes
    <3> QED
      BY <1>0, <2>1, <2>3, <3>1, WriteOfAnother
  <2> QED
    BY <2>2, <2>3
\* A clear of its session tells the window; a clear of others erases none of its messages.
<1>8. ASSUME NEW command \in Clears, RequestClear(command) PROVE KnowsOfClears(v)'
  <2>1. /\ v \in informed /\ UNCHANGED <<disk, at, said, connected, replaced>>
        /\ erased' = erased \cup MessagesOf(Scope(command))
        /\ inbox' = [w \in Windows |->
                       IF SessionOf[w] \in Scope(command) /\ connected[w] /\ at[w] # "closed"
                       THEN inbox[w] + 1 ELSE inbox[w]]
    BY <1>8 DEF RequestClear, Notify, standing
  <2>2. KnowsOfClears(v) /\ connected[v] /\ v \in Windows /\ inbox[v] \in Nat
    BY <1>0, <2>1 DEF KnowsOfClears, HistoryTypes
  <2>3. CASE at[v] = "closed"
    BY <2>1, <2>2, <2>3 DEF KnowsOfClears
  <2>4. CASE at[v] # "closed" /\ SessionOf[v] \in Scope(command)
    <3>1. inbox'[v] # 0
      BY <2>1, <2>2, <2>4
    <3> QED
      BY <2>1, <2>2, <3>1 DEF KnowsOfClears
  <2>5. CASE SessionOf[v] \notin Scope(command)
    <3>1. inbox'[v] = inbox[v]
      BY <2>1, <2>2, <2>5
    <3>2. \A m \in MessagesOf(Scope(command)) :
            \E s \in Sessions \ {SessionOf[v]} : m \in MessagesTo(s, issued)
      <4>1. Scope(command) \subseteq Sessions
        BY <1>8 DEF Scope, Clears
      <4>2. \A w \in Windows : Range(said[w]) \subseteq MessagesTo(SessionOf[w], issued)
        BY <1>0 DEF HistoryTypes, Range
      <4>3. IsStore(disk) => \A s \in Sessions : Range(disk.chats[s]) \subseteq MessagesTo(s, issued)
        BY <1>0 DEF HistoryTypes, IsStoreTo, Range
      <4> QED
        BY <2>5, <4>1, <4>2, <4>3, CoveredIsSomewhere, HistoryAssumption
    <3>3. MessagesTo(SessionOf[v], issued) \cap MessagesOf(Scope(command)) = {}
      BY <3>2 DEF MessagesTo
    <3>4. Range(said[v]) \subseteq MessagesTo(SessionOf[v], issued)
      BY <1>0, <2>2 DEF HistoryTypes, Range
    <3>5. IsStore(disk) => Range(disk.chats[SessionOf[v]]) \subseteq MessagesTo(SessionOf[v], issued)
      BY <1>0, <2>2, HistoryAssumption DEF HistoryTypes, IsStoreTo, Range
    <3> QED
      BY <2>1, <2>2, <3>1, <3>3, <3>4, <3>5 DEF KnowsOfClears
  <2> QED
    BY <2>3, <2>4, <2>5
<1>9. CASE ReadForRemoval
  <2>1. v \in informed /\ UNCHANGED <<disk, windowVars, replaced, erased>>
    BY <1>9 DEF ReadForRemoval, standing
  <2> QED
    BY <1>0, <2>1 DEF KnowsOfClears, windowVars
<1>10. CASE RemoveSession
  <2>1. v \in informed /\ UNCHANGED <<windowVars, erased>> /\ replaced' = replaced \cup Rewritten
    BY <1>10 DEF RemoveSession
  <2> QED
    BY <1>0, <2>1, WriteOfAnother DEF windowVars
<1>11. CASE RemoveHistory
  <2>1. v \in informed /\ UNCHANGED <<windowVars, replaced, erased>> /\ ~IsStore(disk')
    BY <1>11 DEF RemoveHistory, IsStore, standing
  <2> QED
    BY <1>0, <2>1 DEF KnowsOfClears, windowVars
<1> QED
  BY <1>1, <1>2, <1>3, <1>4, <1>5, <1>6, <1>7, <1>8, <1>9, <1>10, <1>11, <1>12
     DEF HistoryNext

\* The invariant of the chat history and its windows is kept.
THEOREM HistoryIsKept == HistorySpec => []HistoryInv
<1>1. HistoryInv /\ [HistoryNext]_historyVars => HistoryInv'
  BY HistoryStepTypes, HistoryStep, EntryStep DEF HistoryInv
<1> QED
  BY HistoryBegins, <1>1, PTL DEF HistorySpec

\* For any number of windows, sessions and clear commands: the entry of a window that was told
\* of every clear, lost no save and has settled holds nothing erased, unless somebody else's
\* older copy of it was put back after it.
THEOREM ErasedStaysErased == HistorySpec => []SettledHistoryIsErased
<1>1. HistoryInv => SettledHistoryIsErased
  BY DEF HistoryInv, KnowsOfClears, SettledHistoryIsErased
<1> QED
  BY HistoryIsKept, <1>1, PTL

-----------------------------------------------------------------------------
(* What a save keeps: the order of the entries.                              *)

Ordered(d) == d \in Files /\ InSavedOrder(d)

\* No writer has read a file that cannot be parsed.
OrderInv ==
  /\ disk # NoHistory /\ disk # Malformed => Ordered(disk)
  /\ \A x \in Writers : Ordered(copy[x])
  /\ disk = Malformed =>
       clearing.step # "read" /\ \A w \in Windows : at[w] \notin {"writing", "last_write"}

LEMMA FileOf ==
  ASSUME NEW chats \in [Sessions -> Seq(Sessions \X Int)], NEW kept \in SUBSET Sessions,
         NEW earlier \in [kept -> SUBSET kept]
  PROVE  [chats |-> chats, earlier |-> earlier] \in Files
BY DEF Files

LEMMA FileHas ==
  ASSUME NEW d, Ordered(d)
  PROVE  /\ d.chats \in [Sessions -> Seq(Sessions \X Int)]
         /\ Live(d) \subseteq Sessions /\ d.earlier \in [Live(d) -> SUBSET Live(d)]
         /\ IsFiniteSet(Live(d))
<1>1. d.chats \in [Sessions -> Seq(Sessions \X Int)] /\ DOMAIN d.earlier = Live(d)
  BY DEF Ordered, Files, InSavedOrder
<1>2. PICK kept \in SUBSET Sessions : d.earlier \in [kept -> SUBSET kept]
  BY DEF Ordered, Files
<1>3. Live(d) \subseteq Sessions
  BY DEF Live
<1> QED
  BY <1>1, <1>2, <1>3, HistoryAssumption, FS_Subset

\* Taking entries out leaves the others in their order.
LEMMA WithoutIsOrdered ==
  ASSUME NEW d, Ordered(d), NEW gone
  PROVE  /\ Ordered(Without(d, gone)) /\ Live(Without(d, gone)) = Live(d) \ gone
         /\ \A s \in Sessions : s \notin gone => Without(d, gone).chats[s] = d.chats[s]
<1> DEFINE chats == [s \in Sessions |-> IF s \in gone THEN <<>> ELSE d.chats[s]]
           kept == Live(d) \ gone
           earlier == [s \in kept |-> d.earlier[s] \ gone]
           rest == Without(d, gone)
<1>1. rest = [chats |-> chats, earlier |-> earlier]
  BY FileHas DEF Without
<1>2. chats \in [Sessions -> Seq(Sessions \X Int)] /\ kept \in SUBSET Sessions
      /\ earlier \in [kept -> SUBSET kept]
  BY FileHas
<1>3. rest \in Files
  BY <1>1, <1>2, FileOf
<1>4. Live(rest) = kept
  <2>1. Live(rest) = {s \in Sessions : chats[s] # <<>>}
    BY <1>1 DEF Live
  <2> QED
    BY <2>1 DEF Live
<1>5. rest.earlier = earlier /\ rest.chats = chats
  BY <1>1
<1>6. InSavedOrder(d)
  BY DEF Ordered
<1> HIDE DEF rest, chats
<1>7. InSavedOrder(rest)
  BY <1>4, <1>5, <1>6 DEF InSavedOrder
<1> QED
  BY <1>3, <1>4, <1>5, <1>7 DEF Ordered, rest, chats

\* The tail of a chat with messages has messages.
LEMMA NewestIsSome ==
  ASSUME NEW S, NEW seq \in Seq(S), seq # <<>>
  PROVE  Newest(seq) # <<>>
<1> DEFINE first == IF Len(seq) > HistoryLimit THEN Len(seq) - HistoryLimit + 1 ELSE 1
<1>1. Len(seq) \in Nat /\ Len(seq) > 0
  BY EmptySeq
<1>2. first \in 1 .. Len(seq)
  BY <1>1, HistoryAssumption
<1>3. Newest(seq) = SubSeq(seq, first, Len(seq))
  BY DEF Newest
<1> HIDE DEF first
<1>4. \A i \in first .. Len(seq) : seq[i] \in S
  BY <1>1, <1>2
<1>5. Len(SubSeq(seq, first, Len(seq))) = Len(seq) - first + 1
  BY <1>1, <1>2, <1>4, SubSeqProperties
<1>6. Len(SubSeq(seq, first, Len(seq))) > 0
  <2> DEFINE tail == SubSeq(seq, first, Len(seq))
  <2> HIDE DEF tail
  <2>1. Len(tail) = Len(seq) - first + 1
    BY <1>5 DEF tail
  <2>2. Len(tail) > 0
    BY <1>1, <1>2, <2>1
  <2> QED
    BY <2>2 DEF tail
<1>7. Len(Newest(seq)) > 0
  BY <1>3, <1>6
<1> QED
  BY <1>7, EmptySeq

\* The entry saved now comes after all others.
LEMMA WithChatIsOrdered ==
  ASSUME NEW d, Ordered(d), NEW s \in Sessions, NEW messages \in Seq(Sessions \X Int),
         messages # <<>>
  PROVE  LET now == WithChat(d, s, messages)
         IN  /\ Ordered(now) /\ now.chats[s] = Newest(messages)
             /\ s \in Live(now) /\ now.earlier[s] = Live(now) \ {s}
<1> DEFINE others == Live(d) \ {s}
           chats == [d.chats EXCEPT ![s] = Newest(messages)]
           earlier == [t \in others \cup {s} |-> IF t = s THEN others ELSE d.earlier[t] \ {s}]
           now == WithChat(d, s, messages)
<1>1. now = [chats |-> chats, earlier |-> earlier]
  BY FileHas DEF WithChat
<1>2. Newest(messages) \in Seq(Sessions \X Int) /\ Newest(messages) # <<>>
  BY NewestIsOfThem, NewestIsSome
<1>3. chats \in [Sessions -> Seq(Sessions \X Int)] /\ chats[s] = Newest(messages)
  BY <1>2, FileHas
<1>4. others \cup {s} \in SUBSET Sessions
      /\ earlier \in [others \cup {s} -> SUBSET (others \cup {s})]
  BY FileHas
<1>5. now \in Files
  <2> HIDE DEF now, chats, earlier
  <2> QED
    BY <1>1, <1>3, <1>4, FileOf
<1>6. Live(now) = others \cup {s}
  <2>1. Live(now) = {t \in Sessions : chats[t] # <<>>}
    BY <1>1 DEF Live
  <2>2. \A t \in Sessions \ {s} : chats[t] = d.chats[t]
    BY FileHas
  <2> QED
    BY <1>2, <1>3, <2>1, <2>2 DEF Live
<1>7. now.earlier = earlier /\ now.chats = chats
  BY <1>1
<1>8. InSavedOrder(d)
  BY DEF Ordered
<1> HIDE DEF now, chats
<1>9. InSavedOrder(now)
  BY <1>6, <1>7, <1>8 DEF InSavedOrder
<1> QED
  BY <1>3, <1>5, <1>6, <1>7, <1>9 DEF Ordered, now

LEMMA SmallestRank ==
  ASSUME NEW T \in SUBSET Nat, T # {}
  PROVE  \E x \in T : \A y \in T : x <= y
<1> DEFINE R == OpToRel(<, Nat)
<1>1. \A x, y \in Nat : y < x => <<y, x>> \in R
  BY DEF OpToRel
<1>2. IsWellFoundedOn(R, Nat)
  BY NatLessThanWellFounded
<1> HIDE DEF R
<1>3. PICK x \in T : \A y \in T : ~ (<<y, x>> \in R)
  BY <1>2, WFMin
<1>4. \A y \in T : ~ (y < x)
  BY <1>1, <1>3
<1>5. QED BY <1>4

\* What Bounded takes out leaves no more entries than the bound, and not the one saved last.
LEMMA BoundedIsSmall ==
  ASSUME NEW d, Ordered(d), NEW s \in Live(d), d.earlier[s] = Live(d) \ {s}
  PROVE  LET now == Bounded(d)
         IN  /\ Ordered(now) /\ now.chats[s] = d.chats[s]
             /\ Cardinality(Live(now)) <= MaxSessions
<1> DEFINE n == Cardinality(Live(d))
           surplus == n - MaxSessions
           Rank(t) == Cardinality(d.earlier[t])
           dropped == {t \in Live(d) : Rank(t) < surplus}
           kept == Live(d) \ dropped
<1>1. n \in Nat /\ Live(d) \subseteq Sessions /\ IsFiniteSet(Live(d))
  BY FileHas, FS_CardinalityType
<1>2. \A t \in Live(d) : d.earlier[t] \subseteq Live(d) /\ IsFiniteSet(d.earlier[t]) /\ Rank(t) \in Nat
  BY <1>1, FileHas, FS_Subset, FS_CardinalityType
<1>3. InSavedOrder(d)
  BY DEF Ordered
<1>4. Rank(s) = n - 1
  BY <1>1, FS_RemoveElement
<1>5. MaxSessions \in Nat \ {0} /\ surplus \in Int
  BY <1>1, HistoryAssumption
<1>6. s \in kept
  <2>1. ~ (Rank(s) < surplus)
    <3> HIDE DEF Rank, n
    <3> QED
      BY <1>1, <1>4, <1>5
  <2> QED
    BY <2>1
<1>7. Bounded(d) = Without(d, dropped)
  BY DEF Bounded
<1>8. PICK u \in kept : \A t \in kept : Rank(u) <= Rank(t)
  <2>1. {Rank(t) : t \in kept} \in SUBSET Nat /\ {Rank(t) : t \in kept} # {}
    BY <1>2, <1>6
  <2>2. PICK x \in {Rank(t) : t \in kept} : \A y \in {Rank(t) : t \in kept} : x <= y
    BY <2>1, SmallestRank
  <2> QED
    BY <2>2
\* Whatever was saved before the oldest entry left is among those taken out.
<1>9. d.earlier[u] \cap kept = {}
  <2> SUFFICES ASSUME NEW t \in kept, t \in d.earlier[u] PROVE FALSE
    OBVIOUS
  <2>1. d.earlier[t] \subseteq d.earlier[u] /\ t \notin d.earlier[t]
    BY <1>3 DEF InSavedOrder
  <2>2. IsFiniteSet(d.earlier[u]) /\ d.earlier[t] # d.earlier[u]
    BY <1>2, <2>1
  <2>3. Rank(t) <= Rank(u) /\ Rank(t) # Rank(u)
    BY <2>1, <2>2, FS_Subset
  <2> QED
    BY <1>2, <1>8, <2>3
<1>10. Cardinality(kept) <= n - Rank(u)
  <2>1. kept \subseteq Live(d) \ d.earlier[u] /\ IsFiniteSet(Live(d) \ d.earlier[u])
    BY <1>1, <1>9, FS_Subset
  <2>2. Cardinality(Live(d) \ d.earlier[u]) = n - Cardinality(Live(d) \cap d.earlier[u])
    BY <1>1, <1>2, FS_Difference
  <2>3. Live(d) \cap d.earlier[u] = d.earlier[u]
    BY <1>2
  <2>4. Cardinality(kept) <= Cardinality(Live(d) \ d.earlier[u])
    BY <2>1, FS_Subset
  <2> QED
    BY <2>2, <2>3, <2>4
<1>11. Rank(u) >= surplus /\ Rank(u) \in Nat /\ Cardinality(kept) \in Nat
  BY <1>1, <1>2, <1>5, FS_Subset, FS_CardinalityType
<1>12. Cardinality(kept) <= MaxSessions
  <2> HIDE DEF Rank, kept
  <2> QED
    BY <1>1, <1>5, <1>10, <1>11
<1> HIDE DEF dropped
<1>13. /\ Ordered(Without(d, dropped)) /\ Live(Without(d, dropped)) = kept
       /\ Without(d, dropped).chats[s] = d.chats[s]
  BY <1>1, <1>6, WithoutIsOrdered
<1> QED
  BY <1>7, <1>12, <1>13

LEMMA EmptyIsOrdered == Ordered(Empty)
<1>1. Empty.chats \in [Sessions -> Seq(Sessions \X Int)] /\ Empty.earlier \in [{} -> SUBSET {}]
      /\ Live(Empty) = {}
  BY DEF Empty, Live
<1>2. Empty \in Files
  BY <1>1, FileOf DEF Empty
<1>3. InSavedOrder(Empty)
  BY <1>1 DEF InSavedOrder
<1> QED
  BY <1>2, <1>3 DEF Ordered

\* What a save leaves is no file or one with its entries in order.
LEMMA SavedIsOrdered ==
  ASSUME NEW d, Ordered(d), NEW s \in Sessions, NEW messages \in Seq(Sessions \X Int)
  PROVE  LET now == Saved(d, s, messages)
         IN  /\ now = NoHistory \/ Ordered(now)
             /\ messages # <<>> => /\ Ordered(now) /\ now.chats[s] = Newest(messages)
                                   /\ Cardinality(Live(now)) <= MaxSessions
<1>1. CASE messages # <<>>
  <2>1. PICK e : e = WithChat(d, s, messages)
    OBVIOUS
  <2>2. Ordered(e) /\ e.chats[s] = Newest(messages) /\ s \in Live(e) /\ e.earlier[s] = Live(e) \ {s}
    BY <1>1, <2>1, WithChatIsOrdered
  <2>3. Saved(d, s, messages) = Bounded(e)
    BY <1>1, <2>1 DEF Saved
  <2> QED
    BY <2>2, <2>3, BoundedIsSmall
<1>2. CASE messages = <<>>
  <2>1. PICK e : e = Without(d, {s})
    OBVIOUS
  <2>2. Ordered(e)
    BY <2>1, WithoutIsOrdered
  <2>3. Saved(d, s, messages) = NoHistory \/ Saved(d, s, messages) = Bounded(e)
    BY <1>2, <2>1 DEF Saved
  <2>4. Ordered(Bounded(e))
    BY <2>2, WithoutIsOrdered DEF Bounded
  <2> QED
    BY <1>2, <2>3, <2>4
<1> QED
  BY <1>1, <1>2

\* A file is neither of the two values that are none.
LEMMA OrderedIsStore == \A d : Ordered(d) => IsStore(d)
BY HistoryAssumption DEF Ordered, IsStore

\* What a window shows are messages of its session.
LEMMA SaidIsMessages ==
  ASSUME HistoryTypes, NEW w \in Windows
  PROVE  said[w] \in Seq(Sessions \X Int) /\ SessionOf[w] \in Sessions
<1>1. SessionOf[w] \in Sessions /\ said[w] \in Seq(MessagesTo(SessionOf[w], issued))
  BY HistoryAssumption DEF HistoryTypes
<1>2. MessagesTo(SessionOf[w], issued) \subseteq Sessions \X Int
  BY <1>1 DEF MessagesTo
<1> QED
  BY <1>1, <1>2

LEMMA OrderBegins == HistoryInit => OrderInv
<1> SUFFICES ASSUME HistoryInit PROVE OrderInv
  OBVIOUS
<1>1. disk # NoHistory /\ disk # Malformed => Ordered(disk)
  BY HistoryAssumption DEF HistoryInit, Ordered
<1> QED
  BY <1>1, EmptyIsOrdered DEF HistoryInit, OrderInv, NoClear

LEMMA OrderStep == HistoryTypes /\ OrderInv /\ [HistoryNext]_historyVars => OrderInv'
<1> SUFFICES ASSUME HistoryTypes, OrderInv, [HistoryNext]_historyVars PROVE OrderInv'
  OBVIOUS
<1>1. CASE UNCHANGED historyVars
  BY <1>1 DEF historyVars, windowVars, OrderInv
<1>2. ASSUME NEW w \in Windows,
             \/ Attach(w) \/ LoadHistory(w) \/ Subscribe(w) \/ Lag(w) \/ Talk(w) \/ HandleCleared(w)
             \/ Leave(w) \/ LoseContact(w) \/ WriteFails(w)
      PROVE  OrderInv'
  BY <1>2 DEF Attach, LoadHistory, Subscribe, Lag, Talk, HandleCleared, Leave, LoseContact,
              WriteFails, AfterSave, OrderInv, HistoryTypes
<1>3. ASSUME NEW w \in Windows, ReadStore(w) PROVE OrderInv'
  <2>1. CASE disk = Malformed
    BY <1>3, <2>1 DEF ReadStore, AfterSave, OrderInv, HistoryTypes
  <2>2. CASE disk # Malformed
    <3>1. PICK d : Ordered(d) /\ copy' = [copy EXCEPT ![w] = d]
      BY <1>3, <2>2, EmptyIsOrdered DEF ReadStore, OrderInv
    <3>2. disk' = disk /\ \A x \in Writers : Ordered(copy'[x])
      BY <1>3, <3>1 DEF ReadStore, OrderInv, HistoryTypes
    <3> QED
      BY <2>2, <3>2 DEF OrderInv
  <2> QED
    BY <2>1, <2>2
<1>4. ASSUME NEW w \in Windows, WriteStore(w) PROVE OrderInv'
  <2>1. disk' = NoHistory \/ Ordered(disk')
    <3>1. Ordered(copy[w])
      BY DEF OrderInv, Writers
    <3> QED
      BY <1>4, <3>1, SaidIsMessages, SavedIsOrdered DEF WriteStore
  <2>2. disk' # Malformed
    BY <2>1, OrderedIsStore, HistoryAssumption DEF IsStore
  <2> QED
    BY <1>4, <2>1, <2>2 DEF WriteStore, OrderInv
<1>5. ASSUME NEW command \in Clears, RequestClear(command) PROVE OrderInv'
  <2>1. clearing'.step # "read"
    BY <1>5 DEF RequestClear, Clears
  <2> QED
    BY <1>5, <2>1 DEF RequestClear, OrderInv
<1>6. CASE ReadForRemoval
  <2>1. CASE IsStore(disk)
    <3>1. Ordered(disk) /\ disk' = disk /\ at' = at /\ copy' = [copy EXCEPT !["cli"] = disk]
      BY <1>6, <2>1 DEF ReadForRemoval, OrderInv, IsStore, windowVars
    <3>2. \A x \in Writers : Ordered(copy'[x])
      BY <3>1 DEF OrderInv, HistoryTypes
    <3> QED
      BY <2>1, <3>1, <3>2 DEF OrderInv, IsStore
  <2>2. CASE ~IsStore(disk)
    BY <1>6, <2>2 DEF ReadForRemoval, OrderInv, NoClear, windowVars
  <2> QED
    BY <2>1, <2>2
<1>7. CASE RemoveSession
  <2>1. Ordered(Without(copy["cli"], {clearing.session}))
    BY WithoutIsOrdered DEF OrderInv, Writers
  <2>2. disk' = NoHistory \/ Ordered(disk')
    BY <1>7, <2>1 DEF RemoveSession
  <2>3. disk' # Malformed
    BY <2>2, OrderedIsStore, HistoryAssumption DEF IsStore
  <2> QED
    BY <1>7, <2>2, <2>3 DEF RemoveSession, OrderInv
<1>8. CASE RemoveHistory
  BY <1>8, HistoryAssumption DEF RemoveHistory, OrderInv
<1> QED
  BY <1>1, <1>2, <1>3, <1>4, <1>5, <1>6, <1>7, <1>8 DEF HistoryNext

\* For any limits, sessions and windows: a save that writes leaves its own entry, whatever the
\* bound makes it drop, and no more sessions than the bound; and a file that cannot be read is
\* removed only by the commands that delete the whole history.
THEOREM HistoryFileStays == HistorySpec => HistoryFileIsKept
<1>1. HistoryTypes /\ OrderInv /\ [HistoryNext]_historyVars
        => [\A w \in Windows :
              (WriteStore(w) /\ said[w] # <<>>)
                => /\ IsStore(disk') /\ disk'.chats[SessionOf[w]] = Newest(said[w])
                   /\ Cardinality(Live(disk')) <= MaxSessions]_historyVars
  <2> SUFFICES ASSUME HistoryTypes, OrderInv, NEW w \in Windows, WriteStore(w), said[w] # <<>>
               PROVE  /\ IsStore(disk') /\ disk'.chats[SessionOf[w]] = Newest(said[w])
                      /\ Cardinality(Live(disk')) <= MaxSessions
    OBVIOUS
  <2>1. Ordered(copy[w]) /\ said[w] \in Seq(Sessions \X Int) /\ SessionOf[w] \in Sessions
    BY SaidIsMessages DEF OrderInv, Writers
  <2>2. PICK now : now = Saved(copy[w], SessionOf[w], said[w])
    OBVIOUS
  <2>3. Ordered(now) /\ now.chats[SessionOf[w]] = Newest(said[w]) /\ Cardinality(Live(now)) <= MaxSessions
    BY <2>1, <2>2, SavedIsOrdered
  <2>4. disk' = now /\ Live(disk') = Live(now)
    BY <2>2 DEF WriteStore, Live
  <2> QED
    BY <2>3, <2>4, OrderedIsStore
<1>2. HistoryTypes /\ OrderInv /\ [HistoryNext]_historyVars
        => [disk = Malformed /\ disk' # Malformed
              => clearing.scope = "history" /\ disk' = NoHistory]_historyVars
  <2> SUFFICES ASSUME OrderInv, HistoryNext, disk = Malformed, disk' # Malformed
               PROVE  clearing.scope = "history" /\ disk' = NoHistory
    OBVIOUS
  <2>1. ~ RemoveSession /\ \A w \in Windows : ~ WriteStore(w)
    BY DEF OrderInv, RemoveSession, WriteStore
  <2>2. RemoveHistory
    BY <2>1 DEF HistoryNext, Attach, LoadHistory, Subscribe, Lag, Talk, HandleCleared, Leave,
                LoseContact, ReadStore, WriteFails, RequestClear, ReadForRemoval
  <2> QED
    BY <2>2 DEF RemoveHistory
<1>3. HistoryInv => HistoryTypes
  BY DEF HistoryInv
<1> QED
  BY HistoryIsKept, OrderBegins, OrderStep, <1>1, <1>2, <1>3, PTL
     DEF HistorySpec, HistoryFileIsKept, SaveIsKept, MalformedIsKept

-----------------------------------------------------------------------------
(***************************************************************************)
(* AutoStart for any number of shells, old or new, and of commands: after  *)
(* a stop that no start crossed, the daemon stays down until the user      *)
(* starts it.                                                              *)
(*                                                                         *)
(* From the moment such a stop has set the marker nothing is under way     *)
(* that would start the daemon (Quiet): whoever looks at the marker from   *)
(* then on sees it, and a start in an old shell that is still before its   *)
(* look gives up there. That the daemon is down at the end needs Quiet at  *)
(* each step of the stop before.                                           *)
(***************************************************************************)

Steps == {"new", "over", "look", "clear", "clear again", "ping", "launch", "wait", "mark",
          "ask", "bootout", "term", "gone?", "mark only"}

\* Where a stop may be, and where one is that has set the marker.
StopSteps == {"mark", "ask", "bootout", "term", "gone?"}
Marked == StopSteps \ {"mark"}

StartTypes ==
  /\ serving \in [at : {"down", "booting", "up", "leaving"}, by : {"launchd", "child"}]
  /\ shell \in [Shells -> {"prompt", "clear"}]
  /\ cmd \in [Commands -> [kind : Kinds \cup {"none"}, of : Shells \cup {NoShell},
                           at : Steps, raced : BOOLEAN]]
  /\ \A c \in Commands :
       /\ cmd[c].kind = "stop" => cmd[c].at \in StopSteps \cup {"over"}
       /\ cmd[c].kind = "none" => cmd[c].at = "new"

\* A stop the user means, that has set the marker while no start was under way.
Stopping(c) == last = c /\ cmd[c].kind = "stop" /\ cmd[c].at \in Marked /\ ~cmd[c].raced

\* Nothing is under way that would start the daemon, and nothing will be before the user
\* starts it: shells that look at the marker see it, and what old shells begin gives up.
Quiet ==
  /\ marker
  /\ \A s \in Shells : shell[s] # "prompt" => s \in OldShells
  /\ \A c \in Commands :
       UnderWay(c) => cmd[c].kind = "stop" \/ (cmd[c].at = "look" /\ cmd[c].of \in OldShells)
  /\ serving.at # "booting"

StopInv ==
  /\ (stopped \/ \E c \in Commands : Stopping(c)) => Quiet
  /\ stopped => serving.at = "down"

StartInv == StartTypes /\ StopInv

\* A command that goes on keeps the types when its step is one, and one of a stop's for a stop.
LEMMA GoingOn ==
  ASSUME StartTypes, NEW c \in Commands, NEW step \in Steps, Goes(c, step),
         cmd[c].at # "new", cmd[c].kind = "stop" => step \in StopSteps \cup {"over"},
         serving' \in [at : {"down", "booting", "up", "leaving"}, by : {"launchd", "child"}],
         UNCHANGED shell
  PROVE  StartTypes'
BY ZenonT(30) DEF StartTypes, Goes, Steps

LEMMA StartBegins == StartInit => StartInv
<1> SUFFICES ASSUME StartInit PROVE StartInv
  OBVIOUS
<1>1. StartTypes
  BY DEF StartInit, StartTypes, Steps
<1>2. \A c \in Commands : ~Stopping(c)
  BY DEF StartInit, Stopping
<1> QED
  BY <1>1, <1>2 DEF StartInit, StartInv, StopInv

\* One step of the commands, and of the daemon, keeps the types.
LEMMA StartStepTypes == StartTypes /\ [StartNext]_startVars => StartTypes'
<1> SUFFICES ASSUME StartTypes, [StartNext]_startVars PROVE StartTypes'
  OBVIOUS
<1>1. CASE UNCHANGED startVars
  BY <1>1 DEF startVars, StartTypes
<1>2. ASSUME NEW s \in Shells, Prompt(s) PROVE StartTypes'
  BY <1>2 DEF Prompt, StartTypes, Steps, StopSteps, Kinds
<1>3. ASSUME NEW s \in Shells, NEW c \in Commands, SpawnStart(c, s) PROVE StartTypes'
  BY <1>3 DEF SpawnStart, BeginRun, StartTypes, Steps, StopSteps, Kinds
<1>4. ASSUME NEW c \in Commands, NEW s \in Shells, NEW kind \in Kinds \ {"auto"}, Run(c, kind, s)
      PROVE  StartTypes'
  BY <1>4 DEF Run, BeginRun, StartTypes, Steps, StopSteps, Kinds
<1>5. ASSUME NEW c \in Commands, LookAtMarker(c) \/ ClearMarker(c) \/ PingDaemon(c) \/ Await(c)
      PROVE  StartTypes'
  <2>1. /\ cmd[c].at \notin {"new", "over"} \cup StopSteps /\ UNCHANGED <<serving, shell>>
        /\ \E step \in Steps : Goes(c, step)
    BY <1>5 DEF LookAtMarker, ClearMarker, PingDaemon, Await, Stands, Steps, StopSteps
  <2> QED
    BY <2>1, GoingOn DEF StartTypes
<1>6. ASSUME NEW c \in Commands, LaunchDaemon(c) PROVE StartTypes'
  <2>1. cmd[c].at = "launch" /\ Goes(c, "wait") /\ UNCHANGED shell
    BY <1>6 DEF LaunchDaemon, Stands
  <2>2. serving' \in [at : {"down", "booting", "up", "leaving"}, by : {"launchd", "child"}]
    BY <1>6 DEF LaunchDaemon, StartTypes
  <2> QED
    <3>1. cmd[c].kind # "stop" /\ "wait" \in Steps
      BY <2>1 DEF StartTypes, StopSteps, Steps
    <3> QED
      BY <2>1, <2>2, <3>1, GoingOn
<1>7. ASSUME NEW c \in Commands, Mark(c) PROVE StartTypes'
  <2>1. StartingBeside(c) \in BOOLEAN
    BY DEF StartingBeside
  <2>2. cmd' = [cmd EXCEPT ![c] = [cmd[c] EXCEPT !.at = "ask", !.raced = StartingBeside(c)]]
    BY <1>7 DEF Mark, StartTypes
  <2>3. [cmd[c] EXCEPT !.at = "ask", !.raced = StartingBeside(c)]
          \in [kind : Kinds \cup {"none"}, of : Shells \cup {NoShell}, at : Steps, raced : BOOLEAN]
    BY <2>1 DEF StartTypes, Steps
  <2> QED
    BY <1>7, <2>2, <2>3 DEF Mark, Stands, StartTypes, StopSteps
<1>8. ASSUME NEW c \in Commands, RequestShutdown(c) \/ StopAgent(c) \/ Terminate(c) PROVE StartTypes'
  <2>1. /\ cmd[c].at \in StopSteps /\ UNCHANGED shell
        /\ \E step \in StopSteps : Goes(c, step)
        /\ \E now \in {"down", "booting", "up", "leaving"} : Becomes(now)
    BY <1>8 DEF RequestShutdown, StopAgent, Terminate, Stands, StopSteps, StartTypes
  <2>2. serving' \in [at : {"down", "booting", "up", "leaving"}, by : {"launchd", "child"}]
    BY <2>1 DEF Becomes, StartTypes
  <2> QED
    BY <2>1, <2>2, GoingOn DEF Steps, StopSteps
<1>9. ASSUME NEW c \in Commands, FindGone(c) \/ GiveUp(c) PROVE StartTypes'
  <2>1. cmd[c].at = "gone?" /\ UNCHANGED <<serving, shell>>
    BY <1>9 DEF FindGone, GiveUp, Stands
  <2>2. /\ AfterStop(cmd[c].kind) \in Steps
        /\ cmd[c].kind = "stop" => AfterStop(cmd[c].kind) = "over"
    BY DEF AfterStop, Steps
  <2>3. \E step \in {"over", AfterStop(cmd[c].kind)} : Goes(c, step)
    BY <1>9 DEF FindGone, GiveUp
  <2>4. serving \in [at : {"down", "booting", "up", "leaving"}, by : {"launchd", "child"}]
    BY DEF StartTypes
  <2>5. PICK step \in {"over", AfterStop(cmd[c].kind)} : Goes(c, step)
    BY <2>3
  <2>6. step \in Steps /\ (cmd[c].kind = "stop" => step = "over")
    BY <2>2, <2>5 DEF Steps
  <2> QED
    BY <2>1, <2>4, <2>5, <2>6, GoingOn
<1>10. ASSUME NEW c \in Commands, MarkOnly(c) \/ Interrupt(c) PROVE StartTypes'
  <2>1. cmd[c].at # "new" /\ Goes(c, "over") /\ UNCHANGED <<serving, shell>>
    BY <1>10 DEF MarkOnly, Interrupt, Stands, UnderWay
  <2> QED
    BY <2>1, GoingOn DEF Steps, StartTypes
<1>11. CASE BootsUp \/ Ends
  BY <1>11 DEF BootsUp, Ends, Becomes, StartTypes, Steps, StopSteps, Kinds
<1> QED
  BY <1>1, <1>2, <1>3, <1>4, <1>5, <1>6, <1>7, <1>8, <1>9, <1>10, <1>11 DEF StartNext

\* Only a stop goes further while nothing is under way, or a start of an old shell, which ends.
LEMMA QuietEnds ==
  ASSUME StartTypes, Quiet, NEW c \in Commands, NEW step, Goes(c, step), UnderWay(c),
         cmd[c].kind = "stop" \/ step = "over",
         marker' = marker, shell' = shell, serving'.at # "booting"
  PROVE  Quiet'
<1>1. \A d \in Commands : /\ cmd'[d].kind = cmd[d].kind /\ cmd'[d].of = cmd[d].of
                          /\ d # c => cmd'[d].at = cmd[d].at
      /\ cmd'[c].at = step
  BY DEF Goes, StartTypes
<1> QED
  BY <1>1 DEF Quiet, UnderWay

\* Whoever stops after a step that neither marks nor begins a command did so before.
LEMMA StoppedBefore ==
  ASSUME StartTypes, NEW c \in Commands, NEW step, Goes(c, step), UnderWay(c),
         cmd[c].at # "mark", last' = last, NEW d \in Commands, Stopping(d)'
  PROVE  Stopping(d)
<1>1. /\ cmd'[d].kind = cmd[d].kind /\ cmd'[d].raced = cmd[d].raced
      /\ d # c => cmd'[d].at = cmd[d].at
  BY DEF Goes, StartTypes
<1>2. cmd[d].kind = "stop" /\ last = d /\ ~cmd[d].raced
  BY <1>1 DEF Stopping
<1>3. cmd[d].at \in Marked
  BY <1>1, <1>2 DEF StartTypes, Stopping, UnderWay, Marked, StopSteps
<1> QED
  BY <1>2, <1>3 DEF Stopping

\* A command that goes on, with the daemon no nearer to running when nothing else would start it.
LEMMA StopGoesOn ==
  ASSUME StartInv, NEW c \in Commands, NEW step, Goes(c, step), UnderWay(c),
         cmd[c].at # "mark", last' = last, shell' = shell,
         stopped' => stopped \/ (Stopping(c) /\ serving'.at = "down"),
         Quiet => /\ cmd[c].kind = "stop" \/ step = "over"
                  /\ marker' = marker /\ serving'.at # "booting"
                  /\ serving.at = "down" => serving'.at = "down"
  PROVE  StopInv'
<1>1. ASSUME stopped' \/ \E d \in Commands : Stopping(d)' PROVE Quiet /\ Quiet'
  <2>1. stopped \/ \E d \in Commands : Stopping(d)
    BY <1>1, StoppedBefore DEF StartInv
  <2>2. Quiet
    BY <2>1 DEF StartInv, StopInv
  <2> QED
    BY <2>2, QuietEnds DEF StartInv
<1>2. ASSUME stopped' PROVE serving'.at = "down"
  BY <1>1, <1>2 DEF StartInv, StopInv
<1> QED
  BY <1>1, <1>2 DEF StopInv

LEMMA StopStep == StartInv /\ [StartNext]_startVars => StopInv'
<1> SUFFICES ASSUME StartInv, [StartNext]_startVars PROVE StopInv'
  OBVIOUS
<1>0. StartTypes /\ StopInv
  BY DEF StartInv
<1>1. CASE UNCHANGED startVars
  BY <1>0, <1>1 DEF startVars, StopInv, Stopping, Quiet, UnderWay
\* A prompt passes the marker in an old shell only, and what it begins will look again.
<1>2. ASSUME NEW s \in Shells, Prompt(s) PROVE StopInv'
  <2>1. UNCHANGED <<marker, serving, cmd, words>>
    BY <1>2 DEF Prompt
  <2>2. Quiet => Quiet'
    BY <1>0, <1>2, <2>1 DEF Prompt, Quiet, UnderWay, StartTypes
  <2> QED
    BY <1>0, <2>1, <2>2 DEF StopInv, Stopping, words
<1>3. ASSUME NEW s \in Shells, NEW c \in Commands, SpawnStart(c, s) PROVE StopInv'
  <2>1. /\ UNCHANGED <<marker, serving, words>> /\ shell[s] = "clear"
        /\ shell' = [shell EXCEPT ![s] = "prompt"]
        /\ cmd' = [cmd EXCEPT ![c] = [kind |-> "auto", of |-> s, at |-> "look", raced |-> FALSE]]
    BY <1>3 DEF SpawnStart, BeginRun
  <2>2. Quiet => Quiet'
    BY <1>0, <2>1 DEF Quiet, UnderWay, StartTypes
  <2>3. \A d \in Commands : Stopping(d)' => Stopping(d)
    BY <1>0, <2>1 DEF Stopping, StartTypes, words
  <2> QED
    BY <1>0, <2>1, <2>2, <2>3 DEF StopInv, words
<1>4. ASSUME NEW c \in Commands, NEW s \in Shells, NEW kind \in Kinds \ {"auto"}, Run(c, kind, s)
      PROVE  StopInv'
  <2>1. PICK step \in {"look", "mark", "clear", "mark only"} :
          /\ cmd' = [cmd EXCEPT ![c] = [kind |-> kind, of |-> s, at |-> step, raced |-> FALSE]]
          /\ kind = "start" => step = "look"
    BY <1>4 DEF Run, BeginRun
  <2>2. UNCHANGED <<marker, serving, shell>>
    BY <1>4 DEF Run
  <2>3. /\ cmd'[c].kind = kind /\ cmd'[c].of = s /\ cmd'[c].at = step
        /\ \A d \in Commands \ {c} : cmd'[d] = cmd[d]
    BY <1>0, <2>1 DEF StartTypes
  <2>4. ~Stopping(c)'
    BY <2>3 DEF Stopping, Marked, StopSteps
  <2>5. CASE Counts(kind, s)
    <3>1. last' = c /\ (stopped' => stopped /\ kind = "stop")
      BY <1>4, <2>5 DEF Run
    <3>2. \A d \in Commands : ~Stopping(d)'
      BY <2>4, <3>1 DEF Stopping
    <3>3. stopped' => Quiet'
      BY <1>0, <2>2, <2>3, <3>1 DEF StopInv, Quiet, UnderWay
    <3> QED
      BY <1>0, <2>2, <3>1, <3>2, <3>3 DEF StopInv
  <2>6. CASE ~Counts(kind, s)
    <3>1. kind = "start" /\ s \in OldShells /\ UNCHANGED words
      BY <1>4, <2>6 DEF Counts, Run
    <3>2. Quiet => Quiet'
      BY <2>1, <2>2, <2>3, <3>1 DEF Quiet, UnderWay
    <3>3. \A d \in Commands : Stopping(d)' => Stopping(d)
      BY <2>3, <2>4, <3>1 DEF Stopping, words
    <3> QED
      BY <1>0, <2>2, <3>1, <3>2, <3>3 DEF StopInv, words
  <2> QED
    BY <2>5, <2>6
<1>5. ASSUME NEW c \in Commands, LookAtMarker(c) PROVE StopInv'
  <2>1. PICK step : Goes(c, step) /\ (MustPreserve(c) => step = "over")
    BY <1>5 DEF LookAtMarker
  <2>2. cmd[c].at = "look" /\ UnderWay(c) /\ UNCHANGED <<marker, serving, shell, words>>
    BY <1>5 DEF LookAtMarker, Stands, UnderWay
  <2>3. Quiet => MustPreserve(c)
    BY <1>0, <2>2 DEF Quiet, MustPreserve, StartTypes, StopSteps
  <2> QED
    BY <1>0, <2>1, <2>2, <2>3, StopGoesOn DEF words, Quiet
\* What a start does past the marker it does not do while everything is quiet.
<1>6. ASSUME NEW c \in Commands, ClearMarker(c) \/ PingDaemon(c) \/ LaunchDaemon(c) \/ Await(c)
      PROVE  StopInv'
  <2>1. /\ cmd[c].at \in {"clear", "clear again", "ping", "launch", "wait"}
        /\ UNCHANGED <<shell, words>> /\ \E step : Goes(c, step)
    BY <1>6 DEF ClearMarker, PingDaemon, LaunchDaemon, Await, Stands
  <2>2. UnderWay(c) /\ ~Quiet
    BY <1>0, <2>1 DEF Quiet, UnderWay, StartTypes, StopSteps
  <2> QED
    BY <1>0, <2>1, <2>2, StopGoesOn DEF words
\* A stop sets the marker: unless a start was beside it, nothing passes it any more.
<1>7. ASSUME NEW c \in Commands, Mark(c) PROVE StopInv'
  <2>1. marker' /\ cmd[c].at = "mark" /\ UNCHANGED <<serving, shell, words>>
    BY <1>7 DEF Mark, MarkStopped, Stands
  <2>2. /\ cmd'[c].kind = cmd[c].kind /\ cmd'[c].raced = StartingBeside(c)
        /\ \A d \in Commands \ {c} : cmd'[d] = cmd[d]
    BY <1>0, <1>7 DEF Mark, StartTypes
  <2>3. ASSUME Stopping(c)' PROVE Quiet'
    <3>1. cmd[c].kind = "stop" /\ ~StartingBeside(c)
      BY <2>2, <2>3 DEF Stopping
    <3> QED
      BY <1>0, <2>1, <2>2, <3>1 DEF StartingBeside, Quiet, UnderWay, StartTypes
  <2>4. ASSUME Quiet PROVE Quiet'
    <3>1. cmd[c].kind = "stop"
      BY <2>1, <2>4 DEF Quiet, UnderWay
    <3> QED
      BY <2>1, <2>2, <2>4, <3>1 DEF Quiet, UnderWay
  <2>5. \A d \in Commands \ {c} : Stopping(d)' => Stopping(d)
    BY <2>1, <2>2 DEF Stopping, words
  <2> QED
    BY <1>0, <2>1, <2>3, <2>4, <2>5 DEF StopInv, words
<1>8. ASSUME NEW c \in Commands, RequestShutdown(c) \/ StopAgent(c) \/ Terminate(c) PROVE StopInv'
  <2>1. /\ cmd[c].at \in {"ask", "bootout", "term"} /\ UnderWay(c)
        /\ UNCHANGED <<marker, shell, words>> /\ \E step : Goes(c, step)
    BY <1>8 DEF RequestShutdown, StopAgent, Terminate, Stands, UnderWay
  <2>2. serving'.at \in {serving.at, "leaving", "down"} /\ (serving.at = "down" => serving'.at = "down")
    BY <1>0, <1>8 DEF RequestShutdown, StopAgent, Terminate, Becomes, StartTypes
  <2>3. Quiet => cmd[c].kind = "stop" /\ serving'.at # "booting"
    BY <2>1, <2>2 DEF Quiet
  <2> QED
    BY <1>0, <2>1, <2>2, <2>3, StopGoesOn DEF words
<1>9. ASSUME NEW c \in Commands, FindGone(c) PROVE StopInv'
  <2>1. /\ cmd[c].at = "gone?" /\ UnderWay(c) /\ UNCHANGED <<marker, serving, shell, last>>
        /\ serving.at \in {"down", "booting"} /\ Goes(c, AfterStop(cmd[c].kind))
        /\ stopped' => stopped \/ (last = c /\ cmd[c].kind = "stop" /\ ~cmd[c].raced)
    BY <1>9 DEF FindGone, MarkStopped, Stands, UnderWay
  <2>2. Stopping(c) => serving'.at = "down"
    BY <1>0, <2>1 DEF StopInv, Quiet
  <2>3. stopped' => stopped \/ (Stopping(c) /\ serving'.at = "down")
    BY <2>1, <2>2 DEF Stopping, Marked, StopSteps
  <2>4. Quiet => cmd[c].kind = "stop" /\ serving'.at # "booting"
    BY <2>1 DEF Quiet
  <2> QED
    BY <1>0, <2>1, <2>3, <2>4, StopGoesOn
<1>10. ASSUME NEW c \in Commands, GiveUp(c) PROVE StopInv'
  <2>1. /\ cmd[c].at = "gone?" /\ UnderWay(c) /\ UNCHANGED <<marker, serving, shell, words>>
        /\ \E step : Goes(c, step)
    BY <1>10 DEF GiveUp, Stands, UnderWay
  <2>2. Quiet => cmd[c].kind = "stop" /\ serving'.at # "booting"
    BY <2>1 DEF Quiet
  <2> QED
    BY <1>0, <2>1, <2>2, StopGoesOn DEF words
\* install --no-start ends with the marker, and counts when no start was beside it.
<1>11. ASSUME NEW c \in Commands, MarkOnly(c) PROVE StopInv'
  <2>1. /\ cmd[c].at = "mark only" /\ Goes(c, "over") /\ marker' /\ UNCHANGED <<serving, shell, last>>
        /\ stopped' => stopped \/ (~StartingBeside(c) /\ serving.at = "down")
    BY <1>11 DEF MarkOnly, Stands
  <2>2. cmd[c].kind # "stop" /\ ~Quiet /\ UnderWay(c)
    BY <1>0, <2>1 DEF StartTypes, StopSteps, Quiet, UnderWay
  <2>3. ~stopped /\ \A d \in Commands : ~Stopping(d)
    BY <1>0, <2>2 DEF StopInv
  <2>4. \A d \in Commands : ~Stopping(d)'
    BY <2>1, <2>2, <2>3, StoppedBefore DEF StartInv
  <2>5. ASSUME stopped' PROVE Quiet' /\ serving'.at = "down"
    <3>1. ~StartingBeside(c) /\ serving.at = "down"
      BY <2>1, <2>3, <2>5
    <3>2. cmd'[c].at = "over" /\ \A d \in Commands \ {c} : cmd'[d] = cmd[d]
      BY <1>0, <2>1 DEF Goes, StartTypes
    <3>3. \A d \in Commands : UnderWay(d)' => cmd'[d].kind = "stop"
      BY <3>1, <3>2 DEF StartingBeside, UnderWay
    <3>4. \A s \in Shells : shell'[s] = "prompt"
      BY <2>1, <3>1 DEF StartingBeside
    <3> QED
      BY <2>1, <3>1, <3>3, <3>4 DEF Quiet
  <2> QED
    BY <2>4, <2>5 DEF StopInv
<1>12. ASSUME NEW c \in Commands, Interrupt(c) PROVE StopInv'
  <2>1. UnderWay(c) /\ Goes(c, "over") /\ UNCHANGED <<marker, serving, shell, words>>
    BY <1>12 DEF Interrupt
  <2>2. CASE cmd[c].at = "mark"
    <3>1. \A d \in Commands : Stopping(d)' => Stopping(d)
      BY <1>0, <2>1 DEF Goes, Stopping, StartTypes, Marked, StopSteps, words
    <3>2. Quiet => Quiet'
      BY <1>0, <2>1, QuietEnds DEF Quiet
    <3> QED
      BY <1>0, <2>1, <3>1, <3>2 DEF StopInv, words
  <2>3. CASE cmd[c].at # "mark"
    BY <1>0, <2>1, <2>3, StopGoesOn DEF words, Quiet
  <2> QED
    BY <2>2, <2>3
<1>13. CASE BootsUp \/ Ends
  <2>1. UNCHANGED <<marker, shell, cmd, words>>
    BY <1>13 DEF BootsUp, Ends
  <2>2. serving'.at = "down" \/ (serving.at = "booting" /\ serving'.at = "up")
    BY <1>0, <1>13 DEF BootsUp, Ends, Becomes, StartTypes
  <2>3. Quiet => Quiet' /\ (serving.at = "down" => serving'.at = "down")
    BY <2>1, <2>2 DEF Quiet, UnderWay
  <2> QED
    BY <1>0, <2>1, <2>3 DEF StopInv, Stopping, words
<1> QED
  BY <1>1, <1>2, <1>3, <1>4, <1>5, <1>6, <1>7, <1>8, <1>9, <1>10, <1>11, <1>12, <1>13 DEF StartNext

\* The invariant of starting and stopping is kept.
THEOREM StopIsKept == StartSpec => []StartInv
<1>1. StartInv /\ [StartNext]_startVars => StartInv'
  BY StartStepTypes, StopStep DEF StartInv
<1> QED
  BY StartBegins, <1>1, PTL DEF StartSpec

\* Once a stop has ended well, with no start under way when it set the marker, no daemon is
\* there and the marker stays, whatever prompts come and whatever they have loaded, until the
\* user starts one.
THEOREM StopLasts == StartSpec => []StoppedStaysStopped
<1>1. StartInv => StoppedStaysStopped
  BY DEF StartInv, StopInv, Quiet, StoppedStaysStopped
<1> QED
  BY StopIsKept, <1>1, PTL

-----------------------------------------------------------------------------
(***************************************************************************)
(* FailureMemory for any sessions, commands, limits, clocks and restarts:  *)
(* what is remembered of a failure is what followed it.                    *)
(*                                                                         *)
(* An entry in memory or on disk is true (Told), and stays so because      *)
(* commands only come after those that are done: pruning, sorting and      *)
(* bounding keep entries, a new one is made of a link, and a link is the   *)
(* last command of its session but for those that only looked              *)
(* (Unresolved). The entries of a daemon that runs across a clear are late *)
(* because the links are emptied with them; the file's, while a clear is   *)
(* under way, are not, and it is deleted at its end.                       *)
(***************************************************************************)

Shapes == {Shape[c] : c \in CommandLines}
Entry == [shape : Shapes, times : Nat, seen : Nat, follow : CommandLines, reusable : BOOLEAN]
Finished == [s : Observed, c : CommandLines, ok : BOOLEAN, at : Nat]

\* One entry for each shape.
OfEachOne(list) == \A i, j \in DOMAIN list : i < j => list[i].shape # list[j].shape

\* An entry tells what followed, and of a failure no clear covers.
Told(e) ==
  /\ \E i, j \in DOMAIN done :
       /\ Follows(i, j)
       /\ Shape[done[i].c] = e.shape /\ done[j].c = e.follow
       /\ Shape[done[j].c] # e.shape
       /\ done[j].c \notin Blank \cup Observational
  /\ e.reusable => e.follow \notin Secret

Late(e) == \E i \in DOMAIN done : ~done[i].ok /\ Shape[done[i].c] = e.shape /\ i > since[done[i].s]

TrueList(list) ==
  /\ list \in Seq(Entry) /\ OfEachOne(list)
  /\ \A n \in DOMAIN list : Told(list[n])

LateList(list) == \A n \in DOMAIN list : Late(list[n])

\* A session's unresolved failure is its last command but for those that only looked.
Unresolved(s) ==
  \E i \in DOMAIN done :
    /\ done[i].s = s /\ ~done[i].ok /\ i > since[s]
    /\ Shape[done[i].c] = pending[s].shape /\ done[i].at = pending[s].at
    /\ \A k \in (i + 1)..Len(done) : done[k].s = s => done[k].ok /\ done[k].c \in Observational

MemoryTypes ==
  /\ up \in BOOLEAN /\ loaded \in BOOLEAN /\ crossed \in BOOLEAN
  /\ forgetting \in {"none", "delete"}
  /\ clock \in Nat /\ done \in Seq(Finished)
  /\ since \in [Observed -> Nat] /\ \A s \in Observed : since[s] <= Len(done)
  /\ DOMAIN pending = Observed

MemoryInv ==
  /\ MemoryTypes
  /\ TrueList(entries) /\ Len(entries) <= MaxEntries
  /\ TrueList(OnDisk) /\ Len(OnDisk) <= MaxEntries
  /\ \A s \in Observed : pending[s] # NoFailure => Unresolved(s)
  /\ ~loaded => entries = <<>> /\ \A s \in Observed : pending[s] = NoFailure
  /\ ~up => ~loaded
  /\ ~crossed => LateList(entries) /\ (forgetting = "none" => LateList(OnDisk))

-----------------------------------------------------------------------------
(* Sorting and bounding.                                                     *)

\* As many places as there are entries: every one of them is taken.
LEMMA PlacesAreTaken ==
  ASSUME NEW list \in Seq(Entry), NEW places \in SUBSET DOMAIN list
  PROVE  /\ IsFiniteSet(places) /\ Cardinality(places) \in Nat
         /\ \A k \in 1..Cardinality(places) : \E j \in places : Place(list, places, j) = k
<1> DEFINE n == Cardinality(places)
           Before(j) == {i \in places : Ahead(list, i, j)}
           f == [j \in places |-> Place(list, places, j)]
<1>1. places \in SUBSET Nat /\ \A i \in places : list[i].seen \in Nat
  <2>1. \A i \in places : i \in Nat /\ list[i] \in Entry
    OBVIOUS
  <2> QED
    BY <2>1 DEF Entry
<1>2. IsFiniteSet(DOMAIN list)
  <2>1. DOMAIN list = 1..Len(list) /\ Len(list) \in Nat
    OBVIOUS
  <2> QED
    BY <2>1, FS_Interval
<1>3. IsFiniteSet(places) /\ n \in Nat
  BY <1>2, FS_Subset, FS_CardinalityType
<1>4. \A j \in places : IsFiniteSet(Before(j)) /\ Cardinality(Before(j)) \in Nat
  BY <1>3, FS_Subset, FS_CardinalityType
<1>5. \A j \in places : Place(list, places, j) = Cardinality(Before(j)) + 1
  BY DEF Place
<1>6. ASSUME NEW j \in places PROVE Place(list, places, j) \in 1..n
  <2>1. Before(j) \subseteq places \ {j}
    BY <1>1 DEF Ahead
  <2>2. IsFiniteSet(places \ {j}) /\ Cardinality(places \ {j}) = n - 1
    BY <1>3, FS_RemoveElement
  <2>3. Cardinality(Before(j)) <= n - 1
    BY <2>1, <2>2, FS_Subset
  <2> HIDE DEF n, Before
  <2> QED
    BY <1>3, <1>4, <1>5, <2>3
<1>7. ASSUME NEW i \in places, NEW j \in places, Ahead(list, i, j)
      PROVE  Place(list, places, i) # Place(list, places, j)
  <2>1. Before(i) \subseteq Before(j)
    BY <1>1, <1>7 DEF Ahead
  <2>2. i \in Before(j) /\ i \notin Before(i)
    BY <1>1, <1>7 DEF Ahead
  <2>3. Cardinality(Before(i)) # Cardinality(Before(j))
    BY <1>4, <2>1, <2>2, FS_Subset
  <2> HIDE DEF Before
  <2> QED
    BY <1>4, <1>5, <2>3
<1>8. \A i, j \in places : i # j => Ahead(list, i, j) \/ Ahead(list, j, i)
  BY <1>1 DEF Ahead
<1>9. f \in Injection(places, 1..n)
  BY <1>6, <1>7, <1>8 DEF Injection, IsInjective
<1>10. IsFiniteSet(1..n) /\ Cardinality(1..n) = n
  BY <1>3, FS_Interval
<1>11. f \in Surjection(places, 1..n)
  <2> HIDE DEF f
  <2> QED
    BY <1>9, <1>10, FS_Injection
<1> QED
  BY <1>3, <1>11 DEF Surjection

LEMMA BestIsChosen ==
  ASSUME NEW list \in Seq(Entry), NEW places \in SUBSET DOMAIN list
  PROVE  \E n \in Nat : \E f \in [1..n -> places] :
           /\ n <= MaxEntries /\ Best(list, places) = [k \in 1..n |-> list[f[k]]]
           /\ \A k, l \in 1..n : f[k] = f[l] => k = l
<1> DEFINE all == Cardinality(places)
           n == IF all > MaxEntries THEN MaxEntries ELSE all
           f == [k \in 1..n |-> CHOOSE j \in places : Place(list, places, j) = k]
<1>1. all \in Nat /\ \A k \in 1..all : \E j \in places : Place(list, places, j) = k
  BY PlacesAreTaken
<1> HIDE DEF all
<1>2. n \in Nat /\ n <= MaxEntries /\ n <= all
  BY <1>1, MemoryAssumption
<1>3. \A k \in 1..n : k \in 1..all
  BY <1>1, <1>2
<1>4. Best(list, places) = [k \in 1..n |-> list[f[k]]]
  BY DEF Best, all
<1> HIDE DEF n
<1>5. \A k \in 1..n : f[k] \in places /\ Place(list, places, f[k]) = k
  BY <1>1, <1>3
<1> HIDE DEF f
<1>6. f \in [1..n -> places]
  BY <1>5 DEF f
<1> QED
  BY <1>2, <1>4, <1>5, <1>6

\* Entries of the list, within the bound.
LEMMA BestIsPart ==
  ASSUME NEW list \in Seq(Entry), OfEachOne(list), NEW places \in SUBSET DOMAIN list
  PROVE  LET best == Best(list, places)
         IN  /\ best \in Seq(Entry) /\ OfEachOne(best) /\ Len(best) <= MaxEntries
             /\ \A n \in DOMAIN best : \E m \in DOMAIN list : best[n] = list[m]
<1> DEFINE best == Best(list, places)
<1> DEFINE Chosen(n, f) == /\ n <= MaxEntries /\ best = [k \in 1..n |-> list[f[k]]]
                           /\ \A k, l \in 1..n : f[k] = f[l] => k = l
<1>0. PICK n \in Nat : \E f \in [1..n -> places] : Chosen(n, f)
  BY BestIsChosen
<1>2. PICK f \in [1..n -> places] : Chosen(n, f)
  BY <1>0
<1> HIDE DEF best
<1>3. DOMAIN best = 1..n /\ \A k \in 1..n : best[k] = list[f[k]] /\ f[k] \in DOMAIN list
  BY <1>2
<1>4. best \in Seq(Entry) /\ Len(best) = n
  <2>1. best \in [1..n -> Entry]
    BY <1>2, <1>3
  <2> QED
    BY <2>1
<1>5. OfEachOne(best)
  <2> SUFFICES ASSUME NEW k \in 1..n, NEW l \in 1..n, k < l PROVE best[k].shape # best[l].shape
    BY <1>3 DEF OfEachOne
  <2>1. f[k] # f[l] /\ f[k] \in DOMAIN list /\ f[l] \in DOMAIN list
    BY <1>2
  <2>2. f[k] \in Nat /\ f[l] \in Nat
    BY <2>1
  <2> QED
    BY <1>3, <2>1, <2>2 DEF OfEachOne
<1> QED
  BY <1>2, <1>3, <1>4, <1>5 DEF best

\* What is left of a list is true if the list is.
LEMMA BestIsTrue ==
  ASSUME NEW list, TrueList(list), NEW places \in SUBSET DOMAIN list
  PROVE  /\ TrueList(Best(list, places)) /\ Len(Best(list, places)) <= MaxEntries
         /\ LateList(list) => LateList(Best(list, places))
BY BestIsPart DEF TrueList, LateList

LEMMA EmptyIsTrue ==
  /\ TrueList(<<>>) /\ LateList(<<>>) /\ Len(<<>>) <= MaxEntries
  /\ TrueList(<<>>)' /\ LateList(<<>>)'
<1>1. Len(<<>>) = 0 /\ DOMAIN <<>> = {} /\ <<>> \in Seq(Entry)
  OBVIOUS
<1> QED
  BY <1>1, MemoryAssumption DEF TrueList, LateList, OfEachOne

-----------------------------------------------------------------------------
(* What has been told stays told.                                            *)

\* A command more, or none.
Grows(c) == done' = done \/ done' = Append(done, c)

LEMMA DoneGrows ==
  ASSUME done \in Seq(Finished), NEW c \in Finished, Grows(c)
  PROVE  /\ done' \in Seq(Finished) /\ Len(done) \in Nat /\ Len(done') \in Nat
         /\ Len(done) <= Len(done') /\ Len(done') <= Len(done) + 1
         /\ DOMAIN done = 1..Len(done) /\ DOMAIN done' = 1..Len(done')
         /\ \A i \in DOMAIN done : i \in Nat /\ i \in DOMAIN done' /\ done'[i] = done[i]
         /\ Len(done') # Len(done) => done' = Append(done, c) /\ done'[Len(done')] = c
BY DEF Grows

LEMMA ToldStays ==
  ASSUME done \in Seq(Finished), NEW c \in Finished, Grows(c), NEW e, Told(e)
  PROVE  Told(e)'
<1>1. PICK i \in DOMAIN done, j \in DOMAIN done :
        /\ Follows(i, j)
        /\ Shape[done[i].c] = e.shape /\ done[j].c = e.follow
        /\ Shape[done[j].c] # e.shape
        /\ done[j].c \notin Blank \cup Observational
  BY DEF Told
<1>2. \A k \in DOMAIN done : k \in DOMAIN done' /\ done'[k] = done[k]
  BY DoneGrows
<1>3. \A k \in (i + 1)..(j - 1) : k \in DOMAIN done
  BY DoneGrows
<1>4. Follows(i, j)'
  BY <1>1, <1>2, <1>3 DEF Follows
<1> QED
  BY <1>1, <1>2, <1>4 DEF Told

LEMMA TrueListStays ==
  ASSUME done \in Seq(Finished), NEW c \in Finished, Grows(c), NEW list, TrueList(list)
  PROVE  TrueList(list)'
BY ToldStays DEF TrueList, OfEachOne

LEMMA LateListStays ==
  ASSUME done \in Seq(Finished), NEW c \in Finished, Grows(c), since' = since,
         NEW list, LateList(list)
  PROVE  LateList(list)'
BY DoneGrows DEF LateList, Late

\* A session of which no command ended but one that only looked.
LEMMA UnresolvedStays ==
  ASSUME MemoryTypes, NEW c \in Finished, Grows(c), NEW s \in Observed, Unresolved(s), since' = since,
         pending'[s] = pending[s],
         (done' # done /\ c.s = s) => c.ok /\ c.c \in Observational
  PROVE  Unresolved(s)'
<1>1. PICK i \in DOMAIN done :
        /\ done[i].s = s /\ ~done[i].ok /\ i > since[s]
        /\ Shape[done[i].c] = pending[s].shape /\ done[i].at = pending[s].at
        /\ \A k \in (i + 1)..Len(done) : done[k].s = s => done[k].ok /\ done[k].c \in Observational
  BY DEF Unresolved
<1>2. done \in Seq(Finished)
  BY DEF MemoryTypes
<1>3. \A k \in (i + 1)..Len(done') : k \in (i + 1)..Len(done) \/ (k = Len(done') /\ Len(done') # Len(done))
  BY <1>2, DoneGrows
<1>4. \A k \in (i + 1)..Len(done') : done'[k].s = s => done'[k].ok /\ done'[k].c \in Observational
  <2> SUFFICES ASSUME NEW k \in (i + 1)..Len(done'), done'[k].s = s
               PROVE  done'[k].ok /\ done'[k].c \in Observational
    OBVIOUS
  <2>1. CASE k \in (i + 1)..Len(done)
    <3>1. k \in DOMAIN done /\ done'[k] = done[k]
      BY <1>2, <2>1, DoneGrows
    <3> QED
      BY <1>1, <2>1, <3>1
  <2>2. CASE k = Len(done') /\ Len(done') # Len(done)
    <3>1. done'[k] = c /\ done' # done
      BY <1>2, <2>2, DoneGrows
    <3> QED
      BY <3>1
  <2> QED
    BY <1>3, <2>1, <2>2
<1>5. i \in DOMAIN done' /\ done'[i] = done[i]
  BY <1>2, DoneGrows
<1> QED
  BY <1>1, <1>4, <1>5 DEF Unresolved

\* A failure that is seen again is remembered as before.
LEMMA SeenIsTrue ==
  ASSUME MemoryTypes, NEW list, TrueList(list), NEW shape
  PROVE  /\ TrueList(Seen(list, shape)) /\ Len(Seen(list, shape)) = Len(list)
         /\ LateList(list) => LateList(Seen(list, shape))
<1> DEFINE now == Seen(list, shape)
<1>1. list \in Seq(Entry) /\ clock \in Nat
  BY DEF TrueList, MemoryTypes
<1> DEFINE Alike(e, d) == /\ e \in Entry /\ e.shape = d.shape /\ e.follow = d.follow
                          /\ e.reusable => d.reusable
<1>2a. DOMAIN now = DOMAIN list
  BY DEF Seen
<1>2b. ASSUME NEW i \in DOMAIN list PROVE Alike(now[i], list[i])
  <2>1. list[i] \in Entry
    BY <1>1
  <2>2. CASE list[i].shape = shape
    <3>1. now[i] = [list[i] EXCEPT !.times = list[i].times + 1, !.seen = clock]
      BY <2>2 DEF Seen
    <3>2. now[i] = [shape |-> list[i].shape, times |-> list[i].times + 1, seen |-> clock,
                    follow |-> list[i].follow, reusable |-> list[i].reusable]
      BY <2>1, <3>1 DEF Entry
    <3> QED
      BY <1>1, <2>1, <3>2 DEF Entry
  <2>3. CASE list[i].shape # shape
    BY <2>1, <2>3 DEF Seen
  <2> QED
    BY <2>2, <2>3
<1> HIDE DEF now
<1>2. DOMAIN now = DOMAIN list /\ \A i \in DOMAIN list :
        /\ now[i] \in Entry /\ now[i].shape = list[i].shape /\ now[i].follow = list[i].follow
        /\ now[i].reusable => list[i].reusable
  BY <1>2a, <1>2b
<1>3. now \in Seq(Entry) /\ Len(now) = Len(list)
  <2>1. now \in [1..Len(list) -> Entry]
    <3>1. now = [i \in DOMAIN list |-> now[i]]
      BY DEF now, Seen
    <3> QED
      BY <1>1, <1>2, <3>1
  <2> QED
    BY <1>1, <2>1
<1>4. OfEachOne(now) /\ \A i \in DOMAIN list : Told(now[i])
  BY <1>2 DEF TrueList, OfEachOne, Told
<1>5. LateList(list) => LateList(now)
  BY <1>2 DEF LateList, Late
<1> QED
  BY <1>2, <1>3, <1>4, <1>5 DEF TrueList, now

\* A new follow-up in its place.
LEMMA LearntIsTrue ==
  ASSUME MemoryTypes, NEW list, TrueList(list), NEW shape \in Shapes, NEW c \in CommandLines
  PROVE  /\ Learnt(list, shape, c) \in Seq(Entry) /\ OfEachOne(Learnt(list, shape, c))
         /\ \A n \in DOMAIN Learnt(list, shape, c) :
              \/ \E m \in DOMAIN list : Learnt(list, shape, c)[n] = list[m]
              \/ /\ Learnt(list, shape, c)[n].shape = shape /\ Learnt(list, shape, c)[n].follow = c
                 /\ Learnt(list, shape, c)[n].reusable => c \notin Secret
<1> DEFINE now == Learnt(list, shape, c)
           New(e) == e \in Entry /\ e.shape = shape /\ e.follow = c /\ (e.reusable => c \notin Secret)
           news == [shape |-> shape, times |-> 1, seen |-> clock, follow |-> c,
                    reusable |-> c \notin Secret]
           known == {i \in DOMAIN list : list[i].shape = shape}
<1>1. list \in Seq(Entry) /\ clock \in Nat /\ OfEachOne(list)
  BY DEF TrueList, MemoryTypes
<1>2. \A n \in Nat : New([news EXCEPT !.times = n])
  <2> SUFFICES ASSUME NEW n \in Nat PROVE New([news EXCEPT !.times = n])
    OBVIOUS
  <2>1. [news EXCEPT !.times = n] = [shape |-> shape, times |-> n, seen |-> clock, follow |-> c,
                                     reusable |-> c \notin Secret]
    OBVIOUS
  <2> QED
    BY <1>1, <2>1 DEF Entry
<1>3. New(news)
  BY <1>1 DEF Entry
<1>4. CASE known = {}
  <2>1. now = Append(list, news)
    BY <1>4 DEF Learnt
  <2> HIDE DEF news, now, New, known
  <2>2. news \in Entry /\ news.shape = shape
    BY <1>3 DEF New
  <2>3. /\ now \in Seq(Entry) /\ DOMAIN now = 1..(Len(list) + 1) /\ DOMAIN list = 1..Len(list)
        /\ Len(list) \in Nat
        /\ \A n \in DOMAIN list : now[n] = list[n]
        /\ now[Len(list) + 1] = news
    BY <1>1, <2>1, <2>2
  <2>4. \A n \in DOMAIN list : now[n].shape # shape
    BY <1>4, <2>3 DEF known
  <2>5. OfEachOne(now)
    BY <1>1, <2>2, <2>3, <2>4 DEF OfEachOne
  <2>6. \A n \in DOMAIN now : n \in DOMAIN list \/ n = Len(list) + 1
    BY <2>3
  <2>7. \A n \in DOMAIN now : (\E m \in DOMAIN list : now[n] = list[m]) \/ New(now[n])
    BY <1>3, <2>3, <2>6
  <2> QED
    BY <2>3, <2>5, <2>7 DEF now, New
<1>5. CASE known # {}
  <2>1. known \in SUBSET Nat
    BY <1>1
  <2> HIDE DEF known
  <2>2. \E x \in known : \A y \in known : x <= y
    BY <1>5, <2>1, SmallestRank
  <2>3. PICK i \in known : now = [list EXCEPT ![i] = [news EXCEPT !.times = list[i].times]]
    BY <1>5, <2>2 DEF Learnt, known
  <2>4. i \in DOMAIN list /\ list[i].shape = shape /\ list[i] \in Entry
    BY <1>1, <2>3 DEF known
  <2>5. list[i].times \in Nat
    BY <2>4 DEF Entry
  <2>6. PICK e : e = [news EXCEPT !.times = list[i].times]
    OBVIOUS
  <2> HIDE DEF news, New, now
  <2>7. New(e) /\ now = [list EXCEPT ![i] = e]
    BY <1>2, <2>3, <2>5, <2>6
  <2>8. e \in Entry /\ e.shape = shape
    BY <2>7 DEF New
  <2>9. /\ now \in Seq(Entry) /\ DOMAIN now = DOMAIN list
        /\ \A n \in DOMAIN list : now[n] = IF n = i THEN e ELSE list[n]
    BY <1>1, <2>4, <2>7, <2>8
  <2>10. OfEachOne(now)
    BY <1>1, <2>4, <2>8, <2>9 DEF OfEachOne
  <2>11. \A n \in DOMAIN now : (\E m \in DOMAIN list : now[n] = list[m]) \/ New(now[n])
    BY <2>7, <2>9
  <2> QED
    BY <2>9, <2>10, <2>11 DEF now, New
<1> QED
  BY <1>4, <1>5

-----------------------------------------------------------------------------
(* Step by step.                                                             *)

LEMMA MemoryBegins == MemoryInit => MemoryInv
<1> SUFFICES ASSUME MemoryInit PROVE MemoryInv
  OBVIOUS
<1>1. OnDisk = <<>> /\ entries = <<>>
  BY DEF MemoryInit, OnDisk
<1>2. Len(<<>>) = 0 /\ <<>> \in Seq(Finished)
  OBVIOUS
<1>3. MemoryTypes
  <2>1. done = <<>> /\ \A s \in Observed : since[s] = 0
    BY DEF MemoryInit
  <2>2. done \in Seq(Finished) /\ \A s \in Observed : since[s] <= Len(done)
    BY <1>2, <2>1
  <2> QED
    BY <2>2 DEF MemoryInit, MemoryTypes
<1> QED
  BY <1>1, <1>3, EmptyIsTrue DEF MemoryInit, MemoryInv

\* What a write leaves in the file.
LEMMA Persisted ==
  ASSUME NEW list, Persist(list) \/ PersistFails
  PROVE  OnDisk' \in {list, <<>>, OnDisk}
BY DEF Persist, PersistFails, OnDisk

\* The end of a command, if what it leaves of entries and links is right.
LEMMA FinishedKeeps ==
  ASSUME MemoryInv, NEW c \in Finished, done' = Append(done, c),
         UNCHANGED <<up, loaded, clock, forgetting, since, crossed>>,
         TrueList(entries)', Len(entries') <= MaxEntries,
         ~crossed => LateList(entries)',
         OnDisk' \in {entries', <<>>, OnDisk},
         DOMAIN pending' = Observed,
         \A s \in Observed : pending'[s] # NoFailure => Unresolved(s)',
         ~loaded => entries' = <<>> /\ \A s \in Observed : pending'[s] = NoFailure
  PROVE  MemoryInv'
<1>1. done \in Seq(Finished) /\ Grows(c)
  BY DEF MemoryInv, MemoryTypes, Grows
<1>2. MemoryTypes'
  <2>1. done' \in Seq(Finished) /\ Len(done) <= Len(done') /\ Len(done) \in Nat /\ Len(done') \in Nat
    BY <1>1, DoneGrows
  <2> QED
    BY <2>1 DEF MemoryInv, MemoryTypes
<1>3. TrueList(OnDisk)' /\ Len(OnDisk') <= MaxEntries
  <2>1. OnDisk' = OnDisk => TrueList(OnDisk)' /\ Len(OnDisk') <= MaxEntries
    <3>1. PICK d : d = OnDisk
      OBVIOUS
    <3>2. TrueList(d)' /\ Len(d) <= MaxEntries
      BY <1>1, <3>1, TrueListStays DEF MemoryInv
    <3> QED
      BY <3>1, <3>2
  <2> QED
    BY <2>1, EmptyIsTrue
<1>4. ~crossed /\ forgetting = "none" => LateList(OnDisk)'
  <2> SUFFICES ASSUME ~crossed, forgetting = "none" PROVE LateList(OnDisk)'
    OBVIOUS
  <2>1. OnDisk' = OnDisk => LateList(OnDisk)'
    <3>1. PICK d : d = OnDisk
      OBVIOUS
    <3>2. LateList(d)'
      BY <1>1, <3>1, LateListStays DEF MemoryInv
    <3> QED
      BY <3>1, <3>2
  <2>2. OnDisk' = <<>> => LateList(OnDisk)'
    BY DEF LateList
  <2> QED
    BY <2>1, <2>2
<1> QED
  BY <1>2, <1>3, <1>4 DEF MemoryInv

LEMMA PrunedIsTrue ==
  ASSUME NEW list, TrueList(list), NEW now
  PROVE  /\ TrueList(Pruned(list, now)) /\ Len(Pruned(list, now)) <= MaxEntries
         /\ LateList(list) => LateList(Pruned(list, now))
<1>1. {i \in DOMAIN list : list[i].seen + Retention >= now} \in SUBSET DOMAIN list
  OBVIOUS
<1> QED
  BY <1>1, BestIsTrue DEF Pruned

\* The session's failure is its unresolved one.
LEMMA FailureKeeps ==
  ASSUME MemoryInv, loaded, NEW s \in Observed, NEW c \in CommandLines, ObserveFinished(s, c, FALSE)
  PROVE  MemoryInv'
<1> DEFINE n == Len(done) + 1
<1>1. PICK one : one = [s |-> s, c |-> c, ok |-> FALSE, at |-> clock]
  OBVIOUS
<1>2. PICK kept : kept = Pruned(entries, clock)
  OBVIOUS
<1>3. MemoryTypes /\ TrueList(entries) /\ one \in Finished
  BY <1>1 DEF MemoryInv, MemoryTypes, Finished
<1>4. /\ done' = Append(done, one) /\ ObserveFailure(s, c, kept)
      /\ UNCHANGED <<up, loaded, clock, forgetting, since, crossed>>
  BY <1>1, <1>2 DEF ObserveFinished
<1>5. Grows(one) /\ done \in Seq(Finished)
  BY <1>3, <1>4 DEF Grows, MemoryTypes
<1>6. TrueList(kept) /\ Len(kept) <= MaxEntries /\ (LateList(entries) => LateList(kept))
  BY <1>2, <1>3, PrunedIsTrue
<1>7. PICK now : now = Seen(kept, Shape[c])
  OBVIOUS
<1>8. TrueList(now) /\ Len(now) <= MaxEntries /\ (LateList(kept) => LateList(now))
  BY <1>3, <1>6, <1>7, SeenIsTrue
<1>9. TrueList(now)' /\ (LateList(now) => LateList(now)')
  BY <1>3, <1>4, <1>5, <1>8, TrueListStays, LateListStays
<1>10. entries' = now /\ OnDisk' \in {now, <<>>, OnDisk}
  <2>1. entries' = now
    BY <1>4, <1>7 DEF ObserveFailure
  <2>2. Persist(now) \/ PersistFails
    BY <1>4, <2>1 DEF ObserveFailure, PersistFails
  <2> QED
    BY <2>1, <2>2, Persisted
<1>11. n \in DOMAIN done' /\ n = Len(done') /\ done'[n] = one /\ n \in Nat
  BY <1>3, <1>4, <1>5
<1>12. DOMAIN pending' = Observed
       /\ \A t \in Observed : pending'[t] = IF t = s THEN [shape |-> Shape[c], at |-> clock]
                                            ELSE IF Fresh(pending[t]) THEN pending[t] ELSE NoFailure
  BY <1>4 DEF ObserveFailure
<1>13. ASSUME NEW t \in Observed, pending'[t] # NoFailure PROVE Unresolved(t)'
  <2>1. CASE t = s
    <3>1. pending'[s].shape = Shape[c] /\ pending'[s].at = clock
      BY <1>12
    <3>2. done'[n].s = s /\ ~done'[n].ok /\ done'[n].c = c /\ done'[n].at = clock
      BY <1>1, <1>11
    <3>3. since'[s] = since[s] /\ since[s] <= Len(done) /\ since[s] \in Nat /\ Len(done) \in Nat
      BY <1>3, <1>4, <1>5 DEF MemoryTypes
    <3>4. n > since'[s] /\ \A k \in (n + 1)..Len(done') : FALSE
      BY <1>11, <3>3
    <3> QED
      BY <1>11, <2>1, <3>1, <3>2, <3>4 DEF Unresolved
  <2>2. CASE t # s
    <3>1. pending'[t] = pending[t] /\ Unresolved(t)
      BY <1>12, <1>13, <2>2 DEF MemoryInv
    <3>2. one.s # t
      BY <1>1, <2>2
    <3> QED
      BY <1>3, <1>4, <1>5, <3>1, <3>2, UnresolvedStays
  <2> QED
    BY <2>1, <2>2
<1> QED
  BY <1>3, <1>4, <1>6, <1>8, <1>9, <1>10, <1>12, <1>13, FinishedKeeps DEF MemoryInv

\* A success settles the session's failure, unless it only looked.
LEMMA SuccessKeeps ==
  ASSUME MemoryInv, loaded, NEW s \in Observed, NEW c \in CommandLines, ObserveFinished(s, c, TRUE)
  PROVE  MemoryInv'
<1>0. PICK n, link : n = Len(done) + 1 /\ link = pending[s]
  OBVIOUS
<1>1. PICK one : one = [s |-> s, c |-> c, ok |-> TRUE, at |-> clock]
  OBVIOUS
<1>2. PICK kept : kept = Pruned(entries, clock)
  OBVIOUS
<1>3. MemoryTypes /\ TrueList(entries) /\ one \in Finished
  BY <1>1 DEF MemoryInv, MemoryTypes, Finished
<1>4. /\ done' = Append(done, one) /\ ObserveSuccess(s, c, kept)
      /\ UNCHANGED <<up, loaded, clock, forgetting, since, crossed>>
  BY <1>1, <1>2 DEF ObserveFinished
<1>5. Grows(one) /\ done \in Seq(Finished)
  BY <1>3, <1>4 DEF Grows, MemoryTypes
<1>6. TrueList(kept) /\ Len(kept) <= MaxEntries /\ (LateList(entries) => LateList(kept))
  BY <1>2, <1>3, PrunedIsTrue
<1>7. TrueList(kept)' /\ (LateList(kept) => LateList(kept)')
  BY <1>3, <1>4, <1>5, <1>6, TrueListStays, LateListStays
<1>8. n \in DOMAIN done' /\ n = Len(done') /\ done'[n] = one /\ n \in Nat
  BY <1>0, <1>3, <1>4, <1>5
<1>9. OnDisk' \in {entries', <<>>, OnDisk}
  <2>1. Persist(entries') \/ PersistFails
    BY <1>4 DEF ObserveSuccess, PersistFails
  <2> QED
    BY <2>1 DEF Persist, PersistFails, OnDisk
<1>10. TrueList(entries)' /\ Len(entries') <= MaxEntries /\ (~crossed => LateList(entries)')
  <2>1. CASE ~Learns(link, c)
    <3>1. entries' = kept
      BY <1>0, <1>4, <2>1 DEF ObserveSuccess
    <3> QED
      BY <1>6, <1>7, <3>1 DEF MemoryInv
  <2>2. CASE Learns(link, c)
    <3>1. /\ Fresh(link) /\ link # NoFailure /\ clock <= link.at + Window
          /\ c \notin Observational /\ Shape[c] # link.shape /\ c \notin Blank
      BY <2>2 DEF Learns, Resolves, Fresh
    <3>2. PICK i \in DOMAIN done :
            /\ done[i].s = s /\ ~done[i].ok /\ i > since[s]
            /\ Shape[done[i].c] = link.shape /\ done[i].at = link.at
            /\ \A k \in (i + 1)..Len(done) : done[k].s = s => done[k].ok /\ done[k].c \in Observational
      BY <1>0, <3>1 DEF MemoryInv, Unresolved
    <3>3. i \in DOMAIN done' /\ done'[i] = done[i] /\ i \in Nat /\ i < n
          /\ \A k \in (i + 1)..(n - 1) : k \in (i + 1)..Len(done) /\ done'[k] = done[k]
      <4>1. /\ Len(done) \in Nat /\ n - 1 = Len(done) /\ DOMAIN done = 1..Len(done)
            /\ \A k \in DOMAIN done : k \in DOMAIN done' /\ done'[k] = done[k]
        <5>1. Len(done) \in Nat /\ DOMAIN done = 1..Len(done)
          BY <1>5
        <5>2. n - 1 = Len(done)
          BY <1>0, <5>1
        <5>3. \A k \in DOMAIN done : k \in DOMAIN done' /\ done'[k] = done[k]
          BY <1>3, <1>4, <1>5, DoneGrows
        <5> QED
          BY <5>1, <5>2, <5>3
      <4>2. i \in Nat /\ i < n /\ \A k \in (i + 1)..(n - 1) : k \in (i + 1)..Len(done) /\ k \in DOMAIN done
        <5>1. i \in Nat /\ i < n
          <6>1. i \in 1..Len(done)
            BY <3>2, <4>1
          <6>2. n = Len(done) + 1 /\ Len(done) \in Nat
            BY <1>0, <4>1
          <6> QED
            BY <6>1, <6>2
        <5>2. ASSUME NEW k \in (i + 1)..(n - 1) PROVE k \in (i + 1)..Len(done) /\ k \in DOMAIN done
          BY <4>1, <5>1, <5>2
        <5> QED
          BY <5>1, <5>2
      <4> QED
        BY <4>1, <4>2
    <3>4. done'[n].s = s /\ done'[n].ok /\ done'[n].c = c /\ done'[n].at = clock
      BY <1>1, <1>8
    <3>5. Follows(i, n)'
      <4>0. i < n
        BY <3>3
      <4>1. /\ done'[i].s = done'[n].s /\ ~done'[i].ok /\ done'[n].ok
            /\ done'[n].at <= done'[i].at + Window
        BY <3>1, <3>2, <3>3, <3>4
      <4>2. \A k \in (i + 1)..(n - 1) :
              done'[k].s = done'[i].s => done'[k].ok /\ done'[k].c \in Observational
        BY <3>2, <3>3
      <4> QED
        BY <4>0, <4>1, <4>2, Zenon DEF Follows
    <3>6. PICK shape \in Shapes : shape = link.shape
      <4>1. done[i] \in Finished
        BY <1>5
      <4> QED
        BY <3>2, <4>1 DEF Shapes, Finished
    <3>7. PICK l : l = Learnt(kept, shape, c)
      OBVIOUS
    <3>8. /\ l \in Seq(Entry) /\ OfEachOne(l)
          /\ \A m \in DOMAIN l :
               \/ \E k \in DOMAIN kept : l[m] = kept[k]
               \/ l[m].shape = shape /\ l[m].follow = c /\ (l[m].reusable => c \notin Secret)
      BY <1>3, <1>6, <3>7, LearntIsTrue
    <3>9. ASSUME NEW e, e.shape = shape, e.follow = c, e.reusable => c \notin Secret
          PROVE  Told(e)' /\ Late(e)'
      <4>1. Told(e)'
        <5>1. /\ Shape[done'[i].c] = e.shape /\ done'[n].c = e.follow /\ Shape[done'[n].c] # e.shape
              /\ done'[n].c \notin Blank \cup Observational
          BY <3>1, <3>2, <3>3, <3>4, <3>6, <3>9
        <5>2. i \in DOMAIN done' /\ n \in DOMAIN done'
          BY <1>8, <3>3
        <5> QED
          BY <3>5, <3>9, <5>1, <5>2 DEF Told
      <4>2. Late(e)'
        BY <1>4, <3>2, <3>3, <3>6, <3>9 DEF Late
      <4> QED
        BY <4>1, <4>2
    <3>10. TrueList(l)' /\ (LateList(kept)' => LateList(l)')
      <4>1. \A m \in DOMAIN l : Told(l[m])'
        BY <1>7, <3>8, <3>9 DEF TrueList
      <4>2. LateList(kept)' => \A m \in DOMAIN l : Late(l[m])'
        BY <3>8, <3>9 DEF LateList
      <4> QED
        BY <3>8, <4>1, <4>2 DEF TrueList, LateList, OfEachOne
    <3>11. entries' = Best(l, DOMAIN l)
      BY <1>0, <1>4, <2>2, <3>6, <3>7 DEF ObserveSuccess, SortedAndBounded
    <3>12. TrueList(entries)' /\ Len(entries') <= MaxEntries /\ (LateList(l)' => LateList(entries)')
      <4>1. PICK best : best = Best(l, DOMAIN l)
        OBVIOUS
      <4>2. /\ best \in Seq(Entry) /\ OfEachOne(best) /\ Len(best) <= MaxEntries
            /\ \A m \in DOMAIN best : \E k \in DOMAIN l : best[m] = l[k]
        BY <3>8, <4>1, BestIsPart
      <4>3. TrueList(best)' /\ (LateList(l)' => LateList(best)')
        BY <3>10, <4>2 DEF TrueList, LateList
      <4> QED
        BY <3>11, <4>1, <4>2, <4>3
    <3> QED
      BY <1>6, <1>7, <3>10, <3>12 DEF MemoryInv
  <2> QED
    BY <2>1, <2>2
<1>11. DOMAIN pending' = Observed
       /\ \A t \in Observed : pending'[t] =
            IF (t = s /\ Resolves(link, c)) \/ ~Fresh(pending[t]) THEN NoFailure ELSE pending[t]
  BY <1>0, <1>4 DEF ObserveSuccess
<1>12. ASSUME NEW t \in Observed, pending'[t] # NoFailure PROVE Unresolved(t)'
  <2>1. pending'[t] = pending[t] /\ Unresolved(t) /\ ~(t = s /\ Resolves(link, c)) /\ Fresh(pending[t])
    BY <1>11, <1>12 DEF MemoryInv
  <2>2. one.s = t => one.ok /\ one.c \in Observational
    BY <1>0, <1>1, <2>1 DEF Resolves
  <2> QED
    BY <1>3, <1>4, <1>5, <2>1, <2>2, UnresolvedStays
<1> QED
  BY <1>3, <1>4, <1>9, <1>10, <1>11, <1>12, FinishedKeeps

\* A step at which no command ends.
LEMMA SameDone ==
  ASSUME done' = done, NEW list
  PROVE  /\ TrueList(list) => TrueList(list)'
         /\ since' = since => (LateList(list) => LateList(list)')
BY DEF TrueList, LateList, Told, Late, Follows, OfEachOne

LEMMA QuietKeeps ==
  ASSUME MemoryInv, MemoryTypes', done' = done,
         entries' \in {entries, <<>>}, OnDisk' \in {OnDisk, entries', <<>>},
         \A s \in Observed : pending'[s] \in {pending[s], NoFailure},
         since' = since \/ (entries' = <<>> /\ \A s \in Observed : pending'[s] = NoFailure),
         ~loaded' => entries' = <<>> /\ \A s \in Observed : pending'[s] = NoFailure,
         ~up' => ~loaded', crossed' = crossed,
         forgetting' = "none" => OnDisk' = <<>> \/ (forgetting = "none" /\ since' = since)
  PROVE  MemoryInv'
<1>1. TrueList(entries)' /\ Len(entries') <= MaxEntries /\ (~crossed => LateList(entries)')
  <2>1. CASE entries' = <<>>
    BY <2>1, EmptyIsTrue
  <2>2. CASE entries' = entries /\ entries' # <<>>
    BY <2>2, SameDone DEF MemoryInv
  <2> QED
    BY <2>1, <2>2
<1>2. TrueList(OnDisk)' /\ Len(OnDisk') <= MaxEntries
  <2>1. CASE OnDisk' = OnDisk
    <3>1. PICK d : d = OnDisk
      OBVIOUS
    <3>2. TrueList(d)' /\ Len(d) <= MaxEntries
      BY <3>1, SameDone DEF MemoryInv
    <3> QED
      BY <2>1, <3>1, <3>2
  <2>2. CASE OnDisk' \in {entries', <<>>}
    BY <1>1, <2>2, EmptyIsTrue
  <2> QED
    BY <2>1, <2>2
<1>3. ~crossed /\ forgetting' = "none" => LateList(OnDisk)'
  <2> SUFFICES ASSUME ~crossed, forgetting' = "none" PROVE LateList(OnDisk)'
    OBVIOUS
  <2>1. CASE OnDisk' = OnDisk /\ OnDisk' # <<>>
    <3>1. PICK d : d = OnDisk
      OBVIOUS
    <3>2. LateList(d)'
      BY <2>1, <3>1, SameDone DEF MemoryInv
    <3> QED
      BY <2>1, <3>1, <3>2
  <2>2. CASE OnDisk' = entries'
    BY <1>1, <2>2 DEF LateList
  <2>3. CASE OnDisk' = <<>>
    BY <2>3, EmptyIsTrue
  <2> QED
    BY <2>1, <2>2, <2>3
<1>4. ASSUME NEW s \in Observed, pending'[s] # NoFailure PROVE Unresolved(s)'
  <2>1. pending'[s] = pending[s] /\ Unresolved(s) /\ since' = since
    BY <1>4 DEF MemoryInv
  <2> QED
    BY <2>1 DEF Unresolved
<1> QED
  BY <1>1, <1>2, <1>3, <1>4 DEF MemoryInv

LEMMA StartKeeps == MemoryInv /\ Start => MemoryInv'
<1> SUFFICES ASSUME MemoryInv, Start PROVE MemoryInv'
  OBVIOUS
<1>1. PICK kept : kept = Pruned(OnDisk, clock)
  OBVIOUS
<1>2. /\ TrueList(kept) /\ Len(kept) <= MaxEntries /\ (LateList(OnDisk) => LateList(kept))
  BY <1>1, PrunedIsTrue DEF MemoryInv
<1>3. /\ up' = TRUE /\ pending' = [s \in Observed |-> NoFailure]
      /\ crossed' = (crossed \/ forgetting # "none")
      /\ UNCHANGED <<clock, forgetting, forgets, done, since>>
  BY DEF Start
<1>4. \/ loaded' = TRUE /\ entries' = kept /\ OnDisk' \in {kept, <<>>, OnDisk}
      \/ loaded' = FALSE /\ entries' = <<>> /\ OnDisk' = OnDisk
  BY <1>1 DEF Start, Persist, OnDisk
<1>5. crossed' \in BOOLEAN
  BY <1>3 DEF MemoryInv, MemoryTypes
<1>6. MemoryTypes'
  BY <1>3, <1>4, <1>5 DEF MemoryInv, MemoryTypes
<1>7. PICK d : d = OnDisk
  OBVIOUS
<1>8. /\ TrueList(kept)' /\ TrueList(d)' /\ (LateList(kept) => LateList(kept)')
      /\ (LateList(d) => LateList(d)') /\ Len(d) <= MaxEntries
  BY <1>2, <1>3, <1>7, SameDone DEF MemoryInv
<1>9. entries' \in {kept, <<>>} /\ OnDisk' \in {kept, <<>>, d}
  BY <1>4, <1>7
<1>10. ~crossed' => ~crossed /\ forgetting = "none"
  BY <1>3
<1>11. ~crossed' => LateList(entries)' /\ LateList(OnDisk)'
  BY <1>2, <1>7, <1>8, <1>9, <1>10, EmptyIsTrue DEF MemoryInv
<1>12. /\ TrueList(entries)' /\ Len(entries') <= MaxEntries
       /\ TrueList(OnDisk)' /\ Len(OnDisk') <= MaxEntries
  BY <1>2, <1>8, <1>9, EmptyIsTrue
<1>13. \A s \in Observed : pending'[s] = NoFailure
  BY <1>3
<1>14. ~loaded' => entries' = <<>>
  BY <1>4
<1> QED
  BY <1>3, <1>6, <1>11, <1>12, <1>13, <1>14 DEF MemoryInv

LEMMA MemoryStep == MemoryInv /\ [MemoryNext]_memoryVars => MemoryInv'
<1> SUFFICES ASSUME MemoryInv, [MemoryNext]_memoryVars PROVE MemoryInv'
  OBVIOUS
<1>0. MemoryTypes /\ (~loaded => entries = <<>> /\ \A s \in Observed : pending[s] = NoFailure)
      /\ (~up => ~loaded)
  BY DEF MemoryInv
<1>1. CASE UNCHANGED memoryVars
  <2>1. UNCHANGED <<up, loaded, entries, pending, file, clock, forgetting, forgets, done, since, crossed>>
    BY <1>1 DEF memoryVars, snapshot, memoryGhosts
  <2>2. OnDisk' = OnDisk /\ MemoryTypes'
    BY <1>0, <2>1 DEF OnDisk, MemoryTypes
  <2> QED
    BY <1>0, <2>1, <2>2, QuietKeeps
<1>2. ASSUME NEW s \in Observed, NEW c \in CommandLines, NEW ok \in BOOLEAN, ObserveFinished(s, c, ok)
      PROVE  MemoryInv'
  <2>1. CASE loaded
    <3>1. ok = TRUE \/ ok = FALSE
      OBVIOUS
    <3> QED
      BY <1>2, <2>1, <3>1, FailureKeeps, SuccessKeeps
  <2>2. CASE ~loaded
    <3>1. PICK one : one = [s |-> s, c |-> c, ok |-> ok, at |-> clock]
      OBVIOUS
    <3>2. one \in Finished /\ done \in Seq(Finished)
      BY <1>0, <3>1 DEF MemoryTypes, Finished
    <3>3. /\ done' = Append(done, one)
          /\ UNCHANGED <<up, loaded, entries, pending, file, clock, forgetting, forgets, since, crossed>>
      BY <1>2, <2>2, <3>1 DEF ObserveFinished
    <3>4. Grows(one) /\ OnDisk' = OnDisk
      BY <3>3 DEF Grows, OnDisk
    <3>5. TrueList(entries)' /\ Len(entries') <= MaxEntries /\ LateList(entries)'
      BY <1>0, <2>2, <3>3, EmptyIsTrue
    <3> QED
      BY <1>0, <2>2, <3>2, <3>3, <3>4, <3>5, FinishedKeeps DEF MemoryTypes
  <2> QED
    BY <2>1, <2>2
<1>3. ASSUME NEW s \in Observed, ClearSession(s) PROVE MemoryInv'
  <2>1. /\ UNCHANGED <<up, loaded, entries, file, clock, forgetting, forgets, done, since, crossed>>
        /\ pending' = [pending EXCEPT ![s] = NoFailure]
    BY <1>3 DEF ClearSession, memoryGhosts
  <2>2. OnDisk' = OnDisk /\ MemoryTypes'
        /\ \A t \in Observed : pending'[t] \in {pending[t], NoFailure}
    BY <1>0, <2>1 DEF OnDisk, MemoryTypes
  <2> QED
    BY <1>0, <2>1, <2>2, QuietKeeps
<1>4. ASSUME NEW t \in 0..MaxTime, SetClock(t) PROVE MemoryInv'
  <2>1. UNCHANGED <<up, loaded, entries, pending, file, forgetting, forgets, done, since, crossed>>
        /\ clock' = t
    BY <1>4 DEF SetClock, snapshot, memoryGhosts
  <2>2. OnDisk' = OnDisk /\ MemoryTypes'
    BY <1>0, <2>1, MemoryAssumption DEF OnDisk, MemoryTypes
  <2> QED
    BY <1>0, <2>1, <2>2, QuietKeeps
<1>5. CASE Stop
  <2>1. /\ up' = FALSE /\ loaded' = FALSE /\ entries' = <<>>
        /\ pending' = [s \in Observed |-> NoFailure]
        /\ UNCHANGED <<file, clock, forgetting, forgets, done, since, crossed>>
    BY <1>5 DEF Stop, memoryGhosts
  <2>2. OnDisk' = OnDisk /\ MemoryTypes'
    BY <1>0, <2>1 DEF OnDisk, MemoryTypes
  <2> QED
    BY <1>0, <2>1, <2>2, QuietKeeps
<1>6. CASE AskDaemon
  <2>0. done \in Seq(Finished) /\ Len(done) \in Nat
    BY <1>0 DEF MemoryTypes
  <2>1. UNCHANGED <<up, loaded, clock, done, crossed>> /\ forgetting = "none"
    BY <1>6 DEF AskDaemon
  <2>2. CASE up /\ loaded /\ Emptied /\ forgetting' = "delete" /\ since' = [s \in Observed |-> Len(done)]
    <3>1. entries' = <<>> /\ pending' = [s \in Observed |-> NoFailure] /\ OnDisk' = <<>>
      BY <2>2 DEF Emptied, Persist, OnDisk
    <3>2. MemoryTypes'
      BY <1>0, <2>0, <2>1, <2>2, <3>1 DEF MemoryTypes
    <3> QED
      BY <1>0, <2>1, <2>2, <3>1, <3>2, QuietKeeps
  <2>3. CASE UNCHANGED <<entries, pending, file, forgetting, since>>
    <3>1. OnDisk' = OnDisk /\ MemoryTypes'
      BY <1>0, <2>1, <2>3 DEF OnDisk, MemoryTypes
    <3> QED
      BY <1>0, <2>1, <2>3, <3>1, QuietKeeps
  <2>4. CASE /\ ~(up /\ loaded) /\ forgetting' = "delete"
             /\ since' = [s \in Observed |-> Len(done)] /\ UNCHANGED <<entries, pending, file>>
    <3>1. ~loaded
      BY <1>0, <2>4
    <3>2. OnDisk' = OnDisk /\ MemoryTypes'
      BY <1>0, <2>0, <2>1, <2>4 DEF OnDisk, MemoryTypes
    <3> QED
      BY <1>0, <2>1, <2>4, <3>1, <3>2, QuietKeeps
  <2> QED
    BY <1>6, <2>2, <2>3, <2>4 DEF AskDaemon
<1>7. CASE DeleteFile
  <2>1. /\ UNCHANGED <<up, loaded, entries, pending, clock, forgets, done, since, crossed>>
        /\ forgetting' = "none" /\ OnDisk' = <<>>
    BY <1>7 DEF DeleteFile, snapshot, memoryGhosts, OnDisk
  <2>2. MemoryTypes'
    BY <1>0, <2>1 DEF MemoryTypes
  <2> QED
    BY <1>0, <2>1, <2>2, QuietKeeps
<1>8. CASE StopAndDelete
  <2>1. /\ up' = FALSE /\ loaded' = FALSE /\ entries' = <<>> /\ forgetting' = "delete"
        /\ pending' = [s \in Observed |-> NoFailure] /\ since' = [s \in Observed |-> Len(done)]
        /\ UNCHANGED <<file, clock, done, crossed>>
    BY <1>8 DEF StopAndDelete
  <2>2. done \in Seq(Finished) /\ Len(done) \in Nat
    BY <1>0 DEF MemoryTypes
  <2>3. OnDisk' = OnDisk
    BY <2>1 DEF OnDisk
  <2>4. since' \in [Observed -> Nat] /\ \A s \in Observed : since'[s] <= Len(done)
    BY <2>1, <2>2
  <2>5. MemoryTypes'
    BY <1>0, <2>1, <2>2, <2>4 DEF MemoryTypes
  <2> QED
    BY <1>0, <2>1, <2>3, <2>5, QuietKeeps
<1> QED
  BY <1>1, <1>2, <1>3, <1>4, <1>5, <1>6, <1>7, <1>8, StartKeeps DEF MemoryNext

\* The invariant of the failure memory, its file and its links is kept.
THEOREM MemoryIsKept == MemorySpec => []MemoryInv
BY MemoryBegins, MemoryStep, PTL DEF MemorySpec

\* For any sessions, commands, limits, clocks and restarts: what is remembered of a failure is
\* what followed it, and after a clear nothing that was learnt before it.
THEOREM MemoryIsTrue == MemorySpec => []MemoryTellsTheTruth
<1>1. MemoryInv => MemoryTellsTheTruth
  <2> SUFFICES ASSUME MemoryInv PROVE MemoryTellsTheTruth
    OBVIOUS
  <2>1. MemoryTypeOK
    BY DEF MemoryInv, MemoryTypes, MemoryTypeOK, TrueList, OfEachOne
  <2>2. EntriesTellWhatFollowed
    BY DEF MemoryInv, EntriesTellWhatFollowed, TrueList, Told
  <2>3. ClearedIsForgotten
    BY DEF MemoryInv, ClearedIsForgotten, LateList, Late
  <2> QED
    BY <2>1, <2>2, <2>3 DEF MemoryTellsTheTruth
<1> QED
  BY MemoryIsKept, <1>1, PTL

-----------------------------------------------------------------------------
(* Twin baselines.                                                           *)

IsSeq(s) == \E S : s \in Seq(S)

\* Baselines are of different names, and in the order of the marks they are of.
InMarkedOrder ==
  /\ \A a, b \in DOMAIN baselines : a # b => baselines[a].name # baselines[b].name
  /\ \A a, b \in DOMAIN baselines : \A i, j \in DOMAIN log :
       (/\ a < b /\ IsLastMark(i) /\ IsLastMark(j)
        /\ log[i].name = baselines[a].name /\ log[j].name = baselines[b].name) => i < j

BaselinesInv == IsSeq(log) /\ IsSeq(baselines) /\ BaselinesLast /\ InMarkedOrder

LEMMA PositionIs ==
  ASSUME IsSeq(baselines), NEW name
  PROVE \/ Position(name) = 0 /\ \A i \in DOMAIN baselines : baselines[i].name # name
        \/ /\ Position(name) \in DOMAIN baselines /\ baselines[Position(name)].name = name
<1> DEFINE I == {i \in 1..Len(baselines) : baselines[i].name = name}
<1>0. PICK S : baselines \in Seq(S)
  BY DEF IsSeq
<1>1. Position(name) = IF I # {} THEN CHOOSE x \in I : \A y \in I : x <= y ELSE 0
  BY DEF Position, SelectInSeq, Min
<1>2. I \in SUBSET Nat /\ DOMAIN baselines = 1..Len(baselines)
  BY <1>0
<1>3. I # {} => \E x \in I : \A y \in I : x <= y
  BY <1>2, SmallestRank
<1>4. I # {} => Position(name) \in I
  <2> HIDE DEF I
  <2> QED BY <1>1, <1>3
<1> QED
  BY <1>1, <1>2, <1>4

\* A sequence with one element taken out.
LEMMA Removed ==
  ASSUME NEW S, NEW s \in Seq(S), NEW i \in DOMAIN s
  PROVE  /\ RemoveAt(s, i) \in Seq(S) /\ Len(RemoveAt(s, i)) = Len(s) - 1
         /\ \A k \in DOMAIN RemoveAt(s, i) :
              RemoveAt(s, i)[k] = IF k < i THEN s[k] ELSE s[k + 1]
<1>1. Len(s) \in Nat /\ i \in 1..Len(s)
  OBVIOUS
<1>2. /\ SubSeq(s, 1, i - 1) \in Seq(S) /\ Len(SubSeq(s, 1, i - 1)) = i - 1
      /\ \A k \in 1..(i - 1) : SubSeq(s, 1, i - 1)[k] = s[k]
  BY <1>1
<1>3. /\ SubSeq(s, i + 1, Len(s)) \in Seq(S) /\ Len(SubSeq(s, i + 1, Len(s))) = Len(s) - i
      /\ \A k \in 1..(Len(s) - i) : SubSeq(s, i + 1, Len(s))[k] = s[i + k]
  BY <1>1
<1>4. PICK a \in Seq(S), b \in Seq(S) :
        a = SubSeq(s, 1, i - 1) /\ b = SubSeq(s, i + 1, Len(s))
  BY <1>2, <1>3
<1>5. /\ a \o b \in Seq(S) /\ Len(a \o b) = Len(a) + Len(b)
      /\ \A k \in 1..(Len(a) + Len(b)) : (a \o b)[k] = IF k <= Len(a) THEN a[k] ELSE b[k - Len(a)]
  OBVIOUS
<1>6. RemoveAt(s, i) = a \o b /\ Len(a) = i - 1 /\ Len(b) = Len(s) - i
  BY <1>2, <1>3, <1>4 DEF RemoveAt
<1>7. Len(RemoveAt(s, i)) = Len(s) - 1 /\ DOMAIN RemoveAt(s, i) = 1..(Len(s) - 1)
  BY <1>1, <1>5, <1>6, SMTT(30)
<1>8. ASSUME NEW k \in 1..(Len(s) - 1)
      PROVE  RemoveAt(s, i)[k] = IF k < i THEN s[k] ELSE s[k + 1]
  <2>1. Len(a) + Len(b) = Len(s) - 1 /\ k \in Nat /\ i \in Nat
    BY <1>1, <1>6
  <2>2. (a \o b)[k] = IF k <= Len(a) THEN a[k] ELSE b[k - Len(a)]
    BY <1>5, <2>1
  <2>3. CASE k < i
    <3>1. k \in 1..(i - 1) /\ k <= Len(a)
      BY <1>1, <1>6, <2>1, <2>3
    <3>2. a[k] = s[k]
      BY <1>2, <1>4, <3>1
    <3> QED
      BY <1>6, <2>2, <2>3, <3>1, <3>2
  <2>4. CASE ~(k < i)
    <3>0. PICK la, ls : la = Len(a) /\ ls = Len(s)
      OBVIOUS
    <3>1. /\ k - Len(a) \in 1..(Len(s) - i) /\ i + (k - Len(a)) = k + 1 /\ ~(k <= Len(a))
      <4>1. ls \in Nat /\ i \in Nat /\ k \in Nat /\ la = i - 1 /\ k <= ls - 1 /\ k >= i
        BY <1>1, <1>6, <2>1, <2>4, <3>0
      <4>2. k - la \in 1..(ls - i) /\ i + (k - la) = k + 1 /\ ~(k <= la)
        BY <4>1
      <4> QED
        BY <3>0, <4>2
    <3>2. b[k - Len(a)] = s[i + (k - Len(a))]
      BY <1>3, <1>4, <3>1
    <3> QED
      BY <1>6, <2>2, <2>4, <3>1, <3>2
  <2> QED
    BY <2>3, <2>4
<1> QED
  BY <1>5, <1>6, <1>7, <1>8

-----------------------------------------------------------------------------
(* The log.                                                                  *)

LEMMA LogGrows ==
  ASSUME IsSeq(log), NEW e, log' = Append(log, e)
  PROVE  /\ IsSeq(log)' /\ Len(log) \in Nat
         /\ Len(log) + 1 \in DOMAIN log' /\ log'[Len(log) + 1] = e
         /\ \A i \in DOMAIN log : i \in DOMAIN log' /\ log'[i] = log[i] /\ i \in Nat /\ i < Len(log) + 1
         /\ \A i \in DOMAIN log' : i \in DOMAIN log \/ i = Len(log) + 1
<1>1. PICK S : log \in Seq(S)
  BY DEF IsSeq
<1>2. log \in Seq(S \cup {e})
  BY <1>1
<1>3. log' \in Seq(S \cup {e}) /\ Len(log') = Len(log) + 1 /\ DOMAIN log = 1..Len(log) /\ Len(log) \in Nat
  BY <1>2
<1>4. \A i \in 1..Len(log) : log'[i] = log[i]
  BY <1>2
<1>5. log'[Len(log) + 1] = e
  BY <1>2
<1>6. IsSeq(log)'
  BY <1>3 DEF IsSeq
<1>7. DOMAIN log' = 1..(Len(log) + 1)
  BY <1>3
<1> QED
  BY <1>3, <1>4, <1>5, <1>6, <1>7

\* What a further entry does to the last marks, and to what was marked after.
LEMMA LastMarksThen ==
  ASSUME IsSeq(log), NEW e, log' = Append(log, e), NEW n, n = Len(log) + 1
  PROVE  /\ \A i \in DOMAIN log :
              IsLastMark(i)' <=> IsLastMark(i) /\ e.name # log[i].name /\ e.op # "clear_all"
         /\ IsLastMark(n)' <=> e.op = "mark"
         /\ \A i \in DOMAIN log : /\ MarkedAfter(i) \subseteq MarkedAfter(i)'
                                  /\ e.op = "mark" => e.name \in MarkedAfter(i)'
<1>2. /\ n \in Nat /\ n \in DOMAIN log' /\ log'[n] = e
      /\ \A i \in DOMAIN log : i \in DOMAIN log' /\ log'[i] = log[i] /\ i \in Nat /\ i < n
      /\ \A i \in DOMAIN log' : i \in DOMAIN log \/ i = n
  BY LogGrows
<1>3. ASSUME NEW i \in DOMAIN log
      PROVE  IsLastMark(i)' <=> IsLastMark(i) /\ e.name # log[i].name /\ e.op # "clear_all"
  BY <1>2 DEF IsLastMark
<1>4. IsLastMark(n)' <=> e.op = "mark"
  <2>1. \A j \in DOMAIN log' : ~(j > n)
    BY <1>2
  <2> QED
    BY <1>2, <2>1 DEF IsLastMark
<1>5. ASSUME NEW i \in DOMAIN log
      PROVE  MarkedAfter(i) \subseteq MarkedAfter(i)' /\ (e.op = "mark" => e.name \in MarkedAfter(i)')
  BY <1>2 DEF MarkedAfter
<1> QED
  BY <1>3, <1>4, <1>5

LEMMA MarkedIsFinite ==
  ASSUME NEW s, IsSeq(s), NEW i
  PROVE  IsFiniteSet({s[j].name : j \in {j \in DOMAIN s : j > i /\ s[j].op = "mark"}})
<1>1. DOMAIN s = 1..Len(s) /\ Len(s) \in Nat
  BY DEF IsSeq
<1>2. IsFiniteSet(DOMAIN s)
  BY <1>1, FS_Interval
<1>3. PICK J : J = {j \in DOMAIN s : j > i /\ s[j].op = "mark"}
  OBVIOUS
<1>4. IsFiniteSet(J) /\ J \subseteq DOMAIN s
  BY <1>2, <1>3, FS_Subset
<1>5. PICK f : f = [j \in J |-> s[j].name]
  OBVIOUS
<1>6. f \in Surjection(J, {s[j].name : j \in {j \in DOMAIN s : j > i /\ s[j].op = "mark"}})
  BY <1>3, <1>4, <1>5 DEF Surjection
<1> QED
  BY <1>4, <1>6, FS_Surjection

\* Different names among others are no more than those.
LEMMA NamesAmong ==
  ASSUME NEW T, IsFiniteSet(T), NEW n \in Nat, NEW f, \A a \in 1..n : f[a] \in T,
         \A a, b \in 1..n : a # b => f[a] # f[b]
  PROVE  n <= Cardinality(T)
<1>1. PICK g : g = [a \in 1..n |-> f[a]]
  OBVIOUS
<1>2. g \in Injection(1..n, T)
  BY <1>1 DEF Injection, IsInjective
<1>3. IsFiniteSet(1..n) /\ Cardinality(1..n) = n
  BY FS_Interval
<1> QED
  BY <1>2, <1>3, FS_Injection

-----------------------------------------------------------------------------
(* What is kept of the baselines.                                            *)

\* Some of the baselines, in their order: f says which.
IsPart(kept, f) ==
  /\ IsSeq(kept) /\ f \in [DOMAIN kept -> DOMAIN baselines]
  /\ \A k \in DOMAIN kept : kept[k] = baselines[f[k]]
  /\ \A k, l \in DOMAIN kept : k < l => f[k] < f[l]

\* All but one.
LEMMA RestIsPart ==
  ASSUME IsSeq(baselines), NEW i \in DOMAIN baselines, NEW kept, IsSeq(kept),
         Len(kept) = Len(baselines) - 1,
         \A k \in DOMAIN kept : kept[k] = IF k < i THEN baselines[k] ELSE baselines[k + 1]
  PROVE  \E f : /\ IsPart(kept, f)
                /\ \A m \in DOMAIN baselines : m = i \/ \E k \in DOMAIN kept : f[k] = m
                /\ \A k \in DOMAIN kept : f[k] # i
<1>1. PICK n : n = Len(baselines)
  OBVIOUS
<1>2. n \in Nat /\ i \in Nat /\ DOMAIN baselines = 1..n /\ DOMAIN kept = 1..(n - 1)
  BY <1>1 DEF IsSeq
<1>3. PICK f : f = [k \in DOMAIN kept |-> IF k < i THEN k ELSE k + 1]
  OBVIOUS
<1>4. f \in [DOMAIN kept -> DOMAIN baselines]
  BY <1>2, <1>3
<1>5. \A k \in DOMAIN kept : kept[k] = baselines[f[k]] /\ f[k] # i
  BY <1>2, <1>3
<1>6. \A k, l \in DOMAIN kept : k < l => f[k] < f[l]
  BY <1>2, <1>3
<1>7. ASSUME NEW m \in DOMAIN baselines, m # i PROVE \E k \in DOMAIN kept : f[k] = m
  <2>1. CASE m < i
    BY <1>2, <1>3, <2>1
  <2>2. CASE m > i
    <3>1. m - 1 \in DOMAIN kept /\ ~(m - 1 < i) /\ (m - 1) + 1 = m
      BY <1>2, <2>2
    <3>2. f[m - 1] = m
      BY <1>3, <3>1
    <3> QED
      BY <3>1, <3>2
  <2> QED
    BY <1>2, <1>7, <2>1, <2>2
<1> QED
  BY <1>4, <1>5, <1>6, <1>7 DEF IsPart

\* What is kept is of last marks of the log as it will be, of different names, in order.
KeptInOrder(kept) ==
  /\ \A k \in DOMAIN kept : \E i \in DOMAIN log' :
       IsLastMark(i)' /\ log'[i].name = kept[k].name /\ log'[i].seen = kept[k].seen
  /\ \A a, b \in DOMAIN kept : a # b => kept[a].name # kept[b].name
  /\ \A a, b \in DOMAIN kept : \A i, j \in DOMAIN log' :
       (/\ a < b /\ IsLastMark(i)' /\ IsLastMark(j)'
        /\ log'[i].name = kept[a].name /\ log'[j].name = kept[b].name) => i < j

\* What is kept stays so when another name is marked or cleared.
LEMMA PartStays ==
  ASSUME BaselinesInv, NEW kept, NEW f, IsPart(kept, f), NEW e, log' = Append(log, e),
         e.op # "clear_all", \A k \in DOMAIN kept : kept[k].name # e.name
  PROVE  KeptInOrder(kept)
<1>1. PICK n : n = Len(log) + 1
  OBVIOUS
<1>2. IsSeq(log) /\ BaselinesLast /\ InMarkedOrder
  BY DEF BaselinesInv
<1>3. /\ \A i \in DOMAIN log : i \in DOMAIN log' /\ log'[i] = log[i]
      /\ \A i \in DOMAIN log' : i \in DOMAIN log \/ i = n
      /\ log'[n] = e
  BY <1>1, <1>2, LogGrows
<1>4. \A i \in DOMAIN log :
        IsLastMark(i)' <=> IsLastMark(i) /\ e.name # log[i].name /\ e.op # "clear_all"
  BY <1>1, <1>2, LastMarksThen
<1>5. /\ f \in [DOMAIN kept -> DOMAIN baselines]
      /\ \A k \in DOMAIN kept : kept[k] = baselines[f[k]]
      /\ \A k, l \in DOMAIN kept : k < l => f[k] < f[l]
      /\ DOMAIN kept \subseteq Nat /\ DOMAIN baselines \subseteq Nat
  BY DEF IsPart, IsSeq, BaselinesInv
<1>6. ASSUME NEW k \in DOMAIN kept
      PROVE  \E i \in DOMAIN log' :
               IsLastMark(i)' /\ log'[i].name = kept[k].name /\ log'[i].seen = kept[k].seen
  <2>1. PICK i \in DOMAIN log : IsLastMark(i) /\ log[i].name = kept[k].name /\ log[i].seen = kept[k].seen
    BY <1>2, <1>5 DEF BaselinesLast
  <2>2. IsLastMark(i)'
    BY <1>4, <2>1
  <2> QED
    BY <1>3, <2>1, <2>2
<1>7. ASSUME NEW a \in DOMAIN kept, NEW b \in DOMAIN kept, a # b PROVE kept[a].name # kept[b].name
  <2>1. a < b \/ b < a
    BY <1>5, <1>7
  <2>2. f[a] # f[b] /\ f[a] \in DOMAIN baselines /\ f[b] \in DOMAIN baselines
    BY <1>5, <2>1
  <2> QED
    BY <1>2, <1>5, <2>2 DEF InMarkedOrder
<1>8. ASSUME NEW a \in DOMAIN kept, NEW b \in DOMAIN kept, NEW i \in DOMAIN log', NEW j \in DOMAIN log',
             a < b, IsLastMark(i)', IsLastMark(j)',
             log'[i].name = kept[a].name, log'[j].name = kept[b].name
      PROVE  i < j
  <2>1. i # n /\ j # n
    BY <1>3, <1>8
  <2>2. i \in DOMAIN log /\ j \in DOMAIN log
    BY <1>3, <2>1
  <2>3. IsLastMark(i) /\ IsLastMark(j) /\ log[i].name = baselines[f[a]].name
        /\ log[j].name = baselines[f[b]].name
    BY <1>3, <1>4, <1>5, <1>8, <2>2
  <2>4. f[a] < f[b] /\ f[a] \in DOMAIN baselines /\ f[b] \in DOMAIN baselines
    BY <1>5, <1>8
  <2> QED
    BY <1>2, <2>2, <2>3, <2>4 DEF InMarkedOrder
<1> QED
  BY <1>6, <1>7, <1>8 DEF KeptInOrder

\* A mark: the name is new or was taken out, and the oldest goes if there is no room.
LEMMA MarkKeeps ==
  ASSUME BaselinesInv, NEW kept, NEW f, IsPart(kept, f), NEW b, NEW e,
         e.op = "mark", e.name = b.name, e.seen = b.seen,
         log' = Append(log, e), baselines' = Append(kept, b), Len(kept) < MaxBaselines,
         \A k \in DOMAIN kept : kept[k].name # b.name,
         \/ \A m \in DOMAIN baselines : baselines[m].name = b.name \/ \E k \in DOMAIN kept : f[k] = m
         \/ /\ Len(kept) = MaxBaselines - 1
            /\ \A m \in DOMAIN baselines : m = 1 \/ \E k \in DOMAIN kept : f[k] = m
            /\ \A k \in DOMAIN kept : f[k] # 1
  PROVE  BaselinesInv'
<1>1. PICK n, l : n = Len(log) + 1 /\ l = Len(kept) + 1
  OBVIOUS
<1>2. IsSeq(log) /\ IsSeq(baselines) /\ BaselinesLast /\ InMarkedOrder
  BY DEF BaselinesInv
<1>3. /\ n \in DOMAIN log' /\ log'[n] = e
      /\ \A i \in DOMAIN log : i \in DOMAIN log' /\ log'[i] = log[i] /\ i \in Nat /\ i < n
      /\ \A i \in DOMAIN log' : i \in DOMAIN log \/ i = n
      /\ IsSeq(log)'
  BY <1>1, <1>2, LogGrows
<1>4. /\ \A i \in DOMAIN log : IsLastMark(i)' <=> IsLastMark(i) /\ e.name # log[i].name
      /\ IsLastMark(n)'
      /\ \A i \in DOMAIN log : /\ MarkedAfter(i) \subseteq MarkedAfter(i)'
                               /\ e.name \in MarkedAfter(i)'
  <2>1. e.op = "mark" /\ e.op # "clear_all"
    OBVIOUS
  <2>2. /\ \A i \in DOMAIN log :
             IsLastMark(i)' <=> IsLastMark(i) /\ e.name # log[i].name /\ e.op # "clear_all"
        /\ IsLastMark(n)' <=> e.op = "mark"
        /\ \A i \in DOMAIN log : /\ MarkedAfter(i) \subseteq MarkedAfter(i)'
                                 /\ e.op = "mark" => e.name \in MarkedAfter(i)'
    BY <1>1, <1>2, LastMarksThen
  <2> QED
    BY <2>1, <2>2
<1>5. /\ IsSeq(baselines)' /\ Len(baselines') = l /\ l \in Nat /\ DOMAIN baselines' = 1..l
      /\ baselines'[l] = b /\ l \in DOMAIN baselines'
      /\ \A k \in DOMAIN baselines' : k = l \/ (k \in DOMAIN kept /\ k < l)
      /\ \A k \in DOMAIN kept : k \in DOMAIN baselines' /\ baselines'[k] = kept[k] /\ k \in Nat
  <2>1. PICK S : kept \in Seq(S)
    BY DEF IsPart, IsSeq
  <2>2. kept \in Seq(S \cup {b}) /\ Len(kept) \in Nat /\ DOMAIN kept = 1..Len(kept)
    BY <2>1
  <2>3. /\ baselines' \in Seq(S \cup {b}) /\ Len(baselines') = Len(kept) + 1
        /\ \A k \in 1..Len(kept) : baselines'[k] = kept[k]
        /\ baselines'[Len(kept) + 1] = b
    BY <2>2
  <2>4. DOMAIN baselines' = 1..l /\ l \in Nat
    BY <1>1, <2>2, <2>3
  <2> QED
    BY <1>1, <2>2, <2>3, <2>4 DEF IsSeq
<1>6. /\ \A k \in DOMAIN kept : \E i \in DOMAIN log' :
           IsLastMark(i)' /\ log'[i].name = kept[k].name /\ log'[i].seen = kept[k].seen
      /\ \A c, d \in DOMAIN kept : c # d => kept[c].name # kept[d].name
      /\ \A c, d \in DOMAIN kept : \A i, j \in DOMAIN log' :
           (/\ c < d /\ IsLastMark(i)' /\ IsLastMark(j)'
            /\ log'[i].name = kept[c].name /\ log'[j].name = kept[d].name) => i < j
  <2>1. e.op # "clear_all"
    OBVIOUS
  <2>2. \A k \in DOMAIN kept : kept[k].name # e.name
    OBVIOUS
  <2>3. KeptInOrder(kept)
    BY <2>1, <2>2, PartStays
  <2> QED
    BY <2>3 DEF KeptInOrder
<1>7. ASSUME NEW k \in DOMAIN baselines'
      PROVE  \E i \in DOMAIN log' :
               IsLastMark(i)' /\ log'[i].name = baselines'[k].name /\ log'[i].seen = baselines'[k].seen
  <2>1. CASE k = l
    BY <1>3, <1>4, <1>5, <2>1
  <2>2. CASE k \in DOMAIN kept
    BY <1>5, <1>6, <2>2
  <2> QED
    BY <1>5, <2>1, <2>2
<1>8. \A c, d \in DOMAIN baselines' : c # d => baselines'[c].name # baselines'[d].name
  BY <1>5, <1>6
<1>9. ASSUME NEW c \in DOMAIN baselines', NEW d \in DOMAIN baselines',
             NEW i \in DOMAIN log', NEW j \in DOMAIN log', c < d, IsLastMark(i)', IsLastMark(j)',
             log'[i].name = baselines'[c].name, log'[j].name = baselines'[d].name
      PROVE  i < j
  <2>1. c \in DOMAIN kept
    BY <1>5, <1>9
  <2>2. CASE d \in DOMAIN kept
    BY <1>5, <1>6, <1>9, <2>1, <2>2
  <2>3. CASE d = l
    <3>1. j = n
      BY <1>3, <1>4, <1>5, <1>9, <2>3
    <3>2. i # n
      BY <1>3, <1>5, <1>9, <2>1
    <3> QED
      BY <1>3, <3>1, <3>2
  <2> QED
    BY <1>5, <2>2, <2>3
<1>10. ASSUME NEW i \in DOMAIN log', IsLastMark(i)', Cardinality(MarkedAfter(i)') < MaxBaselines
       PROVE  \E k \in DOMAIN baselines' : baselines'[k].name = log'[i].name
  <2>1. CASE i = n
    BY <1>3, <1>5, <2>1
  <2>2. CASE i \in DOMAIN log
    <3>1. IsLastMark(i) /\ log'[i] = log[i] /\ log[i].name # b.name
      BY <1>3, <1>4, <1>10, <2>2
    <3>2. IsFiniteSet(MarkedAfter(i)')
      <4>1. PICK s : s = log'
        OBVIOUS
      <4>2. IsSeq(s)
        BY <1>3, <4>1
      <4>3. IsFiniteSet({s[j].name : j \in {j \in DOMAIN s : j > i /\ s[j].op = "mark"}})
        BY <4>2, MarkedIsFinite
      <4> QED
        BY <4>1, <4>3, ZenonT(30) DEF MarkedAfter
    <3>3. Cardinality(MarkedAfter(i)) < MaxBaselines
      <4>1. IsFiniteSet(MarkedAfter(i)) /\ Cardinality(MarkedAfter(i)) <= Cardinality(MarkedAfter(i)')
        BY <1>4, <2>2, <3>2, FS_Subset
      <4>2. Cardinality(MarkedAfter(i)) \in Nat /\ Cardinality(MarkedAfter(i)') \in Nat
        BY <3>2, <4>1, FS_CardinalityType
      <4> QED
        BY <1>10, <4>1, <4>2, TwinAssumption
    <3>4. PICK m \in DOMAIN baselines : baselines[m].name = log[i].name
      BY <1>2, <2>2, <3>1, <3>3 DEF BaselinesLast
    <3>5. CASE \E k \in DOMAIN kept : f[k] = m
      BY <1>5, <3>1, <3>4, <3>5 DEF IsPart
    <3>6. CASE /\ Len(kept) = MaxBaselines - 1 /\ m = 1
               /\ \A k \in DOMAIN kept : f[k] # 1
      <4>1. ASSUME NEW k \in DOMAIN kept PROVE kept[k].name \in MarkedAfter(i)'
        <5>1. f[k] \in DOMAIN baselines /\ kept[k] = baselines[f[k]] /\ m < f[k]
          <6>1. f[k] \in DOMAIN baselines /\ kept[k] = baselines[f[k]]
            BY DEF IsPart
          <6>2. \A x \in DOMAIN baselines : x \in Nat /\ x >= 1
            BY <1>2 DEF IsSeq
          <6> QED
            BY <3>6, <6>1, <6>2
        <5>2. PICK j \in DOMAIN log : IsLastMark(j) /\ log[j].name = kept[k].name
          BY <1>2, <5>1 DEF BaselinesLast
        <5>3. i < j
          BY <1>2, <2>2, <3>1, <3>4, <5>1, <5>2 DEF InMarkedOrder
        <5>4. kept[k].name \in MarkedAfter(i)
          BY <1>3, <2>2, <5>2, <5>3 DEF MarkedAfter, IsLastMark
        <5> QED
          BY <1>4, <2>2, <5>4
      <4>2. PICK T, g : T = MarkedAfter(i)' /\ g = [k \in 1..l |-> baselines'[k].name]
        OBVIOUS
      <4>3. \A k \in 1..l : g[k] \in T
        BY <1>4, <1>5, <2>2, <4>1, <4>2
      <4>4. \A c, d \in 1..l : c # d => g[c] # g[d]
        BY <1>5, <1>8, <4>2
      <4>5. l <= Cardinality(T)
        <5>1. IsFiniteSet(T)
          BY <3>2, <4>2
        <5> QED
          BY <1>5, <4>3, <4>4, <5>1, NamesAmong
      <4>6. l = MaxBaselines
        BY <1>1, <3>6, TwinAssumption
      <4>7. Cardinality(T) \in Nat /\ Cardinality(T) < MaxBaselines
        BY <1>10, <3>2, <4>2, FS_CardinalityType
      <4> QED
        BY <4>5, <4>6, <4>7, TwinAssumption
    <3> QED
      BY <3>1, <3>4, <3>5, <3>6
  <2> QED
    BY <1>3, <2>1, <2>2
<1>11. Len(baselines') <= MaxBaselines
  BY <1>1, <1>5, TwinAssumption DEF IsPart, IsSeq
<1>12. BaselinesLast'
  BY <1>7, <1>10, <1>11 DEF BaselinesLast
<1>13. InMarkedOrder'
  BY <1>8, <1>9 DEF InMarkedOrder
<1> QED
  BY <1>3, <1>5, <1>12, <1>13 DEF BaselinesInv

\* A clear of one name, present or not.
LEMMA ClearKeeps ==
  ASSUME BaselinesInv, NEW kept, NEW f, IsPart(kept, f), NEW e, e.op = "clear",
         log' = Append(log, e), baselines' = kept, Len(kept) <= MaxBaselines,
         \A k \in DOMAIN kept : kept[k].name # e.name,
         \A m \in DOMAIN baselines : baselines[m].name = e.name \/ \E k \in DOMAIN kept : f[k] = m
  PROVE  BaselinesInv'
<1>1. PICK n : n = Len(log) + 1
  OBVIOUS
<1>2. IsSeq(log) /\ IsSeq(baselines) /\ BaselinesLast /\ InMarkedOrder
  BY DEF BaselinesInv
<1>3. /\ \A i \in DOMAIN log : log'[i] = log[i]
      /\ \A i \in DOMAIN log' : i \in DOMAIN log \/ i = n
      /\ IsSeq(log)'
  BY <1>1, <1>2, LogGrows
<1>4. /\ \A i \in DOMAIN log : IsLastMark(i)' => IsLastMark(i) /\ e.name # log[i].name
      /\ ~IsLastMark(n)'
      /\ \A i \in DOMAIN log : MarkedAfter(i) \subseteq MarkedAfter(i)'
  <2>1. e.op # "mark"
    OBVIOUS
  <2>2. /\ \A i \in DOMAIN log :
             IsLastMark(i)' <=> IsLastMark(i) /\ e.name # log[i].name /\ e.op # "clear_all"
        /\ IsLastMark(n)' <=> e.op = "mark"
        /\ \A i \in DOMAIN log : /\ MarkedAfter(i) \subseteq MarkedAfter(i)'
                                 /\ e.op = "mark" => e.name \in MarkedAfter(i)'
    BY <1>1, <1>2, LastMarksThen
  <2> QED
    BY <2>1, <2>2
<1>5. /\ \A k \in DOMAIN kept : \E i \in DOMAIN log' :
           IsLastMark(i)' /\ log'[i].name = kept[k].name /\ log'[i].seen = kept[k].seen
      /\ \A c, d \in DOMAIN kept : c # d => kept[c].name # kept[d].name
      /\ \A c, d \in DOMAIN kept : \A i, j \in DOMAIN log' :
           (/\ c < d /\ IsLastMark(i)' /\ IsLastMark(j)'
            /\ log'[i].name = kept[c].name /\ log'[j].name = kept[d].name) => i < j
  <2>1. e.op # "clear_all"
    OBVIOUS
  <2>2. KeptInOrder(kept)
    BY <2>1, PartStays
  <2> QED
    BY <2>2 DEF KeptInOrder
<1>6. ASSUME NEW i \in DOMAIN log', IsLastMark(i)', Cardinality(MarkedAfter(i)') < MaxBaselines
      PROVE  \E k \in DOMAIN kept : kept[k].name = log'[i].name
  <2>1. i \in DOMAIN log /\ IsLastMark(i) /\ e.name # log[i].name /\ log'[i] = log[i]
    BY <1>3, <1>4, <1>6
  <2>2. IsFiniteSet(MarkedAfter(i)')
    <3>1. PICK s : s = log'
      OBVIOUS
    <3>2. IsSeq(s)
      BY <1>3, <3>1
    <3>3. IsFiniteSet({s[j].name : j \in {j \in DOMAIN s : j > i /\ s[j].op = "mark"}})
      BY <3>2, MarkedIsFinite
    <3> QED
      BY <3>1, <3>3 DEF MarkedAfter
  <2>3. Cardinality(MarkedAfter(i)) < MaxBaselines
    <3>1. IsFiniteSet(MarkedAfter(i)) /\ Cardinality(MarkedAfter(i)) <= Cardinality(MarkedAfter(i)')
      BY <1>4, <2>1, <2>2, FS_Subset
    <3>2. Cardinality(MarkedAfter(i)) \in Nat /\ Cardinality(MarkedAfter(i)') \in Nat
      BY <2>2, <3>1, FS_CardinalityType
    <3> QED
      BY <1>6, <3>1, <3>2, TwinAssumption
  <2>4. PICK m \in DOMAIN baselines : baselines[m].name = log[i].name
    BY <1>2, <2>1, <2>3 DEF BaselinesLast
  <2>5. PICK k \in DOMAIN kept : f[k] = m
    BY <2>1, <2>4
  <2>6. kept[k] = baselines[m]
    BY <2>5 DEF IsPart
  <2> QED
    BY <2>1, <2>4, <2>6
<1>7. IsSeq(kept)
  BY DEF IsPart
<1>8. IsSeq(baselines)'
  BY <1>7 DEF IsSeq
<1>9. BaselinesLast'
  BY <1>5, <1>6 DEF BaselinesLast
<1>10. InMarkedOrder'
  BY <1>5 DEF InMarkedOrder
<1> QED
  BY <1>3, <1>8, <1>9, <1>10 DEF BaselinesInv

\* Nothing is kept and nothing in the log is a last mark.
LEMMA NothingKept ==
  ASSUME IsSeq(log)', baselines' = <<>>, \A i \in DOMAIN log' : ~IsLastMark(i)'
  PROVE  BaselinesInv'
<1>1. baselines' \in Seq({}) /\ DOMAIN baselines' = {} /\ Len(baselines') = 0
  OBVIOUS
<1>2. IsSeq(baselines)'
  BY <1>1 DEF IsSeq
<1>3. BaselinesLast'
  BY <1>1, TwinAssumption DEF BaselinesLast
<1>4. InMarkedOrder'
  BY <1>1 DEF InMarkedOrder
<1> QED
  BY <1>2, <1>3, <1>4 DEF BaselinesInv

\* A clear of everything, of this command or of the data.
LEMMA AllCleared ==
  ASSUME BaselinesInv, NEW e, e.op = "clear_all", log' = Append(log, e), baselines' = <<>>
  PROVE  BaselinesInv'
<1>1. PICK n : n = Len(log) + 1
  OBVIOUS
<1>2. IsSeq(log)
  BY DEF BaselinesInv
<1>3. IsSeq(log)' /\ \A i \in DOMAIN log' : i \in DOMAIN log \/ i = n
  BY <1>1, <1>2, LogGrows
<1>4. e.op # "mark"
  OBVIOUS
<1>5. /\ \A i \in DOMAIN log :
           IsLastMark(i)' <=> IsLastMark(i) /\ e.name # log[i].name /\ e.op # "clear_all"
      /\ IsLastMark(n)' <=> e.op = "mark"
  BY <1>1, <1>2, LastMarksThen
<1>6. \A i \in DOMAIN log' : ~IsLastMark(i)'
  BY <1>3, <1>4, <1>5
<1> QED
  BY <1>3, <1>6, NothingKept

-----------------------------------------------------------------------------
\* All of them.
LEMMA AllIsPart ==
  ASSUME IsSeq(baselines)
  PROVE  \E f : IsPart(baselines, f) /\ \A m \in DOMAIN baselines : f[m] = m
<1>1. PICK f : f = [k \in DOMAIN baselines |-> k]
  OBVIOUS
<1> QED
  BY <1>1 DEF IsPart

\* All but that of a name.
LEMMA OthersArePart ==
  ASSUME BaselinesInv, NEW i \in DOMAIN baselines
  PROVE  \E f : /\ IsPart(RemoveAt(baselines, i), f)
                /\ Len(RemoveAt(baselines, i)) = Len(baselines) - 1
                /\ \A m \in DOMAIN baselines :
                     m = i \/ \E k \in DOMAIN RemoveAt(baselines, i) : f[k] = m
                /\ \A k \in DOMAIN RemoveAt(baselines, i) :
                     RemoveAt(baselines, i)[k].name # baselines[i].name
<1>1. IsSeq(baselines) /\ InMarkedOrder
  BY DEF BaselinesInv
<1>2. PICK S : baselines \in Seq(S)
  BY <1>1 DEF IsSeq
<1>3. PICK kept : kept = RemoveAt(baselines, i)
  OBVIOUS
<1>4. /\ kept \in Seq(S) /\ Len(kept) = Len(baselines) - 1
      /\ \A k \in DOMAIN kept : kept[k] = IF k < i THEN baselines[k] ELSE baselines[k + 1]
  BY <1>2, <1>3, Removed
<1>5. IsSeq(kept)
  BY <1>4 DEF IsSeq
<1>6. PICK f : /\ IsPart(kept, f)
               /\ \A m \in DOMAIN baselines : m = i \/ \E k \in DOMAIN kept : f[k] = m
               /\ \A k \in DOMAIN kept : f[k] # i
  BY <1>1, <1>4, <1>5, RestIsPart
<1>7. \A k \in DOMAIN kept : kept[k].name # baselines[i].name
  BY <1>1, <1>6 DEF IsPart, InMarkedOrder
<1> QED
  BY <1>3, <1>4, <1>6, <1>7

LEMMA MarkStep ==
  ASSUME BaselinesInv, NEW b, NEW e, e.op = "mark", e.name = b.name, e.seen = b.seen,
         log' = Append(log, e), baselines' = WithMark(b)
  PROVE  BaselinesInv'
<1>1. PICK i, n : i = Position(b.name) /\ n = Len(baselines)
  OBVIOUS
<1>2. IsSeq(baselines) /\ n \in Nat /\ DOMAIN baselines = 1..n /\ n <= MaxBaselines
      /\ MaxBaselines \in Nat /\ MaxBaselines > 0
  BY <1>1, TwinAssumption DEF BaselinesInv, IsSeq, BaselinesLast
<1>3. \/ i = 0 /\ \A m \in DOMAIN baselines : baselines[m].name # b.name
      \/ i \in DOMAIN baselines /\ baselines[i].name = b.name
  BY <1>1, <1>2, PositionIs
<1>4. CASE i \in DOMAIN baselines /\ baselines[i].name = b.name
  <2>1. PICK kept : kept = RemoveAt(baselines, i)
    OBVIOUS
  <2>2. PICK f : /\ IsPart(kept, f) /\ Len(kept) = n - 1
                 /\ \A m \in DOMAIN baselines : m = i \/ \E k \in DOMAIN kept : f[k] = m
                 /\ \A k \in DOMAIN kept : kept[k].name # b.name
    BY <1>1, <1>4, <2>1, OthersArePart
  <2>3. i # 0
    BY <1>2, <1>4
  <2>4. baselines' = Append(kept, b)
    BY <1>1, <2>1, <2>3 DEF WithMark
  <2>5. Len(kept) < MaxBaselines
    BY <1>2, <2>2
  <2>6. \A m \in DOMAIN baselines : baselines[m].name = b.name \/ \E k \in DOMAIN kept : f[k] = m
    BY <1>4, <2>2
  <2> QED
    BY <2>2, <2>4, <2>5, <2>6, MarkKeeps, SMTT(30)
<1>5. CASE i = 0 /\ n < MaxBaselines
  <2>1. PICK f : IsPart(baselines, f) /\ \A m \in DOMAIN baselines : f[m] = m
    BY <1>2, AllIsPart
  <2>2. ~(n >= MaxBaselines)
    BY <1>2, <1>5
  <2>3. baselines' = Append(baselines, b)
    BY <1>1, <1>5, <2>2 DEF WithMark
  <2>4. \A m \in DOMAIN baselines : baselines[m].name # b.name
    BY <1>2, <1>3, <1>5
  <2>5. PICK kept : kept = baselines
    OBVIOUS
  <2>6. /\ IsPart(kept, f) /\ baselines' = Append(kept, b) /\ Len(kept) < MaxBaselines
        /\ \A k \in DOMAIN kept : kept[k].name # b.name
        /\ \A m \in DOMAIN baselines : \E k \in DOMAIN kept : f[k] = m
    BY <1>1, <1>5, <2>1, <2>3, <2>4, <2>5
  <2> QED
    BY <2>6, MarkKeeps
<1>6. CASE i = 0 /\ n >= MaxBaselines
  <2>1. n = MaxBaselines /\ 1 \in DOMAIN baselines
    BY <1>2, <1>6
  <2>2. PICK kept : kept = Tail(baselines)
    OBVIOUS
  <2>3. /\ IsSeq(kept) /\ Len(kept) = n - 1
        /\ \A k \in DOMAIN kept : kept[k] = baselines[k + 1] /\ ~(k < 1)
    <3>1. PICK S : baselines \in Seq(S)
      BY <1>2 DEF IsSeq
    <3>2. baselines # <<>>
      BY <2>1
    <3>3. /\ kept \in Seq(S) /\ Len(kept) = n - 1 /\ DOMAIN kept = 1..(n - 1)
          /\ \A k \in 1..(n - 1) : kept[k] = baselines[k + 1]
      BY <1>1, <2>2, <3>1, <3>2
    <3>4. \A k \in 1..(n - 1) : ~(k < 1)
      BY <1>2
    <3> QED
      BY <3>3, <3>4 DEF IsSeq
  <2>4. PICK f : /\ IsPart(kept, f)
                 /\ \A m \in DOMAIN baselines : m = 1 \/ \E k \in DOMAIN kept : f[k] = m
                 /\ \A k \in DOMAIN kept : f[k] # 1
    BY <1>1, <1>2, <2>1, <2>3, RestIsPart
  <2>5. baselines' = Append(kept, b)
    BY <1>1, <1>6, <2>2 DEF WithMark
  <2>6. Len(kept) = MaxBaselines - 1 /\ Len(kept) < MaxBaselines
    BY <1>2, <2>1, <2>3
  <2>7. \A k \in DOMAIN kept : kept[k].name # b.name
    BY <1>2, <1>3, <1>6, <2>4 DEF IsPart
  <2> QED
    BY <2>4, <2>5, <2>6, <2>7, MarkKeeps
<1> QED
  BY <1>2, <1>3, <1>4, <1>5, <1>6

LEMMA ClearStep ==
  ASSUME BaselinesInv, NEW e, e.op = "clear", log' = Append(log, e), baselines' = Cleared(e.name)
  PROVE  BaselinesInv'
<1>1. PICK i, n : i = Position(e.name) /\ n = Len(baselines)
  OBVIOUS
<1>2. IsSeq(baselines) /\ n \in Nat /\ DOMAIN baselines = 1..n /\ n <= MaxBaselines
      /\ MaxBaselines \in Nat
  BY <1>1, TwinAssumption DEF BaselinesInv, IsSeq, BaselinesLast
<1>3. \/ i = 0 /\ \A m \in DOMAIN baselines : baselines[m].name # e.name
      \/ i \in DOMAIN baselines /\ baselines[i].name = e.name
  BY <1>1, <1>2, PositionIs
<1>4. CASE i = 0 /\ \A m \in DOMAIN baselines : baselines[m].name # e.name
  <2>1. PICK f : IsPart(baselines, f) /\ \A m \in DOMAIN baselines : f[m] = m
    BY <1>2, AllIsPart
  <2>2. PICK kept : kept = baselines
    OBVIOUS
  <2>3. /\ IsPart(kept, f) /\ baselines' = kept /\ Len(kept) <= MaxBaselines
        /\ \A k \in DOMAIN kept : kept[k].name # e.name
        /\ \A m \in DOMAIN baselines : \E k \in DOMAIN kept : f[k] = m
    BY <1>1, <1>2, <1>4, <2>1, <2>2 DEF Cleared
  <2> QED
    BY <2>3, ClearKeeps
<1>5. CASE i \in DOMAIN baselines /\ baselines[i].name = e.name
  <2>1. PICK kept : kept = RemoveAt(baselines, i)
    OBVIOUS
  <2>2. PICK f : /\ IsPart(kept, f) /\ Len(kept) = n - 1
                 /\ \A m \in DOMAIN baselines : m = i \/ \E k \in DOMAIN kept : f[k] = m
                 /\ \A k \in DOMAIN kept : kept[k].name # e.name
    BY <1>1, <1>5, <2>1, OthersArePart
  <2>3. i # 0
    BY <1>2, <1>5
  <2>4. baselines' = kept
    BY <1>1, <2>1, <2>3 DEF Cleared
  <2>5. Len(kept) <= MaxBaselines
    BY <1>2, <2>2
  <2>6. \A m \in DOMAIN baselines : baselines[m].name = e.name \/ \E k \in DOMAIN kept : f[k] = m
    BY <1>5, <2>2
  <2> QED
    BY <2>2, <2>4, <2>5, <2>6, ClearKeeps
<1> QED
  BY <1>3, <1>4, <1>5

LEMMA BaselinesSame == BaselinesInv /\ baselines' = baselines /\ log' = log => BaselinesInv'
BY DEF BaselinesInv, BaselinesLast, InMarkedOrder, IsLastMark, MarkedAfter, IsSeq

LEMMA HandleKeepsBaselines ==
  ASSUME BaselinesInv, NEW r, Handle(r)
  PROVE  BaselinesInv'
<1>1. PICK outcome, e :
        /\ e = [op |-> r.op, name |-> r.name, seen |-> r.seen]
        /\ baselines' = CASE r.op = "mark" /\ outcome # <<"refused">> -> WithMark(Baselined(r))
                          [] r.op = "clear" /\ outcome # <<"refused">> -> Cleared(r.name)
                          [] r.op = "clear_all" /\ outcome # <<"refused">> -> <<>>
                          [] OTHER -> baselines
        /\ log' = IF r.op \in {"mark", "clear", "clear_all"} /\ outcome # <<"refused">> THEN Append(log, e) ELSE log
  BY Zenon DEF Handle
<1>2. CASE r.op = "mark" /\ outcome # <<"refused">>
  <2>1. PICK b : b = Baselined(r)
    OBVIOUS
  <2>2. baselines' = WithMark(b) /\ log' = Append(log, e)
    BY <1>1, <1>2, <2>1
  <2>3. e.op = "mark" /\ e.name = b.name /\ e.seen = b.seen
    BY <1>1, <1>2, <2>1 DEF Baselined
  <2> QED
    BY <2>2, <2>3, MarkStep
<1>3. CASE r.op = "clear" /\ outcome # <<"refused">>
  <2>1. baselines' = Cleared(r.name) /\ log' = Append(log, e)
    BY <1>1, <1>3
  <2>2. e.op = "clear" /\ e.name = r.name
    BY <1>1, <1>3
  <2> QED
    BY <2>1, <2>2, ClearStep
<1>4. CASE r.op = "clear_all" /\ outcome # <<"refused">>
  <2>1. baselines' = <<>> /\ log' = Append(log, e) /\ e.op = "clear_all"
    BY <1>1, <1>4
  <2> QED
    BY <2>1, AllCleared
<1>5. CASE outcome = <<"refused">> \/ r.op \notin {"mark", "clear", "clear_all"}
  <2>1. baselines' = baselines /\ log' = log
    BY <1>1, <1>5
  <2> QED
    BY <2>1, BaselinesSame
<1> QED
  BY <1>2, <1>3, <1>4, <1>5

LEMMA TwinStep == BaselinesInv /\ [TwinNext]_twinVars => BaselinesInv'
<1> SUFFICES ASSUME BaselinesInv, [TwinNext]_twinVars PROVE BaselinesInv'
  OBVIOUS
<1>1. CASE \E r \in sent : Handle(r)
  BY <1>1, HandleKeepsBaselines
<1>2. CASE ClearData
  <2>1. PICK e : e = [op |-> "clear_all", name |-> "", seen |-> Nothing]
    OBVIOUS
  <2>2. e.op = "clear_all" /\ log' = Append(log, e) /\ baselines' = <<>>
    BY <1>2, <2>1 DEF ClearData
  <2> QED
    BY <2>2, AllCleared
<1>3. CASE Restart
  <2>1. log' = <<>> /\ baselines' = <<>>
    BY <1>3 DEF Restart
  <2>2. log' \in Seq({}) /\ DOMAIN log' = {}
    BY <2>1
  <2> QED
    BY <2>1, <2>2, NothingKept DEF IsSeq
<1>4. CASE UNCHANGED <<baselines, log>>
  BY <1>4, BaselinesSame
<1>5. CASE \E t \in Terminals :
             \/ \E op \in {"mark", "diff", "clear"}, name \in Names : RunTwin(t, op, name)
             \/ \E op \in {"list", "clear_all"} : RunTwin(t, op, "")
             \/ CollectTools(t) \/ FindGit(t) \/ ReadHead(t) \/ Send(t) \/ StopWaiting(t)
  BY <1>4, <1>5 DEF RunTwin, CollectTools, FindGit, ReadHead, Send, StopWaiting
<1>6. CASE Change
  BY <1>4, <1>6 DEF Change
<1>7. CASE UNCHANGED twinVars
  BY <1>4, <1>7 DEF twinVars
<1> QED
  BY <1>1, <1>2, <1>3, <1>5, <1>6, <1>7 DEF TwinNext

\* The inductive invariant of the baselines: those kept are of different names, in
\* the order of the last marks of these names in the log.
THEOREM BaselinesAreInOrder == TwinSpec => []BaselinesInv
<1>1. TwinInit => BaselinesInv
  <2> SUFFICES ASSUME TwinInit PROVE BaselinesInv
    OBVIOUS
  <2>1. log = <<>> /\ baselines = <<>>
    BY DEF TwinInit
  <2>2. log \in Seq({}) /\ DOMAIN log = {} /\ baselines \in Seq({}) /\ DOMAIN baselines = {}
        /\ Len(baselines) = 0
    BY <2>1
  <2> QED
    BY <2>2, TwinAssumption DEF BaselinesInv, IsSeq, BaselinesLast, InMarkedOrder
<1> QED
  BY <1>1, TwinStep, PTL DEF TwinSpec

\* For every number of terminals, names and runs, and every number of baselines
\* kept: a baseline is what its name was last marked with, and stays until it is
\* marked again or cleared or as many others are marked after it as are kept
\* (SessionState::mark_twin_baseline, clear_twin_baseline).
THEOREM BaselinesStay == TwinSpec => []BaselinesLast
<1>1. BaselinesInv => BaselinesLast
  BY DEF BaselinesInv
<1> QED
  BY <1>1, BaselinesAreInOrder, PTL

-----------------------------------------------------------------------------
(* What a snapshot says is what was there.                                   *)

\* What a snapshot holds of a repository.
HeadOf(home, git) ==
  IF git = Nothing THEN [repository |-> Nothing, branch |-> Nothing, detached |-> Nothing]
  ELSE IF git[2] = "damaged" THEN [repository |-> Nothing, branch |-> Nothing, detached |-> Nothing]
  ELSE IF git[2] \in Commits
  THEN [repository |-> Normal(home, git[1]), branch |-> Nothing, detached |-> <<"yes">>]
  ELSE [repository |-> Normal(home, git[1]), branch |-> <<git[2]>>, detached |-> <<"no">>]

ATool(run) == run = Nothing \/ \E d \in Dirs : run = <<d>>
AHead(git) == git = Nothing \/ \E p \in AllPlaces, h \in Heads \ {"none"} : git = <<p, h>>

\* A snapshot says what was there.
Describes(seen, true) ==
  /\ ATool(true[1]) /\ AHead(true[2]) /\ true = <<true[1], true[2], true[3]>>
  /\ seen.tool = <<"resolved">> \o true[1]
  /\ \A f \in Git : seen[f] = HeadOf(true[3], true[2])[f]

Parts == {"at", "op", "name", "env", "seen", "true", "steady", "found"}
Ops == {"mark", "diff", "clear", "list", "clear_all"}

\* A run has collected so far what was and, the machine unchanged since, is there.
Collected(c) ==
  /\ DOMAIN c = Parts /\ c.op \in Ops
  /\ c.at \in {"collecting", "searching", "reading"} => c.env \in Environments
  /\ c.at \in {"searching", "reading"} =>
       /\ "tool" \in DOMAIN c.seen
       /\ c.steady => c.true = Truth(c.env) /\ c.seen.tool = <<"resolved">> \o Runs(c.env)
  /\ c.at = "reading" /\ c.steady =>
       c.found = IF Above(c.env) = {} THEN Nothing ELSE <<Nearest(c.env)>>
  /\ c.at = "ready" /\ c.op \in {"mark", "diff"} /\ c.steady => Describes(c.seen, c.true)

Faithful(r) == r.op \in {"mark", "diff"} /\ r.steady => Describes(r.seen, r.true)

RunsAreFaithful == DOMAIN twins = Terminals /\ \A t \in Terminals : Collected(twins[t])

SnapshotsInv ==
  /\ machine \in Machines /\ env \in [Terminals -> Environments]
  /\ RunsAreFaithful
  /\ \A r \in sent : r.op \in Ops /\ Faithful(r)
  /\ \A i \in DOMAIN baselines :
       baselines[i].steady => Describes(baselines[i].seen, baselines[i].true)

-----------------------------------------------------------------------------
\* From one home two places are not written alike.
LEMMA WrittenApart ==
  ASSUME NEW home, NEW p \in AllPlaces, NEW q \in AllPlaces, Normal(home, p) = Normal(home, q)
  PROVE  p = q
<1>1. CASE home \in ToSet(Placed[p]) /\ home \in ToSet(Placed[q])
  BY <1>1, TwinAssumption DEF Normal
<1>2. CASE home \in ToSet(Placed[p]) /\ home \notin ToSet(Placed[q])
  BY <1>2 DEF Normal
<1>3. CASE home \notin ToSet(Placed[p]) /\ home \in ToSet(Placed[q])
  BY <1>3 DEF Normal
<1>4. CASE home \notin ToSet(Placed[p]) /\ home \notin ToSet(Placed[q])
  BY <1>4 DEF Normal
<1> QED
  BY <1>1, <1>2, <1>3, <1>4

LEMMA WrittenSomehow == ASSUME NEW home, NEW p PROVE Normal(home, p) # Nothing
BY DEF Normal, Nothing

\* Snapshots alike are of tools and heads alike.
LEMMA ToolsAlike ==
  ASSUME NEW s, NEW a, NEW q, NEW b, Describes(s, a), Describes(q, b)
  PROVE  s.tool # q.tool <=> a[1] # b[1]
<1>1. /\ ATool(a[1]) /\ s.tool = <<"resolved">> \o a[1]
      /\ ATool(b[1]) /\ q.tool = <<"resolved">> \o b[1]
  BY DEF Describes
<1>2. PICK S, u, v, w : S = Dirs \cup {"resolved"} /\ u = <<"resolved">> /\ v = a[1] /\ w = b[1]
  OBVIOUS
<1>3. u \in Seq(S) /\ v \in Seq(S) /\ w \in Seq(S) /\ Len(u) = 1
  <2>1. ASSUME NEW run, ATool(run) PROVE run \in Seq(S)
    <3>1. CASE run = <<>>
      BY <3>1
    <3>2. CASE \E d \in Dirs : run = <<d>>
      BY <1>2, <3>2
    <3> QED
      BY <2>1, <3>1, <3>2 DEF ATool, Nothing
  <2> QED
    BY <1>1, <1>2, <2>1
<1>4. u \o v = u \o w => v = w
  <2>1. /\ Len(u \o v) = 1 + Len(v) /\ \A k \in 1..Len(v) : (u \o v)[1 + k] = v[k]
        /\ Len(u \o w) = 1 + Len(w) /\ \A k \in 1..Len(w) : (u \o w)[1 + k] = w[k]
    <3>1. ASSUME NEW x \in Seq(S)
          PROVE  Len(u \o x) = 1 + Len(x) /\ \A k \in 1..Len(x) : (u \o x)[1 + k] = x[k]
      <4>1. /\ Len(u \o x) = 1 + Len(x) /\ Len(x) \in Nat
            /\ \A k \in 1..(Len(u) + Len(x)) : (u \o x)[k] = IF k <= Len(u) THEN u[k] ELSE x[k - Len(u)]
        <5>1. u \in Seq(S) /\ Len(u) = 1
          BY <1>3
        <5>2. /\ Len(u \o x) = Len(u) + Len(x)
              /\ \A k \in 1 .. Len(u) + Len(x) : (u \o x)[k] =
                   IF k <= Len(u) THEN u[k] ELSE x[k - Len(u)]
          BY <5>1, ConcatProperties
        <5>3. Len(x) \in Nat
          OBVIOUS
        <5> QED
          BY <5>1, <5>2, <5>3
      <4>2. ASSUME NEW k \in 1..Len(x) PROVE (u \o x)[1 + k] = x[k]
        <5>1. 1 + k \in 1..(1 + Len(x)) /\ ~(1 + k <= 1) /\ (1 + k) - 1 = k
          BY <4>1
        <5> QED
          BY <1>3, <4>1, <5>1
      <4> QED
        BY <4>1, <4>2
    <3> QED
      BY <1>3, <3>1
  <2> SUFFICES ASSUME u \o v = u \o w PROVE v = w
    OBVIOUS
  <2>2. Len(v) = Len(w)
    BY <1>3, <2>1
  <2>3. \A k \in 1..Len(v) : v[k] = w[k]
    BY <2>1, <2>2
  <2> QED
    BY <1>3, <2>2, <2>3
<1> QED
  BY <1>1, <1>2, <1>4

LEMMA RepositoryShown ==
  ASSUME NEW q, NEW b, Describes(q, b), b[2] # Nothing, b[2][2] # "damaged"
  PROVE  q.repository = Normal(b[3], b[2][1]) /\ q.repository # Nothing
<1>1. q.repository = HeadOf(b[3], b[2]).repository
  BY DEF Describes, Git
<1>2. q.repository = Normal(b[3], b[2][1])
  BY <1>1 DEF HeadOf
<1> QED
  BY <1>2, WrittenSomehow

LEMMA HeadsAlike ==
  ASSUME NEW s, NEW a, NEW q, NEW b, Describes(s, a), Describes(q, b), a[3] = b[3],
         b[2] # Nothing, b[2][2] # "damaged", s.repository = q.repository,
         s.branch = q.branch, s.detached = q.detached
  PROVE  SameHead(a[2], b[2])
<1>1. /\ \A f \in Git : s[f] = HeadOf(a[3], a[2])[f]
      /\ \A f \in Git : q[f] = HeadOf(b[3], b[2])[f]
      /\ AHead(a[2]) /\ AHead(b[2])
  BY DEF Describes
<1>2. /\ s.repository = HeadOf(a[3], a[2]).repository /\ q.repository = HeadOf(b[3], b[2]).repository
      /\ s.branch = HeadOf(a[3], a[2]).branch /\ q.branch = HeadOf(b[3], b[2]).branch
      /\ s.detached = HeadOf(a[3], a[2]).detached /\ q.detached = HeadOf(b[3], b[2]).detached
  BY <1>1 DEF Git
<1>3. PICK p \in AllPlaces, h \in Heads \ {"none"} : b[2] = <<p, h>>
  BY <1>1 DEF AHead
<1>4. h # "damaged" /\ b[2][1] = p /\ b[2][2] = h
  BY <1>3
<1>5. q.repository = Normal(b[3], p) /\ q.repository # Nothing
  BY <1>4, RepositoryShown
<1>6. a[2] # Nothing /\ a[2][2] # "damaged"
  BY <1>2, <1>5 DEF HeadOf
<1>7. PICK o \in AllPlaces, k \in Heads \ {"none"} : a[2] = <<o, k>>
  BY <1>1, <1>6 DEF AHead
<1>8. a[2][1] = o /\ a[2][2] = k
  BY <1>7
<1>9. s.repository = Normal(a[3], o)
  BY <1>2, <1>6, <1>8 DEF HeadOf
<1>10. o = p
  BY <1>5, <1>9, WrittenApart
<1>11. k = h \/ {k, h} \subseteq Commits
  <2>1. q.branch = (IF h \in Commits THEN Nothing ELSE <<h>>)
    BY <1>2, <1>3, <1>4 DEF HeadOf
  <2>2. s.branch = (IF k \in Commits THEN Nothing ELSE <<k>>)
    BY <1>2, <1>6, <1>8 DEF HeadOf
  <2> QED
    BY <2>1, <2>2 DEF Nothing
<1> QED
  BY <1>4, <1>6, <1>8, <1>10, <1>11 DEF SameHead, Nothing

-----------------------------------------------------------------------------
\* What the command resolves is what the shell runs.
LEMMA ToolFound ==
  ASSUME NEW e \in Environments
  PROVE  ResolveTool(e.path) = Runs(e) /\ ATool(Runs(e))
<1> DEFINE has == {i \in DOMAIN e.path : machine.tool[e.path[i]] = "executable"}
<1>1. e.path \in Seq(Dirs) /\ DOMAIN e.path = 1..Len(e.path)
  BY TwinAssumption
<1>2. has \in SUBSET Nat /\ 0 \notin has /\ \A i \in has : e.path[i] \in Dirs
  BY <1>1
<1>3. has # {} => \E x \in has : \A y \in has : x <= y
  <2> HIDE DEF has
  <2> QED BY <1>2, SmallestRank
<1>4. PICK i : i = CHOOSE x \in has : \A y \in has : x <= y
  OBVIOUS
<1>5. has # {} => i \in has
  <2> HIDE DEF has
  <2> QED BY <1>3, <1>4
<1>6. Runs(e) = IF has = {} THEN Nothing ELSE <<e.path[i]>>
  BY <1>4 DEF Runs
<1>7. SelectInSeq(e.path, LAMBDA d : machine.tool[d] = "executable") = IF has # {} THEN i ELSE 0
  BY <1>1, <1>4 DEF SelectInSeq, Min
<1>8. ResolveTool(e.path) = IF has = {} THEN Nothing ELSE <<e.path[i]>>
  <2>1. PICK k : k = SelectInSeq(e.path, LAMBDA d : machine.tool[d] = "executable")
    OBVIOUS
  <2>2. ResolveTool(e.path) = IF k = 0 THEN Nothing ELSE <<e.path[k]>>
    BY <2>1 DEF ResolveTool
  <2> HIDE DEF has
  <2> QED
    BY <1>2, <1>5, <1>7, <2>1, <2>2
<1> HIDE DEF has
<1> QED
  BY <1>2, <1>5, <1>6, <1>8 DEF ATool

\* What the command finds first on the way up is the repository.
LEMMA RepositoryFound ==
  ASSUME NEW e \in Environments, NEW i,
         i = SelectInSeq(Placed[e.cwd], LAMBDA p : machine.git[p] # "none")
  PROVE  /\ i = 0 => Above(e) = {}
         /\ i # 0 => /\ Above(e) # {} /\ Nearest(e) = Placed[e.cwd][i] /\ Nearest(e) \in AllPlaces
                     /\ machine.git[Nearest(e)] # "none"
<1> DEFINE has == {k \in DOMAIN Placed[e.cwd] : machine.git[Placed[e.cwd][k]] # "none"}
<1>1. Placed[e.cwd] \in Seq(AllPlaces) /\ DOMAIN Placed[e.cwd] = 1..Len(Placed[e.cwd])
  BY TwinAssumption
<1>2. has \in SUBSET Nat /\ 0 \notin has
      /\ \A k \in has : Placed[e.cwd][k] \in AllPlaces /\ machine.git[Placed[e.cwd][k]] # "none"
  BY <1>1
<1>3. has # {} => \E x \in has : \A y \in has : x <= y
  <2> HIDE DEF has
  <2> QED BY <1>2, SmallestRank
<1>4. PICK n : n = CHOOSE x \in has : \A y \in has : x <= y
  OBVIOUS
<1>5. has # {} => n \in has
  <2> HIDE DEF has
  <2> QED BY <1>3, <1>4
<1>6. Above(e) = has
  BY DEF Above
<1>7. Nearest(e) = Placed[e.cwd][n]
  <2> HIDE DEF has
  <2> QED BY <1>4, <1>6 DEF Nearest
<1>8. SelectInSeq(Placed[e.cwd], LAMBDA p : machine.git[p] # "none") = IF has # {} THEN n ELSE 0
  BY <1>1, <1>4 DEF SelectInSeq, Min
<1>9. i = IF has # {} THEN n ELSE 0
  BY <1>8
<1> HIDE DEF has
<1> QED
  BY <1>2, <1>5, <1>6, <1>7, <1>9

LEMMA TruthStays ==
  ASSUME machine' = machine, NEW e
  PROVE  /\ Truth(e)' = Truth(e) /\ Runs(e)' = Runs(e)
         /\ Above(e)' = Above(e) /\ Nearest(e)' = Nearest(e)
<1>1. Runs(e)' = Runs(e)
  BY DEF Runs
<1>2. Above(e)' = Above(e)
  BY DEF Above
<1>3. Nearest(e)' = Nearest(e)
  BY <1>2 DEF Nearest
<1> QED
  BY <1>1, <1>2, <1>3 DEF Truth

LEMMA CollectedStays ==
  ASSUME machine' = machine, NEW c, Collected(c)
  PROVE  Collected(c)'
BY TruthStays DEF Collected

LEMMA OneRun ==
  ASSUME RunsAreFaithful, machine' = machine, NEW t \in Terminals, NEW c, Collected(c),
         DOMAIN twins' = DOMAIN twins, twins'[t] = c,
         \A u \in Terminals \ {t} : twins'[u] = twins[u]
  PROVE  RunsAreFaithful'
<1>1. ASSUME NEW u \in Terminals PROVE Collected(twins[u])'
  <2>1. PICK d : d = twins'[u]
    OBVIOUS
  <2>2. Collected(d)
    BY <2>1 DEF RunsAreFaithful
  <2>3. Collected(d)'
    BY <2>2, CollectedStays
  <2> QED
    BY <2>1, <2>3
<1> QED
  BY <1>1 DEF RunsAreFaithful

LEMMA CollectTool ==
  ASSUME SnapshotsInv, NEW t \in Terminals, CollectTools(t)
  PROVE  RunsAreFaithful'
<1>1. PICK c, d : c = twins[t] /\ d = twins'[t]
  OBVIOUS
<1>2. Collected(c) /\ DOMAIN twins = Terminals /\ DOMAIN c = Parts
  BY <1>1 DEF SnapshotsInv, RunsAreFaithful, Collected
<1>3. c.at = "collecting" /\ c.env \in Environments
  BY <1>1, <1>2 DEF CollectTools, Collected
<1>4. PICK tool, e : tool = ResolveTool(c.env.path) /\ e = c.env
  OBVIOUS
<1>5. tool = Runs(e)
  BY <1>3, <1>4, ToolFound
<1>6. /\ DOMAIN twins' = DOMAIN twins /\ DOMAIN d = Parts
      /\ d.at = "searching" /\ d.true = Truth(e) /\ d.op = c.op /\ d.env = c.env
      /\ d.seen.tool = <<"resolved">> \o tool /\ "tool" \in DOMAIN d.seen
      /\ \A u \in Terminals \ {t} : twins'[u] = twins[u]
  BY <1>1, <1>2, <1>4 DEF CollectTools, Parts
<1>7. Collected(d)
  BY <1>2, <1>3, <1>4, <1>5, <1>6 DEF Collected
<1>8. machine' = machine
  BY DEF CollectTools
<1> QED
  BY <1>1, <1>6, <1>7, <1>8, OneRun DEF SnapshotsInv

LEMMA FindRepository ==
  ASSUME SnapshotsInv, NEW t \in Terminals, FindGit(t)
  PROVE  RunsAreFaithful'
<1>1. PICK c, d : c = twins[t] /\ d = twins'[t]
  OBVIOUS
<1>2. Collected(c) /\ DOMAIN twins = Terminals /\ DOMAIN c = Parts
  BY <1>1 DEF SnapshotsInv, RunsAreFaithful, Collected
<1>3. c.at = "searching" /\ c.env \in Environments
  BY <1>1, <1>2 DEF FindGit, Collected
<1>4. PICK e, i : e = c.env /\ i = SelectInSeq(Placed[e.cwd], LAMBDA p : machine.git[p] # "none")
  OBVIOUS
<1>5. /\ DOMAIN twins' = DOMAIN twins /\ DOMAIN d = Parts
      /\ d.at = "reading" /\ d.true = c.true /\ d.op = c.op /\ d.env = c.env /\ d.seen = c.seen
      /\ d.steady = c.steady /\ d.found = IF i = 0 THEN Nothing ELSE <<Placed[e.cwd][i]>>
      /\ \A u \in Terminals \ {t} : twins'[u] = twins[u]
  BY <1>1, <1>2, <1>4 DEF FindGit, Parts
<1>6. d.found = IF Above(e) = {} THEN Nothing ELSE <<Nearest(e)>>
  BY <1>3, <1>4, <1>5, RepositoryFound
<1>7. Collected(d)
  BY <1>2, <1>3, <1>4, <1>5, <1>6 DEF Collected
<1>8. machine' = machine
  BY DEF FindGit
<1> QED
  BY <1>1, <1>5, <1>7, <1>8, OneRun DEF SnapshotsInv

\* What is read of HEAD completes the snapshot.
LEMMA ReadRepository ==
  ASSUME SnapshotsInv, NEW t \in Terminals, ReadHead(t)
  PROVE  RunsAreFaithful'
<1>1. PICK c, d : c = twins[t] /\ d = twins'[t]
  OBVIOUS
<1>2. Collected(c) /\ DOMAIN twins = Terminals /\ DOMAIN c = Parts
  BY <1>1 DEF SnapshotsInv, RunsAreFaithful, Collected
<1>3. c.at = "reading" /\ c.env \in Environments
  BY <1>1, <1>2 DEF ReadHead, Collected
<1>4. PICK e, head, git :
        /\ e = c.env /\ head = IF c.found = Nothing THEN "none" ELSE machine.git[c.found[1]]
        /\ git = CASE head \in Branches ->
                       [repository |-> Normal(e.home, c.found[1]), branch |-> <<head>>,
                        detached |-> <<"no">>]
                  [] head \in Commits ->
                       [repository |-> Normal(e.home, c.found[1]), branch |-> Nothing,
                        detached |-> <<"yes">>]
                  [] OTHER -> [repository |-> Nothing, branch |-> Nothing, detached |-> Nothing]
  OBVIOUS
<1>5. /\ DOMAIN twins' = DOMAIN twins /\ DOMAIN d = Parts
      /\ d.at = "ready" /\ d.true = c.true /\ d.op = c.op /\ d.env = c.env /\ d.steady = c.steady
      /\ d.seen = [f \in DOMAIN c.seen \cup DOMAIN git |-> IF f \in DOMAIN git THEN git[f] ELSE c.seen[f]]
      /\ \A u \in Terminals \ {t} : twins'[u] = twins[u]
  BY <1>1, <1>2, <1>4 DEF ReadHead, Parts, Branches, Commits
<1>6. ASSUME c.steady PROVE Describes(d.seen, d.true)
  <2>1. /\ c.true = Truth(e) /\ c.seen.tool = <<"resolved">> \o Runs(e) /\ "tool" \in DOMAIN c.seen
        /\ c.found = IF Above(e) = {} THEN Nothing ELSE <<Nearest(e)>>
    BY <1>2, <1>3, <1>4, <1>6 DEF Collected
  <2>2. DOMAIN git = Git
    BY <1>4 DEF Git
  <2>3. d.seen.tool = c.seen.tool /\ \A f \in Git : d.seen[f] = git[f]
    BY <1>5, <2>1, <2>2 DEF Git
  <2>4. ATool(Runs(e))
    BY <1>3, <1>4, ToolFound
  <2>5. AHead(d.true[2]) /\ git = HeadOf(d.true[3], d.true[2])
    <3>1. CASE Above(e) = {}
      <4>1. d.true[2] = Nothing /\ c.found = Nothing
        BY <1>5, <2>1, <3>1 DEF Truth
      <4>2. head = "none"
        BY <1>4, <4>1
      <4> QED
        BY <1>4, <4>1, <4>2 DEF AHead, HeadOf, Branches, Commits
    <3>2. CASE Above(e) # {}
      <4>1. PICK p : p = Nearest(e)
        OBVIOUS
      <4>2. p \in AllPlaces /\ machine.git[p] # "none"
        BY <1>3, <1>4, <3>2, <4>1, RepositoryFound
      <4>3. machine.git[p] \in Heads \ {"none"}
        BY <4>2 DEF SnapshotsInv, Machines
      <4>4. c.found = <<p>> /\ c.found # Nothing /\ c.found[1] = p
        BY <2>1, <3>2, <4>1 DEF Nothing
      <4>5. head = machine.git[p]
        BY <1>4, <4>4
      <4>6. d.true[2] = <<p, head>> /\ d.true[3] = e.home
        BY <1>5, <2>1, <3>2, <4>1, <4>5 DEF Truth
      <4>7. AHead(d.true[2])
        BY <4>2, <4>3, <4>5, <4>6 DEF AHead
      <4>8. d.true[2] # Nothing /\ d.true[2][1] = p /\ d.true[2][2] = head
        BY <4>6 DEF Nothing
      <4>9. git = HeadOf(d.true[3], d.true[2])
        BY <1>4, <4>3, <4>4, <4>5, <4>6, <4>8 DEF HeadOf, Heads, Branches, Commits
      <4> QED
        BY <4>7, <4>9
    <3> QED
      BY <3>1, <3>2
  <2>6. d.true[1] = Runs(e) /\ d.true = <<d.true[1], d.true[2], d.true[3]>>
    BY <1>5, <2>1 DEF Truth
  <2> QED
    BY <2>1, <2>3, <2>4, <2>5, <2>6 DEF Describes
<1>7. Collected(d)
  BY <1>2, <1>3, <1>4, <1>5, <1>6 DEF Collected
<1>8. machine' = machine
  BY DEF ReadHead
<1> QED
  BY <1>1, <1>5, <1>7, <1>8, OneRun DEF SnapshotsInv

LEMMA RunStarts ==
  ASSUME SnapshotsInv, NEW t \in Terminals, NEW op \in Ops, NEW name, RunTwin(t, op, name)
  PROVE  RunsAreFaithful'
<1>1. PICK d : d = twins'[t]
  OBVIOUS
<1>2. DOMAIN twins = Terminals /\ env[t] \in Environments
  BY DEF SnapshotsInv, RunsAreFaithful
<1>3. PICK stage : stage = IF op \in {"mark", "diff"} THEN "collecting" ELSE "ready"
  OBVIOUS
<1>4. /\ DOMAIN twins' = DOMAIN twins /\ DOMAIN d = Parts /\ d.at = stage /\ d.op = op /\ d.env = env[t]
      /\ \A u \in Terminals \ {t} : twins'[u] = twins[u]
  BY <1>1, <1>2, <1>3 DEF RunTwin, Parts, AtPrompt
<1>5. /\ stage \notin {"searching", "reading"} /\ (stage = "ready" => op \notin {"mark", "diff"})
  BY <1>3
<1>6. Collected(d)
  BY <1>2, <1>4, <1>5 DEF Collected
<1>7. machine' = machine
  BY DEF RunTwin
<1> QED
  BY <1>1, <1>4, <1>6, <1>7, OneRun DEF SnapshotsInv

LEMMA PromptCollected == Collected(AtPrompt) /\ Collected([AtPrompt EXCEPT !.at = "sent"])
BY DEF Collected, AtPrompt, Parts, Ops

\* What a run collected is what it sends, and it is back at its prompt.
LEMMA RunSends ==
  ASSUME SnapshotsInv, NEW t \in Terminals, Send(t)
  PROVE  RunsAreFaithful' /\ \A r \in sent' : r.op \in Ops /\ Faithful(r)
<1>1. PICK c : c = twins[t]
  OBVIOUS
<1>2. Collected(c) /\ DOMAIN twins = Terminals
  BY <1>1 DEF SnapshotsInv, RunsAreFaithful
<1>3. PICK q : q = [of |-> t, op |-> c.op, name |-> Spelled(c.name), seen |-> c.seen,
                    true |-> c.true, steady |-> c.steady]
  OBVIOUS
<1>4. sent' = sent \cup {q} /\ c.at = "ready" /\ machine' = machine
  BY <1>1, <1>3 DEF Send
<1>5. q.op \in Ops /\ Faithful(q)
  <2>1. q.op = c.op /\ q.seen = c.seen /\ q.true = c.true /\ q.steady = c.steady
    BY <1>3
  <2> QED
    BY <1>2, <1>4, <2>1 DEF Collected, Faithful
<1>6. PICK d : d = [AtPrompt EXCEPT !.at = "sent"]
  OBVIOUS
<1>7. /\ twins'[t] = d /\ DOMAIN twins' = DOMAIN twins /\ Collected(d)
      /\ \A u \in Terminals \ {t} : twins'[u] = twins[u]
  BY <1>2, <1>6, PromptCollected DEF Send
<1>8. RunsAreFaithful'
  BY <1>4, <1>7, OneRun DEF SnapshotsInv
<1> QED
  BY <1>4, <1>5, <1>8 DEF SnapshotsInv

LEMMA RunStops ==
  ASSUME SnapshotsInv, NEW t \in Terminals, StopWaiting(t)
  PROVE  RunsAreFaithful'
<1>1. DOMAIN twins = Terminals /\ machine' = machine
  BY DEF SnapshotsInv, RunsAreFaithful, StopWaiting
<1>2. PICK d : d = AtPrompt
  OBVIOUS
<1>3. /\ twins'[t] = d /\ DOMAIN twins' = DOMAIN twins /\ Collected(d)
      /\ \A u \in Terminals \ {t} : twins'[u] = twins[u]
  BY <1>1, <1>2, PromptCollected DEF StopWaiting
<1> QED
  BY <1>1, <1>3, OneRun DEF SnapshotsInv

\* A change of the machine leaves no run that has begun to look steady.
LEMMA MachineChanges ==
  ASSUME SnapshotsInv, Change
  PROVE  /\ machine' \in Machines /\ env' \in [Terminals -> Environments] /\ RunsAreFaithful'
<1>1. CASE \E t \in Terminals, e \in Environments :
             env' = [env EXCEPT ![t] = e] /\ UNCHANGED <<machine, twins>>
  <2>1. machine' = machine /\ twins' = twins
    BY <1>1
  <2>2. ASSUME NEW u \in Terminals PROVE Collected(twins[u])'
    <3>1. PICK d : d = twins[u]
      OBVIOUS
    <3>2. Collected(d)'
      BY <2>1, <3>1, CollectedStays DEF SnapshotsInv, RunsAreFaithful
    <3> QED
      BY <2>1, <3>1, <3>2
  <2>3. RunsAreFaithful'
    BY <2>1, <2>2 DEF SnapshotsInv, RunsAreFaithful
  <2> QED
    BY <1>1, <2>1, <2>3 DEF SnapshotsInv
<1>2. CASE /\ \/ \E d \in Dirs, how \in {"absent", "plain", "executable"} :
                   machine' = [machine EXCEPT !.tool[d] = how]
              \/ \E p \in AllPlaces, head \in Heads : machine' = [machine EXCEPT !.git[p] = head]
           /\ twins' = [t \in Terminals |->
                          IF twins[t].at \in {"searching", "reading"}
                          THEN [twins[t] EXCEPT !.steady = FALSE] ELSE twins[t]]
           /\ UNCHANGED env
  <2>1. machine' \in Machines
    BY <1>2 DEF SnapshotsInv, Machines
  <2>2. ASSUME NEW u \in Terminals PROVE Collected(twins[u])'
    <3>1. PICK c, d : c = twins[u] /\ d = twins'[u]
      OBVIOUS
    <3>2. Collected(c) /\ DOMAIN c = Parts
      BY <3>1 DEF SnapshotsInv, RunsAreFaithful, Collected
    <3>3. CASE c.at \in {"searching", "reading"}
      <4>1. d = [c EXCEPT !.steady = FALSE]
        BY <1>2, <3>1, <3>3
      <4>2. DOMAIN d = Parts /\ d.at = c.at /\ d.op = c.op /\ d.env = c.env /\ d.seen = c.seen
            /\ ~d.steady
        BY <3>2, <4>1 DEF Parts
      <4>3. Collected(d)'
        BY <3>2, <3>3, <4>2 DEF Collected
      <4> QED
        BY <3>1, <4>3
    <3>4. CASE c.at \notin {"searching", "reading"}
      <4>1. d = c
        BY <1>2, <3>1, <3>4
      <4>2. Collected(d)'
        BY <3>2, <3>4, <4>1 DEF Collected
      <4> QED
        BY <3>1, <4>2
    <3> QED
      BY <3>3, <3>4
  <2>3. DOMAIN twins' = Terminals
    BY <1>2
  <2>4. RunsAreFaithful'
    BY <2>2, <2>3 DEF RunsAreFaithful
  <2> QED
    BY <1>2, <2>1, <2>4 DEF SnapshotsInv
<1> QED
  BY <1>1, <1>2 DEF Change

-----------------------------------------------------------------------------
\* A baseline is the one just marked, or was kept before.
LEMMA MarkedOrKept ==
  ASSUME BaselinesInv, NEW b, NEW k \in DOMAIN WithMark(b)
  PROVE  WithMark(b)[k] = b \/ \E m \in DOMAIN baselines : WithMark(b)[k] = baselines[m]
<1>1. PICK i, n, kept :
        /\ i = Position(b.name) /\ n = Len(baselines)
        /\ kept = IF i # 0 THEN RemoveAt(baselines, i)
                  ELSE IF n >= MaxBaselines THEN Tail(baselines) ELSE baselines
  OBVIOUS
<1>2. PICK S : baselines \in Seq(S)
  BY DEF BaselinesInv, IsSeq
<1>3. n \in Nat /\ DOMAIN baselines = 1..n /\ MaxBaselines \in Nat /\ MaxBaselines > 0
  BY <1>1, <1>2, TwinAssumption
<1>4. i = 0 \/ i \in DOMAIN baselines
  BY <1>1, PositionIs DEF BaselinesInv
<1>5. kept \in Seq(S) /\ \A m \in DOMAIN kept : \E l \in DOMAIN baselines : kept[m] = baselines[l]
  <2>1. CASE i # 0
    <3>1. kept = RemoveAt(baselines, i) /\ i \in DOMAIN baselines
      BY <1>1, <1>4, <2>1
    <3>2. /\ kept \in Seq(S) /\ Len(kept) = n - 1
          /\ \A m \in DOMAIN kept : kept[m] = IF m < i THEN baselines[m] ELSE baselines[m + 1]
      BY <1>1, <1>2, <3>1, Removed
    <3>3. DOMAIN kept = 1..(n - 1)
      BY <3>2
    <3>4. \A m \in 1..(n - 1) : m \in 1..n /\ m + 1 \in 1..n
      BY <1>3
    <3> QED
      BY <1>3, <3>2, <3>3, <3>4
  <2>2. CASE i = 0 /\ n >= MaxBaselines
    <3>1. kept = Tail(baselines) /\ baselines # <<>>
      BY <1>1, <1>3, <2>2
    <3>2. /\ kept \in Seq(S) /\ DOMAIN kept = 1..(n - 1)
          /\ \A m \in 1..(n - 1) : kept[m] = baselines[m + 1]
      BY <1>1, <1>2, <3>1
    <3>3. \A m \in 1..(n - 1) : m + 1 \in 1..n
      BY <1>3
    <3> QED
      BY <1>3, <3>2, <3>3
  <2>3. CASE i = 0 /\ ~(n >= MaxBaselines)
    BY <1>1, <1>2, <2>3
  <2> QED
    BY <2>1, <2>2, <2>3
<1>6. WithMark(b) = Append(kept, b)
  BY <1>1 DEF WithMark
<1>7. (k \in DOMAIN kept /\ WithMark(b)[k] = kept[k]) \/ WithMark(b)[k] = b
  <2>1. kept \in Seq(S \cup {b}) /\ b \in S \cup {b}
    BY <1>5
  <2> QED
    BY <1>6, <2>1
<1> QED
  BY <1>5, <1>7

LEMMA ClearedOrKept ==
  ASSUME BaselinesInv, NEW name, NEW k \in DOMAIN Cleared(name)
  PROVE  \E m \in DOMAIN baselines : Cleared(name)[k] = baselines[m]
<1>1. PICK i, n : i = Position(name) /\ n = Len(baselines)
  OBVIOUS
<1>2. PICK S : baselines \in Seq(S)
  BY DEF BaselinesInv, IsSeq
<1>3. n \in Nat /\ DOMAIN baselines = 1..n /\ (i = 0 \/ i \in DOMAIN baselines)
  BY <1>1, <1>2, PositionIs DEF BaselinesInv
<1>4. CASE i = 0
  BY <1>1, <1>4 DEF Cleared
<1>5. CASE i # 0
  <2>1. PICK kept : kept = RemoveAt(baselines, i)
    OBVIOUS
  <2>2. kept = Cleared(name) /\ i \in DOMAIN baselines
    BY <1>1, <1>3, <1>5, <2>1 DEF Cleared
  <2>3. /\ kept \in Seq(S) /\ Len(kept) = n - 1
        /\ \A m \in DOMAIN kept : kept[m] = IF m < i THEN baselines[m] ELSE baselines[m + 1]
    BY <1>1, <1>2, <2>1, <2>2, Removed
  <2>4. DOMAIN kept = 1..(n - 1)
    BY <2>3
  <2>5. \A m \in 1..(n - 1) : m \in 1..n /\ m + 1 \in 1..n
    BY <1>3
  <2> QED
    BY <1>3, <2>2, <2>3, <2>4, <2>5
<1> QED
  BY <1>4, <1>5

LEMMA HandleKeepsSnapshots ==
  ASSUME BaselinesInv, SnapshotsInv, NEW r \in sent, Handle(r)
  PROVE  SnapshotsInv'
<1>1. /\ machine' = machine /\ env' = env /\ sent' \subseteq sent
      /\ twins' = [twins EXCEPT ![r.of] = IF @.at = "sent" THEN AtPrompt ELSE @]
  BY DEF Handle
<1>2. ASSUME NEW t \in Terminals PROVE Collected(twins[t])'
  <2>1. PICK d : d = twins'[t]
    OBVIOUS
  <2>2. Collected(d)
    BY <1>1, <2>1, PromptCollected DEF SnapshotsInv, RunsAreFaithful
  <2>3. Collected(d)'
    BY <1>1, <2>2, CollectedStays
  <2> QED
    BY <2>1, <2>3
<1>3. RunsAreFaithful'
  BY <1>1, <1>2 DEF SnapshotsInv, RunsAreFaithful
<1>4. PICK outcome :
        baselines' = CASE r.op = "mark" /\ outcome # <<"refused">> -> WithMark(Baselined(r))
                       [] r.op = "clear" /\ outcome # <<"refused">> -> Cleared(r.name)
                       [] r.op = "clear_all" /\ outcome # <<"refused">> -> <<>>
                       [] OTHER -> baselines
  BY Zenon DEF Handle
<1>5. ASSUME NEW i \in DOMAIN baselines', baselines'[i].steady
      PROVE  Describes(baselines'[i].seen, baselines'[i].true)
  <2>0. PICK b : b = Baselined(r)
    OBVIOUS
  <2>1. (baselines'[i] = b /\ r.op = "mark") \/ \E m \in DOMAIN baselines : baselines'[i] = baselines[m]
    <3>1. CASE baselines' = WithMark(b) /\ r.op = "mark"
      BY <1>5, <3>1, MarkedOrKept
    <3>2. CASE baselines' = Cleared(r.name)
      BY <1>5, <3>2, ClearedOrKept
    <3>3. CASE baselines' = <<>>
      BY <1>5, <3>3
    <3>4. CASE baselines' = baselines
      BY <1>5, <3>4
    <3> QED
      BY <1>4, <2>0, <3>1, <3>2, <3>3, <3>4
  <2>2. CASE baselines'[i] = b /\ r.op = "mark"
    <3>1. b.steady = r.steady /\ b.seen = r.seen /\ b.true = r.true
      BY <2>0 DEF Baselined
    <3> QED
      BY <1>5, <2>2, <3>1 DEF SnapshotsInv, Faithful
  <2>3. CASE \E m \in DOMAIN baselines : baselines'[i] = baselines[m]
    BY <1>5, <2>3 DEF SnapshotsInv
  <2> QED
    BY <2>1, <2>2, <2>3
<1>6. \A q \in sent' : (q.op \in Ops /\ Faithful(q))'
  BY <1>1 DEF SnapshotsInv
<1> QED
  BY <1>1, <1>3, <1>5, <1>6 DEF SnapshotsInv

LEMMA SnapshotsStep == BaselinesInv /\ SnapshotsInv /\ [TwinNext]_twinVars => SnapshotsInv'
<1> SUFFICES ASSUME BaselinesInv, SnapshotsInv, [TwinNext]_twinVars PROVE SnapshotsInv'
  OBVIOUS
<1>1. CASE \E r \in sent : Handle(r)
  BY <1>1, HandleKeepsSnapshots
<1>2. ASSUME machine' = machine, env' = env, RunsAreFaithful', baselines' = baselines \/ baselines' = <<>>,
             \A r \in sent' : r.op \in Ops /\ Faithful(r)
      PROVE  SnapshotsInv'
  <2>1. \A i \in DOMAIN baselines' :
          baselines'[i].steady => Describes(baselines'[i].seen, baselines'[i].true)
    BY <1>2 DEF SnapshotsInv
  <2> QED
    BY <1>2, <2>1 DEF SnapshotsInv
<1>3. \A r \in sent : r.op \in Ops /\ Faithful(r)
  BY DEF SnapshotsInv
<1>4. ASSUME machine' = machine, DOMAIN twins' = Terminals,
             \A t \in Terminals : twins'[t] = twins[t] \/ twins'[t] = AtPrompt
      PROVE  RunsAreFaithful'
  <2>1. ASSUME NEW t \in Terminals PROVE Collected(twins[t])'
    <3>1. PICK d : d = twins'[t]
      OBVIOUS
    <3>2. Collected(d)
      BY <1>4, <3>1, PromptCollected DEF SnapshotsInv, RunsAreFaithful
    <3>3. Collected(d)'
      BY <1>4, <3>2, CollectedStays
    <3> QED
      BY <3>1, <3>3
  <2> QED
    BY <1>4, <2>1 DEF RunsAreFaithful
<1>5. DOMAIN twins = Terminals
  BY DEF SnapshotsInv, RunsAreFaithful
<1>6. CASE ClearData
  <2>1. machine' = machine /\ env' = env /\ twins' = twins /\ sent' = sent /\ baselines' = <<>>
    BY <1>6 DEF ClearData
  <2>2. RunsAreFaithful'
    BY <1>4, <1>5, <2>1
  <2> QED
    BY <1>2, <1>3, <2>1, <2>2
<1>7. CASE Restart
  <2>1. machine' = machine /\ env' = env /\ sent' = {} /\ baselines' = <<>>
        /\ twins' = [t \in Terminals |-> IF twins[t].at = "sent" THEN AtPrompt ELSE twins[t]]
    BY <1>7 DEF Restart
  <2>2. DOMAIN twins' = Terminals /\ \A t \in Terminals : twins'[t] = twins[t] \/ twins'[t] = AtPrompt
    BY <2>1
  <2>3. RunsAreFaithful'
    BY <1>4, <2>1, <2>2
  <2> QED
    BY <1>2, <2>1, <2>3
<1>8. CASE UNCHANGED twinVars
  <2>1. machine' = machine /\ env' = env /\ twins' = twins /\ sent' = sent /\ baselines' = baselines
    BY <1>8 DEF twinVars
  <2>2. RunsAreFaithful'
    BY <1>4, <1>5, <2>1
  <2> QED
    BY <1>2, <1>3, <2>1, <2>2
<1>9. ASSUME NEW t \in Terminals, NEW op \in Ops, NEW name, RunTwin(t, op, name) PROVE SnapshotsInv'
  <2>1. machine' = machine /\ env' = env /\ sent' = sent /\ baselines' = baselines
    BY <1>9 DEF RunTwin
  <2> QED
    BY <1>2, <1>3, <1>9, <2>1, RunStarts
<1>10. ASSUME NEW t \in Terminals, Send(t) PROVE SnapshotsInv'
  <2>1. machine' = machine /\ env' = env /\ baselines' = baselines
    BY <1>10 DEF Send
  <2> QED
    BY <1>2, <1>10, <2>1, RunSends
<1>11. ASSUME NEW t \in Terminals, CollectTools(t) \/ FindGit(t) \/ ReadHead(t) \/ StopWaiting(t)
       PROVE  SnapshotsInv'
  <2>1. machine' = machine /\ env' = env /\ sent' = sent /\ baselines' = baselines
    BY <1>11 DEF CollectTools, FindGit, ReadHead, StopWaiting
  <2>2. RunsAreFaithful'
    BY <1>11, CollectTool, FindRepository, ReadRepository, RunStops
  <2> QED
    BY <1>2, <1>3, <2>1, <2>2
<1>12. CASE Change
  <2>1. sent' = sent /\ baselines' = baselines
    BY <1>12 DEF Change
  <2>2. machine' \in Machines /\ env' \in [Terminals -> Environments] /\ RunsAreFaithful'
    BY <1>12, MachineChanges
  <2> QED
    BY <2>1, <2>2 DEF SnapshotsInv
<1>13. {"mark", "diff", "clear"} \subseteq Ops /\ {"list", "clear_all"} \subseteq Ops
  BY DEF Ops
<1> QED
  BY <1>1, <1>6, <1>7, <1>8, <1>9, <1>10, <1>11, <1>12, <1>13 DEF TwinNext

\* The inductive invariant of the snapshots: what a run has collected, sent or had
\* kept while nothing changed describes what was there, and a run that is still
\* looking has what is there now.
THEOREM SnapshotsAreFaithful == TwinSpec => []SnapshotsInv
<1>1. TwinInit => SnapshotsInv
  <2> SUFFICES ASSUME TwinInit PROVE SnapshotsInv
    OBVIOUS
  <2>1. DOMAIN twins = Terminals /\ \A t \in Terminals : twins[t] = AtPrompt
    BY DEF TwinInit
  <2>2. RunsAreFaithful
    BY <2>1, PromptCollected DEF RunsAreFaithful
  <2>3. machine \in Machines /\ env \in [Terminals -> Environments]
    BY TwinAssumption DEF TwinInit
  <2>4. sent = {} /\ baselines = <<>>
    BY DEF TwinInit
  <2> QED
    BY <2>2, <2>3, <2>4 DEF SnapshotsInv
<1> QED
  BY <1>1, SnapshotsStep, BaselinesAreInOrder, PTL DEF TwinSpec

\* An answer compares the snapshot of a request with that of its baseline.
LEMMA Compared ==
  ASSUME NEW r, r.op \in Ops, Outcome(r)[1] = "diff"
  PROVE  /\ r.op = "diff" /\ Position(r.name) # 0
         /\ Outcome(r)[2] = Compare(baselines[Position(r.name)].seen, r.seen)
<1>1. CASE Refused(r)
  <2>1. Outcome(r) = <<"refused">>
    BY <1>1 DEF Outcome
  <2> QED
    BY <2>1
<1>2. PICK list, compared :
        /\ list = [i \in DOMAIN baselines |-> baselines[i].name]
        /\ compared = Compare(baselines[Position(r.name)].seen, r.seen)
  OBVIOUS
<1>3. CASE ~Refused(r)
  <2>1. CASE r.op = "diff" /\ Position(r.name) # 0
    <3>1. Outcome(r) = <<"diff", compared>>
      BY <1>2, <1>3, <2>1 DEF Outcome
    <3> QED
      BY <1>2, <2>1, <3>1
  <2>2. CASE r.op = "diff" /\ Position(r.name) = 0
    <3>1. Outcome(r) = <<"not_found">>
      BY <1>3, <2>2 DEF Outcome
    <3> QED
      BY <3>1
  <2>3. CASE r.op = "mark"
    <3>1. Outcome(r) = <<"marked">>
      BY <1>3, <2>3 DEF Outcome
    <3> QED
      BY <3>1
  <2>4. CASE r.op = "list"
    <3>1. Outcome(r) = <<"list", list>>
      BY <1>2, <1>3, <2>4 DEF Outcome
    <3>2. Outcome(r)[1] = "list"
      BY <3>1
    <3> QED
      BY <3>2
  <2>5. CASE r.op \in {"clear", "clear_all"}
    <3>1. Outcome(r) = <<"cleared">>
      BY <1>3, <2>5 DEF Outcome
    <3> QED
      BY <3>1
  <2> QED
    BY <2>1, <2>2, <2>3, <2>4, <2>5 DEF Ops
<1> QED
  BY <1>1, <1>3

\* For every machine and every environment of the terminals: an answer that a tool
\* or a repository's head differs is true of what was there, and one that nothing
\* does means the same tool and the same repository, on one branch or both detached
\* (collect_snapshot and compare_twin_terminal_snapshots).
THEOREM AnswersAreReal == TwinSpec => DifferencesAreReal
<1>1. BaselinesInv /\ SnapshotsInv =>
        \A r \in sent :
          (twins[r.of].at = "sent" /\ Outcome(r)[1] = "diff") =>
            LET b == baselines[Position(r.name)]
                names == {d[1] : d \in Outcome(r)[2]}
            IN  b.steady /\ r.steady /\ b.true[3] = r.true[3] =>
                  /\ ("tool" \in names) <=> (b.true[1] # r.true[1])
                  /\ names \cap Git # {} => b.true[2] # r.true[2]
                  /\ (names = {} /\ r.true[2] # Nothing /\ r.true[2][2] # "damaged") =>
                       SameHead(b.true[2], r.true[2])
  <2> SUFFICES ASSUME BaselinesInv, SnapshotsInv, NEW r \in sent, Outcome(r)[1] = "diff",
                      NEW b, b = baselines[Position(r.name)],
                      NEW names, names = {d[1] : d \in Outcome(r)[2]},
                      b.steady, r.steady, b.true[3] = r.true[3]
               PROVE  /\ ("tool" \in names) <=> (b.true[1] # r.true[1])
                      /\ names \cap Git # {} => b.true[2] # r.true[2]
                      /\ (names = {} /\ r.true[2] # Nothing /\ r.true[2][2] # "damaged") =>
                           SameHead(b.true[2], r.true[2])
    OBVIOUS
  <2>1. r.op = "diff" /\ Position(r.name) # 0 /\ Outcome(r)[2] = Compare(b.seen, r.seen)
    BY Compared DEF SnapshotsInv
  <2>2. Position(r.name) \in DOMAIN baselines
    BY <2>1, PositionIs DEF BaselinesInv
  <2>3. Describes(b.seen, b.true) /\ Describes(r.seen, r.true)
    BY <2>1, <2>2 DEF SnapshotsInv, Faithful
  <2>4. PICK s, a, q, c : s = b.seen /\ a = b.true /\ q = r.seen /\ c = r.true
    OBVIOUS
  <2>5. names = Differing(s, q)
    <3>1. names = {d[1] : d \in {<<f, Kind(s[f], q[f])>> : f \in Differing(s, q)}}
      BY <2>1, <2>4 DEF Compare
    <3>2. PICK D, kind : D = Differing(s, q) /\ kind = [f \in D |-> Kind(s[f], q[f])]
      OBVIOUS
    <3>3. names = {d[1] : d \in {<<f, kind[f]>> : f \in D}}
      BY <3>1, <3>2
    <3>4. ASSUME NEW f \in D PROVE f \in names
      <4>1. PICK d : d = <<f, kind[f]>>
        OBVIOUS
      <4>2. d \in {<<g, kind[g]>> : g \in D} /\ d[1] = f
        BY <4>1
      <4> QED
        BY <3>3, <4>2
    <3>5. ASSUME NEW n \in names PROVE n \in D
      <4>1. PICK d \in {<<g, kind[g]>> : g \in D} : n = d[1]
        BY <3>3
      <4>2. PICK g \in D : d = <<g, kind[g]>>
        BY <4>1
      <4> QED
        BY <4>1, <4>2
    <3> QED
      BY <3>2, <3>4, <3>5
  <2>6. "tool" \in names <=> s.tool # q.tool
    BY <2>5 DEF Differing, Fields, Git
  <2>7. "tool" \in names <=> a[1] # c[1]
    BY <2>3, <2>4, <2>6, ToolsAlike
  <2>8. ASSUME names = {}, c[2] # Nothing, c[2][2] # "damaged" PROVE SameHead(a[2], c[2])
    <3>1. s.repository = q.repository
      BY <2>5, <2>8 DEF Differing, Fields, Git
    <3>2. q.repository # Nothing
      BY <2>3, <2>4, <2>8, RepositoryShown
    <3>3. s.branch = q.branch /\ s.detached = q.detached
      BY <2>5, <2>8, <3>1, <3>2 DEF Differing, Fields, Git
    <3> QED
      BY <2>3, <2>4, <2>8, <3>1, <3>3, HeadsAlike
  <2>9. ASSUME a[2] = c[2] PROVE names \cap Git = {}
    <3>1. \A f \in Git : s[f] = HeadOf(a[3], a[2])[f] /\ q[f] = HeadOf(c[3], c[2])[f]
      BY <2>3, <2>4 DEF Describes
    <3>2. \A f \in Git : s[f] = q[f]
      BY <2>4, <2>9, <3>1
    <3> QED
      BY <2>5, <3>2 DEF Differing
  <2> QED
    BY <2>4, <2>7, <2>8, <2>9
<1>2. (BaselinesInv /\ SnapshotsInv) /\ [TwinNext]_twinVars =>
        [\A r \in sent \ sent' :
           (twins[r.of].at = "sent" /\ Outcome(r)[1] = "diff") =>
             LET b == baselines[Position(r.name)]
                 names == {d[1] : d \in Outcome(r)[2]}
             IN  b.steady /\ r.steady /\ b.true[3] = r.true[3] =>
                   /\ ("tool" \in names) <=> (b.true[1] # r.true[1])
                   /\ names \cap Git # {} => b.true[2] # r.true[2]
                   /\ (names = {} /\ r.true[2] # Nothing /\ r.true[2][2] # "damaged") =>
                        SameHead(b.true[2], r.true[2])]_twinVars
  BY <1>1
<1> QED
  BY <1>2, BaselinesAreInOrder, SnapshotsAreFaithful, PTL DEF TwinSpec, DifferencesAreReal
=============================================================================

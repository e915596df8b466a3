----------------------------- MODULE ChatProvider -----------------------------
(***************************************************************************)
(* The OpenAI-compatible provider (crates/aicoach-ai/src/openai.rs): every *)
(* call takes a permit of one semaphore, posts its body with bounded       *)
(* retries, and reads either a whole body or a stream of server-sent       *)
(* events, all of it raced against its token and one deadline.             *)
(*                                                                         *)
(* A streamed call keeps its permit in a task of its own, which decodes    *)
(* the events of each network chunk and hands them to the caller through a *)
(* bounded channel.  An event is one of: a piece of text, "silent" (a      *)
(* comment or a delta without text), "garbage" (not a chat chunk),         *)
(* "failed" (an error event), "bytes" (not UTF-8) or "done".               *)
(*                                                                         *)
(* Every select! of the code is biased: a task that runs sees its token    *)
(* first, then its deadline, then the result it waits for.                 *)
(***************************************************************************)
EXTENDS Naturals, FiniteSets, SequencesExt

CONSTANTS Requests,        \* the calls
          Kind,            \* Kind[r] \in {"whole", "stream"}
          MaxConcurrency,  \* permits of the semaphore
          MaxRetries,      \* config.retry.max_retries
          Capacity,        \* STREAM_CHANNEL_CAPACITY
          MaxEvents,       \* MAX_RESPONSE_BYTES, in events of a chunk
          Texts,           \* pieces of text an event can carry
          Answers          \* Answers[r]: the bodies the service may answer with

Marks  == {"silent", "garbage", "failed", "bytes", "done"}
Errors == {"Cancelled", "Timeout", "HttpStatus", "Transport",
           "InvalidResponse", "StreamProtocol"}
Events == Texts \cup Marks
Bodies == [events : Seq(Events), tail : {"whole", "open", "broken"}]

ASSUME ProviderAssumption ==
  /\ Texts \cap (Marks \cup Errors \cup {"cut", "end"}) = {}
  /\ \A r \in Requests : Answers[r] \subseteq Bodies
  /\ Kind \in [Requests -> {"whole", "stream"}]
  /\ MaxConcurrency \in Nat \ {0} /\ MaxRetries \in Nat
  /\ Capacity \in Nat \ {0} /\ MaxEvents \in Nat \ {0}

VARIABLES phase,      \* where the call's task stands
          queue,      \* the calls waiting for a permit, in order
          holders,    \* the calls whose task owns a permit
          retries,    \* send_with_retry's counter
          posts,      \* attempts put on the wire
          cancelled,  \* the call's token
          expired,    \* its deadline has passed
          answer,     \* the body the service answers with
          rest,       \* events of it not received yet
          batch,      \* events decoded from a chunk and not handed over yet
          channel,    \* the caller's bounded channel
          result,     \* what the call, or the stream's last item, says
          heard,      \* what the caller has taken from the stream
          open        \* the calls whose caller holds the stream

callVars   == <<retries, posts, cancelled, expired, answer>>
streamVars == <<rest, batch, channel, heard, open>>
vars == <<phase, queue, holders, result, callVars, streamVars>>

Working == {"sending", "backoff", "reading", "streaming", "failing"}
Phases  == {"idle", "queued", "ended"} \cup Working

Init ==
  /\ phase = [r \in Requests |-> "idle"]
  /\ queue = <<>> /\ holders = {}
  /\ retries = [r \in Requests |-> 0] /\ posts = [r \in Requests |-> 0]
  /\ cancelled = [r \in Requests |-> FALSE]
  /\ expired = [r \in Requests |-> FALSE]
  /\ answer \in {f \in [Requests -> UNION {Answers[r] : r \in Requests}] :
                  \A r \in Requests : f[r] \in Answers[r]}
  /\ rest = [r \in Requests |-> answer[r].events]
  /\ batch = [r \in Requests |-> <<>>] /\ channel = [r \in Requests |-> <<>>]
  /\ result = [r \in Requests |-> "none"]
  /\ heard = [r \in Requests |-> <<>>]
  /\ open = {}

-----------------------------------------------------------------------------
\* Variant: the waits race the token only.
InterruptedByToken(r) == cancelled[r]

\* The two races every wait of the code loses first, and what is left then.
Interrupted(r) == cancelled[r] \/ expired[r]
Interruption(r) == IF cancelled[r] THEN "Cancelled" ELSE "Timeout"

\* A task returns: its permit is dropped with it.
Return(r, outcome) ==
  /\ phase' = [phase EXCEPT ![r] = "ended"]
  /\ holders' = holders \ {r}
  /\ result' = [result EXCEPT ![r] = outcome]

\* Variant: the error item is sent after the permit was given back.
FailEarly(r, error) ==
  /\ phase' = [phase EXCEPT ![r] = "failing"]
  /\ result' = [result EXCEPT ![r] = error]
  /\ holders' = holders \ {r}

\* An item the caller's stream ends with: sent without looking at the token or
\* the deadline, so it waits for room.
Fail(r, error) ==
  /\ phase' = [phase EXCEPT ![r] = "failing"]
  /\ result' = [result EXCEPT ![r] = error]
  /\ UNCHANGED holders

\* A call starts: its deadline runs from here, before it has a permit.
Call(r) ==
  /\ phase[r] = "idle"
  /\ phase' = [phase EXCEPT ![r] = "queued"]
  /\ queue' = Append(queue, r)
  /\ UNCHANGED <<holders, result, callVars, streamVars>>

\* acquire_permit: the semaphore serves its waiters in order.
AcquirePermit(r) ==
  /\ phase[r] = "queued"
  /\ IF Interrupted(r)
     THEN /\ Return(r, Interruption(r))
          /\ \E i \in DOMAIN queue : queue[i] = r /\ queue' = RemoveAt(queue, i)
     ELSE /\ r = Head(queue) /\ Cardinality(holders) < MaxConcurrency
          /\ phase' = [phase EXCEPT ![r] = "sending"]
          /\ holders' = holders \cup {r}
          /\ queue' = Tail(queue)
          /\ UNCHANGED result
  /\ UNCHANGED <<callVars, streamVars>>

\* What one attempt of send_with_retry meets.  A response whose status is not a
\* success, and a connection that is never made, may be tried again; a request
\* that broke after it was sent may not.
Attempts == {"success", "retryable", "refused", "no_connection", "broken"}

MayRetry(r, met) == met \in {"retryable", "no_connection"} /\ retries[r] < MaxRetries

AttemptError(met) ==
  IF met \in {"retryable", "refused"} THEN "HttpStatus" ELSE "Transport"

\* One round of send_with_retry's loop, from its select! on.
Attempt(r, met) ==
  /\ phase[r] = "sending"
  /\ IF Interrupted(r)
     THEN /\ Return(r, Interruption(r))
          /\ UNCHANGED <<retries, posts, open>>
     ELSE /\ posts' = [posts EXCEPT ![r] = @ + 1]
          /\ \/ /\ met = "success"
                /\ phase' = [phase EXCEPT ![r] = IF Kind[r] = "stream" THEN "streaming"
                                                 ELSE "reading"]
                /\ open' = IF Kind[r] = "stream" THEN open \cup {r} ELSE open
                /\ UNCHANGED <<holders, result, retries>>
             \/ /\ MayRetry(r, met)
                /\ phase' = [phase EXCEPT ![r] = "backoff"]
                /\ retries' = [retries EXCEPT ![r] = @ + 1]
                /\ UNCHANGED <<holders, result, open>>
             \/ /\ met # "success" /\ ~MayRetry(r, met)
                /\ Return(r, AttemptError(met))
                /\ UNCHANGED <<retries, open>>
  /\ UNCHANGED <<queue, cancelled, expired, answer, rest, batch, channel, heard>>

\* Variant: the delay does not race the token and the deadline, and the attempt
\* after it is on the wire before they are looked at.
RetryDelayUnguarded(r) ==
  /\ phase[r] = "backoff"
  /\ phase' = [phase EXCEPT ![r] = "reading"]
  /\ posts' = [posts EXCEPT ![r] = @ + 1]
  /\ UNCHANGED <<holders, result, queue, retries, cancelled, expired, answer, streamVars>>

\* retry_delay: the wait is cut at the deadline, so a delay that reaches it
\* ends in a timeout.
RetryDelay(r) ==
  /\ phase[r] = "backoff"
  /\ IF Interrupted(r)
     THEN Return(r, Interruption(r))
     ELSE /\ phase' = [phase EXCEPT ![r] = "sending"]
          /\ UNCHANGED <<holders, result>>
  /\ UNCHANGED <<queue, callVars, streamVars>>

\* read_limited_body and the parsing after it: a body over the limit, and one
\* that is not what the operation asked for, is an InvalidResponse.
ReadBody(r) ==
  /\ phase[r] = "reading"
  /\ Return(r, IF Interrupted(r) THEN Interruption(r)
               ELSE IF Len(answer[r].events) > MaxEvents THEN "InvalidResponse"
               ELSE IF answer[r].tail = "broken" THEN "Transport"
               ELSE IF "garbage" \in ToSet(answer[r].events) THEN "InvalidResponse"
               ELSE "ok")
  /\ UNCHANGED <<queue, callVars, streamVars>>

-----------------------------------------------------------------------------
(* spawn_stream: the stream's task.                                          *)

\* The events a chunk can complete: an event whose delimiter never comes stays
\* in the decoder's buffer until the body ends.
Complete(r) ==
  IF answer[r].tail = "open" THEN Len(rest[r]) - 1 ELSE Len(rest[r])

\* SseDecoder::push: an oversized chunk, or one event of it that is not UTF-8,
\* fails the whole chunk, the events decoded before it included.
Decode(r, n) ==
  LET events == SubSeq(rest[r], 1, n)
  IN  IF n > MaxEvents \/ "bytes" \in ToSet(events)
      THEN /\ Fail(r, "StreamProtocol")
           /\ UNCHANGED batch
      ELSE /\ batch' = [batch EXCEPT ![r] = events]
           /\ UNCHANGED <<phase, holders, result>>

\* Variant: the end of the body is the end of the answer.
FinishQuietly(r) == Return(r, "ok") /\ UNCHANGED batch

\* The body ends.  What the buffer still holds is decoded as one last event;
\* a body that ends without the done marker is an error, after that event's text.
Finish(r) ==
  LET left == rest[r]
  IN  IF answer[r].tail = "broken"
      THEN Fail(r, "Transport") /\ UNCHANGED batch
      ELSE IF left = <<"done">>
      THEN Return(r, "ok") /\ UNCHANGED batch
      ELSE IF left # <<>> /\ Head(left) \in Texts
      THEN /\ batch' = [batch EXCEPT ![r] = left \o <<"cut">>]
           /\ UNCHANGED <<phase, holders, result>>
      ELSE Fail(r, "StreamProtocol") /\ UNCHANGED batch

\* The loop's select!: the caller's drop, the token, the deadline, then a chunk
\* or the end of the body.
ReceiveChunk(r) ==
  /\ phase[r] = "streaming" /\ batch[r] = <<>>
  /\ \/ /\ r \notin open
        /\ Return(r, "ok")
        /\ UNCHANGED <<rest, batch>>
     \/ /\ r \in open /\ Interrupted(r)
        /\ Fail(r, Interruption(r))
        /\ UNCHANGED <<rest, batch>>
     \/ /\ r \in open /\ ~Interrupted(r)
        /\ \E n \in 1..Complete(r) :
             /\ Decode(r, n)
             /\ rest' = [rest EXCEPT ![r] = SubSeq(@, n + 1, Len(@))]
     \/ /\ r \in open /\ ~Interrupted(r) /\ Complete(r) <= 0
        /\ rest' = [rest EXCEPT ![r] = <<>>]
        /\ Finish(r)
  /\ UNCHANGED <<queue, callVars, channel, heard, open>>

\* send_stream_event: one event of the batch.  Text waits for room in the
\* channel; the done marker ends the task whatever the batch still holds.
HandOver(r) ==
  /\ phase[r] = "streaming" /\ batch[r] # <<>>
  /\ LET event == Head(batch[r])
     IN \/ /\ event = "done"
           /\ Return(r, "ok")
           /\ UNCHANGED <<batch, channel>>
        \/ /\ event \in {"garbage", "failed", "cut"}
           /\ Fail(r, "StreamProtocol")
           /\ UNCHANGED <<batch, channel>>
        \/ /\ event = "silent"
           /\ batch' = [batch EXCEPT ![r] = Tail(@)]
           /\ UNCHANGED <<phase, holders, result, channel>>
        \/ /\ event \in Texts /\ Interrupted(r)
           /\ Fail(r, Interruption(r))
           /\ UNCHANGED <<batch, channel>>
        \/ /\ event \in Texts /\ ~Interrupted(r) /\ r \notin open
           /\ Return(r, "gone")
           /\ UNCHANGED <<batch, channel>>
        \/ /\ event \in Texts /\ ~Interrupted(r) /\ r \in open
           /\ Len(channel[r]) < Capacity
           /\ channel' = [channel EXCEPT ![r] = Append(@, event)]
           /\ batch' = [batch EXCEPT ![r] = Tail(@)]
           /\ UNCHANGED <<phase, holders, result>>
  /\ UNCHANGED <<queue, callVars, rest, heard, open>>

\* send_stream_error: the last item of the stream.
SendStreamError(r) ==
  /\ phase[r] = "failing"
  /\ \/ /\ r \notin open
        /\ UNCHANGED channel
     \/ /\ r \in open /\ Len(channel[r]) < Capacity
        /\ channel' = [channel EXCEPT ![r] = Append(@, result[r])]
  /\ Return(r, result[r])
  /\ UNCHANGED <<queue, callVars, rest, batch, heard, open>>

Task(r) == \/ AcquirePermit(r) \/ RetryDelay(r) \/ ReadBody(r)
           \/ ReceiveChunk(r) \/ HandOver(r) \/ SendStreamError(r)
           \/ \E met \in Attempts : Attempt(r, met)

-----------------------------------------------------------------------------
(* The caller and the clock.                                                 *)

\* The caller takes the next item; after the last one it sees the stream end.
Take(r) ==
  /\ r \in open
  /\ \/ /\ channel[r] # <<>>
        /\ heard' = [heard EXCEPT ![r] = Append(@, Head(channel[r]))]
        /\ channel' = [channel EXCEPT ![r] = Tail(@)]
        /\ UNCHANGED open
     \/ /\ channel[r] = <<>> /\ phase[r] = "ended"
        /\ heard' = [heard EXCEPT ![r] = Append(@, "end")]
        /\ open' = open \ {r}
        /\ UNCHANGED channel
  /\ UNCHANGED <<phase, queue, holders, result, callVars, rest, batch>>

\* The caller lets an unfinished stream go.
Drop(r) ==
  /\ r \in open
  /\ open' = open \ {r}
  /\ channel' = [channel EXCEPT ![r] = <<>>]
  /\ UNCHANGED <<phase, queue, holders, result, callVars, rest, batch, heard>>

Cancel(r) ==
  /\ phase[r] \notin {"idle", "ended"} /\ ~cancelled[r]
  /\ cancelled' = [cancelled EXCEPT ![r] = TRUE]
  /\ UNCHANGED <<phase, queue, holders, result, retries, posts, expired, answer, streamVars>>

DeadlinePasses(r) ==
  /\ phase[r] \notin {"idle", "ended"} /\ ~expired[r]
  /\ expired' = [expired EXCEPT ![r] = TRUE]
  /\ UNCHANGED <<phase, queue, holders, result, retries, posts, cancelled, answer, streamVars>>

Next == \E r \in Requests :
          Call(r) \/ Task(r) \/ Take(r) \/ Drop(r) \/ Cancel(r) \/ DeadlinePasses(r)

Spec == Init /\ [][Next]_vars

\* A step of the task that waits for nothing the service does.
Prompt(r) ==
  /\ Task(r)
  /\ phase[r] \in {"sending", "reading"} => Interrupted(r)
  /\ (phase[r] = "streaming" /\ batch[r] = <<>>) => Interrupted(r) \/ r \notin open

\* The runtime polls every task that can move, time reaches every deadline, and
\* the daemon's loop over a stream keeps taking its items.  Nothing is assumed
\* of the service: it may never answer.
Fairness == \A r \in Requests :
  WF_vars(Prompt(r)) /\ WF_vars(DeadlinePasses(r)) /\ WF_vars(Take(r))

FairSpec == Spec /\ Fairness

-----------------------------------------------------------------------------
TypeOK ==
  /\ phase \in [Requests -> Phases] /\ holders \subseteq Requests
  /\ ToSet(queue) \subseteq Requests /\ open \subseteq Requests
  /\ retries \in [Requests -> 0..MaxRetries]
  /\ posts \in [Requests -> 0..(MaxRetries + 1)]
  /\ \A r \in Requests : Len(channel[r]) <= Capacity

\* max_concurrency bounds the calls the service sees at a time, a stream being
\* read included: the permit moves into the stream's task with the response.
WireIsBounded ==
  Cardinality({r \in Requests : phase[r] \in Working}) <= MaxConcurrency

TextOf(items) ==
  LET text[n \in 0..Len(items)] ==
        IF n = 0 THEN <<>>
        ELSE IF items[n] \in Texts THEN Append(text[n - 1], items[n]) ELSE text[n - 1]
  IN  text[Len(items)]

\* The events of an answer up to its first done marker.
BeforeDone(events) ==
  LET marks == {i \in DOMAIN events : events[i] = "done"}
  IN  IF marks = {} THEN events
      ELSE SubSeq(events, 1, (CHOOSE i \in marks : \A j \in marks : i <= j) - 1)

\* Whatever the chunks were, the caller reads the text of the answer in order,
\* none of it twice and none after the done marker; and a stream that ends
\* without an error item has delivered all of a marked answer.
StreamIsFaithful ==
  \A r \in Requests :
    LET told == TextOf(BeforeDone(answer[r].events))
    IN  /\ IsPrefix(TextOf(heard[r]), told)
        /\ (heard[r] # <<>> /\ Last(heard[r]) = "end" /\ ToSet(heard[r]) \cap Errors = {})
             => TextOf(heard[r]) = told /\ "done" \in ToSet(answer[r].events)

\* The service never sees more calls at once than allowed, and a caller reads of its
\* answer what was in it.
CallsAreFaithful == TypeOK /\ WireIsBounded /\ StreamIsFaithful

\* Nothing more is put on the wire once the token is cancelled or the deadline
\* has passed: no retry outlives an erasure of the context it carries.
NothingIsPostedLate ==
  [][\A r \in Requests : posts'[r] > posts[r] => ~Interrupted(r)]_vars

\* Every call ends and gives its permit back, even when the service stays
\* silent, as long as the caller keeps reading or lets go.
CallsEnd == \A r \in Requests : phase[r] = "queued" ~> phase[r] = "ended"
=============================================================================

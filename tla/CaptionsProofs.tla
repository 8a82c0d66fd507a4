---------------------------- MODULE CaptionsProofs ----------------------------
(***************************************************************************)
(* CaptionsSafe and CompletedMeansAll, in three parts.                     *)
(*                                                                         *)
(* The provider session (SpeechInv), for any number of chunks, results and *)
(* retries and any length of the queue.  The audio side counts: what the   *)
(* queue has accepted is sent, in the sender's hands or in the queue, in   *)
(* this order and before the stop mark (QueueOk).  The event side numbers  *)
(* the messages of the remote task: the first says "started", the next     *)
(* said ones are results, one more is the end; the log of the provider is  *)
(* a prefix of that stream, the wire holds the rest of it, and what the    *)
(* reader has not read is a suffix of the log (LogOk, WireOk, ReadOk).     *)
(*                                                                         *)
(* The session's row (LiveInv), for any kind of session and any number of  *)
(* faults, stops and crashes.  A commit may find the row changed since its *)
(* SELECT; what saves translation and cleanup is that each has one writer  *)
(* (OwnedColumns), so that what that writer has seen is still there.  The  *)
(* rest follows the writers through their open transactions: Going and     *)
(* LastTranslation are the worker's step and the translation as they will  *)
(* be when its transaction is committed.                                   *)
(*                                                                         *)
(* The projection to media events (MediaInv), for any captions, batches,   *)
(* writers of the session's status, exceptions and crashes.  Of the ends   *)
(* of a session there is at most one event, which is what the offset of    *)
(* any of them says: a second end finds it and appends nothing.  While a   *)
(* batch is held, no event is of a later revision than its item (Below),   *)
(* so that what is appended comes in order.  The loops over a batch are    *)
(* recursive functions: LoopRuns shows that they are defined and           *)
(* LoopInduction what holds after their last turn.                         *)
(***************************************************************************)
EXTENDS MCLiveSession, Loops

(* The values of the session's, the provider's and the remote task's state.*)
SpeechTypes ==
  /\ ss \in {"idle", "starting", "started", "finishing", "completed", "failed", "closed"}
  /\ audioQueue \in Seq(Nat)
  /\ sender \in {"off", "idle", "sending", "ok", "failed", "cancelled"}
  /\ reader \in {"off", "on", "ok", "failed", "cancelled"}
  /\ fpc \in {"none", "draining", "asking", "waiting", "reading", "raised"}
  /\ ps \in {"idle", "connecting", "starting", "started", "finishing", "completed", "failed", "closed"}
  /\ signal \in {"none", "ok", "error"}
  /\ events \in Seq({"started", "result", "completed", "error", "closed"})
  /\ log \in Seq({"started", "result", "completed", "error"})
  /\ wire \in Seq({"started", "result", "finished", "failed", "eof"})
  /\ srv \in {"none", "asked", "up", "finishing", "ended"}
  /\ accepted \in Nat /\ sent \in Nat /\ said \in Nat /\ handled \in Nat

(* The chunks that have left the queue, and those that are still in it.    *)
Taken == IF sender = "sending" THEN sent + 1 ELSE sent

(* The queue holds the accepted chunks that were not taken, and perhaps    *)
(* the stop mark behind them.                                              *)
QueueOk ==
  sender \in {"off", "idle", "sending", "ok"} =>
    /\ Taken <= accepted
    /\ \A i \in 1..(accepted - Taken) : i \in DOMAIN audioQueue /\ audioQueue[i] # Stop
    /\ \/ Len(audioQueue) = accepted - Taken
       \/ /\ Len(audioQueue) = accepted - Taken + 1 /\ audioQueue[Len(audioQueue)] = Stop
          /\ ss # "started" /\ sender \in {"idle", "sending"}
    /\ sender = "ok" => sent = accepted /\ ss # "started"

(* No failure has been published.                                          *)
Unfailed == \A i \in 1..Len(log) : log[i] # "error"

(* The stream of an unfailed provider: its end is message said + 2.        *)
Ended == Len(log) = said + 2

LogOk ==
  /\ Len(log) <= said + 2
  /\ \A i \in 1..Len(log) :
       log[i] = IF i = 1 THEN "started" ELSE IF i <= said + 1 THEN "result" ELSE "completed"

WireOk ==
  /\ Ended => srv = "ended" /\ wire = <<>>
  /\ srv \in {"none", "asked"} => log = <<>> /\ wire = <<>> /\ said = 0
  /\ srv \in {"up", "finishing"} =>
       /\ Len(log) + Len(wire) = said + 1
       /\ \A j \in 1..Len(wire) : wire[j] = IF Len(log) + j = 1 THEN "started" ELSE "result"
  /\ srv = "ended" /\ ~Ended =>
       \/ log = <<>> /\ said = 0 /\ Len(wire) = 1 /\ wire[1] \in {"failed", "eof"}
       \/ /\ Len(log) + Len(wire) = said + 2
          /\ \A j \in 1..Len(wire) :
               IF Len(log) + j = 1 THEN wire[j] = "started"
               ELSE IF Len(log) + j <= said + 1 THEN wire[j] = "result"
               ELSE wire[j] \in {"finished", "failed", "eof"}

(* The reader has read the first HasRead events, and handled the results   *)
(* among them.                                                             *)
Published == IF Ended THEN Len(log) + 1 ELSE Len(log)

HasRead == Published - Len(events)

ReadOk ==
  /\ Len(events) <= Published
  /\ \A k \in 1..Len(events) : events[k] = IF HasRead + k <= Len(log) THEN log[HasRead + k] ELSE "closed"
  /\ reader \in {"off", "on", "ok"} =>
       handled = IF HasRead = 0 THEN 0 ELSE IF HasRead <= said + 1 THEN HasRead - 1 ELSE said
  /\ reader = "ok" => Ended /\ Len(events) = 0

(* What the states of the session and of its provider say of each other.   *)
ProviderOk ==
  /\ ps \in {"idle", "connecting"} =>
       log = <<>> /\ events = <<>> /\ wire = <<>> /\ said = 0 /\ srv = "none" /\ ~open /\ signal = "none"
  /\ open => /\ Unfailed /\ ~Ended /\ signal = "none"
             /\ IF log = <<>> THEN ps = "starting" ELSE ps \in {"started", "finishing"}
  /\ ps \in {"started", "finishing"} => open
  /\ ps = "completed" => Unfailed /\ Ended
  /\ signal = "ok" => Unfailed /\ Ended

PhaseOk ==
  /\ ss \in {"idle", "starting"} => sender = "off" /\ reader = "off" /\ handled = 0 /\ fpc = "none"
  /\ fpc \in {"draining", "asking", "waiting", "reading"} => ss = "finishing"
  /\ fpc \in {"asking", "waiting", "reading"} => sender = "ok"
  /\ fpc = "reading" => Unfailed /\ Ended
  /\ ss = "completed" => fpc = "none" /\ sender = "ok" /\ reader = "ok" /\ Unfailed /\ Ended

SpeechInv ==
  /\ SpeechTypes /\ QueueOk /\ ProviderOk /\ PhaseOk
  /\ Unfailed => LogOk /\ WireOk /\ ReadOk

-----------------------------------------------------------------------------
(* What is published.                                                      *)

(* The end of the events has been published when the stream has ended or   *)
(* failed.                                                                 *)
LEMMA EmittedIs ==
  ASSUME SpeechInv
  PROVE Emitted <=> (~Unfailed \/ Ended)
<1>1. SpeechTypes /\ (Unfailed => LogOk) /\ DOMAIN log = 1..Len(log) /\ Len(log) \in Nat /\ said \in Nat
  BY DEF SpeechInv, SpeechTypes
<1>2. CASE ~Unfailed
  <2>1. PICK i \in 1..Len(log) : log[i] = "error"
    BY <1>2 DEF Unfailed
  <2>2. i \in DOMAIN log /\ log[i] \in TerminalEvents
    BY <1>1, <2>1 DEF TerminalEvents
  <2> QED BY <1>2, <2>2 DEF Emitted
<1>3. CASE Unfailed /\ Ended
  <2>1. Len(log) \in 1..Len(log) /\ log[Len(log)] = "completed"
    BY <1>1, <1>3 DEF LogOk, Ended
  <2> QED BY <1>1, <1>3, <2>1 DEF Emitted, TerminalEvents
<1>4. CASE Unfailed /\ ~Ended
  <2>1. \A i \in 1..Len(log) : log[i] \in {"started", "result"}
    <3>1. LogOk
      BY <1>1, <1>4, Zenon
    <3>2. Len(log) <= said + 2 /\ Len(log) # said + 2 /\ Len(log) \in Nat /\ said \in Nat
      BY <1>1, <1>4, <3>1, Zenon DEF LogOk, Ended
    <3>3. Len(log) <= said + 1
      BY <3>2
    <3> QED BY <1>1, <3>1, <3>3 DEF LogOk
  <2>2. ASSUME NEW i \in DOMAIN log PROVE log[i] \notin TerminalEvents
    BY <1>1, <2>1, <2>2 DEF TerminalEvents
  <2> QED BY <1>4, <2>2 DEF Emitted
<1> QED BY <1>2, <1>3, <1>4

(* A failure is published, or comes after the end.                         *)
LEMMA Fails ==
  ASSUME SpeechInv, PublishFailure
  PROVE /\ log' \in Seq({"started", "result", "completed", "error"})
        /\ events' \in Seq({"started", "result", "completed", "error", "closed"})
        /\ signal' \in {"none", "ok", "error"}
        /\ \/ (~Unfailed \/ Ended) /\ UNCHANGED <<ps, signal, events, log>>
           \/ /\ Unfailed /\ ~Ended /\ ~Unfailed' /\ ps' = "failed"
              /\ signal' = signal \/ signal' = "error"
<1>1. log \in Seq({"started", "result", "completed", "error"})
      /\ events \in Seq({"started", "result", "completed", "error", "closed"}) /\ signal \in {"none", "ok", "error"}
  BY DEF SpeechInv, SpeechTypes
<1>2. CASE Emitted
  BY <1>1, <1>2, EmittedIs DEF PublishFailure
<1>3. CASE ~Emitted
  <2>1. /\ log' = Append(log, "error") /\ events' = events \o <<"error", "closed">> /\ ps' = "failed"
        /\ signal' = signal \/ signal' = "error"
    BY <1>3 DEF PublishFailure, Publish1, TerminalEvents
  <2>2. log' \in Seq({"started", "result", "completed", "error"}) /\ log'[Len(log')] = "error" /\ Len(log') \in 1..Len(log')
    BY <1>1, <2>1
  <2>3. events' \in Seq({"started", "result", "completed", "error", "closed"})
    <3>1. <<"error", "closed">> \in Seq({"started", "result", "completed", "error", "closed"})
      OBVIOUS
    <3> QED BY <1>1, <2>1, <3>1
  <2> QED BY <1>1, <1>3, <2>1, <2>2, <2>3, EmittedIs DEF Unfailed
<1> QED BY <1>2, <1>3

(* A message that does not end the stream is published.                    *)
LEMMA Publishes ==
  ASSUME SpeechInv, Unfailed, ~Ended, NEW e \in {"started", "result", "completed"}, Publish1(e)
  PROVE /\ log' = Append(log, e)
        /\ events' = IF e = "completed" THEN Append(Append(events, e), "closed") ELSE Append(events, e)
<1>1. events \in Seq({"started", "result", "completed", "error", "closed"}) /\ ~Emitted
  BY EmittedIs DEF SpeechInv, SpeechTypes
<1>2. log' = Append(log, e) /\ events' = events \o IF e \in TerminalEvents THEN <<e, "closed">> ELSE <<e>>
  BY <1>1 DEF Publish1
<1>3. events \o <<e>> = Append(events, e) /\ events \o <<e, "closed">> = Append(Append(events, e), "closed")
  BY <1>1
<1> QED BY <1>2, <1>3 DEF TerminalEvents

-----------------------------------------------------------------------------
(* Steps that leave the stream or its reader alone.                        *)

(* Neither the log nor the wire moves.                                     *)
LEMMA SameStream ==
  ASSUME UNCHANGED <<log, said, wire>>, srv' = srv \/ (srv = "up" /\ srv' = "finishing")
  PROVE (Unfailed' <=> Unfailed) /\ (Ended' <=> Ended) /\ (LogOk => LogOk') /\ (WireOk => WireOk')
<1>1. (Unfailed' <=> Unfailed) /\ (Ended' <=> Ended)
  BY DEF Unfailed, Ended
<1>2. LogOk => LogOk'
  BY DEF LogOk
<1>3. WireOk => WireOk'
  BY <1>1 DEF WireOk
<1> QED BY <1>1, <1>2, <1>3

(* The reader reads nothing; it may begin or stop reading.                 *)
LEMMA SameReader ==
  ASSUME UNCHANGED <<log, said, events, handled>>,
         reader' = reader \/ (reader = "off" /\ reader' = "on") \/ reader' = "cancelled"
  PROVE ReadOk => ReadOk'
<1>1. Ended' <=> Ended
  BY DEF Ended
<1>2. Published' = Published /\ HasRead' = HasRead
  BY <1>1 DEF Published, HasRead
<1> QED BY <1>1, <1>2 DEF ReadOk

(* The chunks are left alone; the sender may be stopped for good.          *)
LEMMA SameQueue ==
  ASSUME QueueOk, UNCHANGED <<audioQueue, accepted, sent>>,
         sender' = sender \/ sender' \in {"failed", "cancelled"}, ss' = "started" => ss = "started"
  PROVE QueueOk'
<1>1. CASE sender' \in {"failed", "cancelled"}
  BY <1>1 DEF QueueOk
<1>2. CASE sender' = sender
  <2>1. Taken' = Taken
    BY <1>2 DEF Taken
  <2> QED BY <1>2, <2>1 DEF QueueOk
<1> QED BY <1>1, <1>2

(* What the provider is in is told by its log alone.                       *)
LEMMA SameProvider ==
  ASSUME ProviderOk, UNCHANGED <<ps, open, signal, events, log, wire, srv, said>>
  PROVE ProviderOk'
<1>1. (Unfailed' <=> Unfailed) /\ (Ended' <=> Ended)
  BY DEF Unfailed, Ended
<1> QED BY <1>1 DEF ProviderOk

(* Steps of the session alone: its start, its frames and its finish.       *)
LEMMA SessionKeeps ==
  ASSUME SpeechInv,
         Started \/ SendFrame \/ SenderTakes \/ SenderSends \/ FinishBegins \/ PutStop \/ SenderDrained \/ EventsRead
  PROVE SpeechInv'
<1>1. SpeechTypes /\ QueueOk /\ ProviderOk /\ PhaseOk /\ (Unfailed => LogOk /\ WireOk /\ ReadOk)
  BY DEF SpeechInv
<1>2. /\ UNCHANGED <<ps, open, signal, events, log, wire, srv, said, handled>>
      /\ reader' = reader \/ (reader = "off" /\ reader' = "on")
  BY <1>1 DEF Started, SendFrame, SenderTakes, SenderSends, FinishBegins, PutStop, SenderDrained, EventsRead,
              FinishRaises, providerSide, PhaseOk
<1>3. ProviderOk'
  BY <1>1, <1>2, SameProvider
<1>4. Unfailed' => LogOk' /\ WireOk' /\ ReadOk'
  BY <1>1, <1>2, SameStream, SameReader
<1>5. (Unfailed' <=> Unfailed) /\ (Ended' <=> Ended)
  BY <1>2, SameStream
<1>6. audioQueue \in Seq(Nat) /\ accepted \in Nat /\ sent \in Nat /\ Len(audioQueue) \in Nat
      /\ Append(audioQueue, accepted + 1) \in Seq(Nat) /\ Append(audioQueue, Stop) \in Seq(Nat)
      /\ (audioQueue # <<>> => Tail(audioQueue) \in Seq(Nat))
  BY <1>1 DEF SpeechTypes, Stop
<1>7. SpeechTypes'
  <2>1. audioQueue' \in Seq(Nat) /\ accepted' \in Nat /\ sent' \in Nat
    <3>1. /\ accepted' \in {accepted, accepted + 1} /\ sent' \in {sent, sent + 1}
          /\ \/ audioQueue' \in {audioQueue, Append(audioQueue, accepted + 1), Append(audioQueue, Stop)}
             \/ audioQueue # <<>> /\ audioQueue' = Tail(audioQueue)
      BY DEF Started, SendFrame, SenderTakes, SenderSends, FinishBegins, PutStop, SenderDrained, EventsRead,
             FinishRaises
    <3>2. audioQueue' \in Seq(Nat)
      BY <1>6, <3>1, Zenon
    <3>3. accepted' \in {accepted, accepted + 1} /\ sent' \in {sent, sent + 1} /\ accepted \in Nat /\ sent \in Nat
      BY <1>6, <3>1, Zenon
    <3>4. accepted' \in Nat /\ sent' \in Nat
      BY <3>3
    <3> QED BY <3>2, <3>4
  <2>2. /\ ss' \in {ss, "started", "finishing", "completed", "failed"}
        /\ sender' \in {sender, "idle", "sending", "ok", "failed"}
        /\ fpc' \in {fpc, "draining", "asking", "raised", "none"}
    BY DEF Started, SendFrame, SenderTakes, SenderSends, FinishBegins, PutStop, SenderDrained, EventsRead,
           FinishRaises
  <2> QED BY <1>1, <1>2, <2>1, <2>2 DEF SpeechTypes
<1>8. PhaseOk'
  <2>1. CASE Started \/ SendFrame \/ SenderTakes \/ SenderSends
    BY <1>1, <1>2, <1>5, <2>1 DEF PhaseOk, Started, SendFrame, SenderTakes, SenderSends
  <2>2. CASE FinishBegins \/ PutStop
    BY <1>1, <1>2, <1>5, <2>2 DEF PhaseOk, FinishBegins, PutStop
  <2>3. CASE SenderDrained
    BY <1>1, <1>2, <1>5, <2>3 DEF PhaseOk, SenderDrained, FinishRaises
  <2>4. CASE EventsRead
    BY <1>1, <1>2, <1>5, <2>4 DEF PhaseOk, EventsRead, FinishRaises
  <2> QED BY <2>1, <2>2, <2>3, <2>4
<1>9. QueueOk'
  <2>1. CASE Started
    BY <1>1, <1>6, <2>1 DEF Started, QueueOk, Taken, PhaseOk
  <2>2. CASE SenderDrained \/ EventsRead
    <3>1. UNCHANGED <<audioQueue, accepted, sent, sender>> /\ (ss' = "started" => ss = "started")
      BY <2>2 DEF SenderDrained, EventsRead, FinishRaises
    <3> QED BY <1>1, <3>1, SameQueue
  <2>3. CASE SenderTakes
    <3>1. /\ sender = "idle" /\ audioQueue # <<>> /\ audioQueue' = Tail(audioQueue)
          /\ sender' = IF audioQueue[1] = Stop THEN "ok" ELSE "sending"
          /\ UNCHANGED <<ss, accepted, sent>>
      BY <1>6, <2>3 DEF SenderTakes
    <3>2. Len(audioQueue') = Len(audioQueue) - 1 /\ Len(audioQueue) > 0
          /\ \A i \in 1..(Len(audioQueue) - 1) : audioQueue'[i] = audioQueue[i + 1]
      BY <1>6, <3>1
    <3>3. Taken = sent /\ sent <= accepted
      BY <1>1, <3>1 DEF QueueOk, Taken
    <3>4. CASE audioQueue[1] = Stop
      <4>1. accepted = sent /\ Len(audioQueue) = 1 /\ ss # "started"
        BY <1>1, <1>6, <3>1, <3>2, <3>3, <3>4 DEF QueueOk
      <4> QED BY <1>6, <3>1, <3>2, <3>4, <4>1 DEF QueueOk, Taken
    <3>5. CASE audioQueue[1] # Stop
      <4>1. accepted > sent
        BY <1>1, <1>6, <3>1, <3>2, <3>3, <3>5 DEF QueueOk
      <4>2. Taken' = sent + 1 /\ sender' = "sending"
        BY <3>1, <3>5 DEF Taken
      <4>3. DOMAIN audioQueue' = 1..(Len(audioQueue) - 1) /\ DOMAIN audioQueue = 1..Len(audioQueue)
        BY <1>6, <3>1, <3>2
      <4> QED BY <1>1, <1>6, <3>1, <3>2, <3>3, <4>1, <4>2, <4>3 DEF QueueOk
    <3> QED BY <3>4, <3>5
  <2>4. CASE SenderSends
    BY <1>1, <1>6, <2>4 DEF SenderSends, QueueOk, Taken
  <2>5. CASE SendFrame \/ FinishBegins
    <3>1. CASE UNCHANGED <<audioQueue, accepted>>
      <4>1. UNCHANGED <<audioQueue, accepted, sent, sender>> /\ (ss' = "started" => ss = "started")
        BY <2>5, <3>1 DEF SendFrame, FinishBegins
      <4> QED BY <1>1, <4>1, SameQueue
    <3>2. CASE accepted' = accepted + 1 /\ audioQueue' = Append(audioQueue, accepted + 1)
      <4>1. UNCHANGED <<sent, sender>> /\ ss = "started"
        BY <2>5 DEF SendFrame, FinishBegins
      <4>2. Len(audioQueue') = Len(audioQueue) + 1 /\ audioQueue'[Len(audioQueue) + 1] = accepted + 1
            /\ \A i \in 1..Len(audioQueue) : audioQueue'[i] = audioQueue[i]
        BY <1>6, <3>2
      <4>3. Taken' = Taken /\ Taken \in Nat /\ DOMAIN audioQueue' = 1..(Len(audioQueue) + 1)
        BY <1>6, <3>2, <4>1 DEF Taken
      <4> QED BY <1>1, <1>6, <3>2, <4>1, <4>2, <4>3 DEF QueueOk, Stop
    <3> QED BY <2>5, <3>1, <3>2 DEF SendFrame, FinishBegins
  <2>6. CASE PutStop
    <3>1. /\ UNCHANGED <<ss, sender, sent, accepted>> /\ sender \in {"idle", "sending"} /\ ss # "started"
          /\ audioQueue' = Append(audioQueue, Stop) /\ \A i \in DOMAIN audioQueue : audioQueue[i] # Stop
      BY <1>1, <2>6 DEF PutStop, PhaseOk
    <3>2. Len(audioQueue') = Len(audioQueue) + 1 /\ audioQueue'[Len(audioQueue) + 1] = Stop
          /\ \A i \in 1..Len(audioQueue) : audioQueue'[i] = audioQueue[i]
      BY <1>6, <3>1 DEF Stop
    <3>3. Taken' = Taken /\ Taken \in Nat /\ DOMAIN audioQueue' = 1..(Len(audioQueue) + 1)
          /\ DOMAIN audioQueue = 1..Len(audioQueue)
      BY <1>6, <3>1 DEF Taken, Stop
    <3>4. /\ Taken <= accepted /\ Len(audioQueue) = accepted - Taken
          /\ \A i \in 1..(accepted - Taken) : i \in DOMAIN audioQueue /\ audioQueue[i] # Stop
      <4>1. /\ Taken <= accepted
            /\ \/ Len(audioQueue) = accepted - Taken
               \/ Len(audioQueue) \in DOMAIN audioQueue /\ audioQueue[Len(audioQueue)] = Stop
        <5>1. /\ Taken <= accepted
              /\ \/ Len(audioQueue) = accepted - Taken
                 \/ Len(audioQueue) = accepted - Taken + 1 /\ audioQueue[Len(audioQueue)] = Stop
          BY <1>1, <3>1 DEF QueueOk
        <5>2. Len(audioQueue) \in Nat /\ accepted \in Nat /\ Taken \in Nat /\ DOMAIN audioQueue = 1..Len(audioQueue)
          BY <1>6, <3>3
        <5>3. \A n, a, t \in Nat : t <= a /\ n = a - t + 1 => n \in 1..n
          OBVIOUS
        <5>4. Len(audioQueue) = accepted - Taken + 1 => Len(audioQueue) \in DOMAIN audioQueue
          BY <5>1, <5>2, <5>3, Zenon
        <5> QED BY <5>1, <5>4, Zenon
      <4> QED BY <1>1, <3>1, <4>1, Zenon DEF QueueOk
    <3>5. \A i \in 1..(accepted' - Taken') : i \in DOMAIN audioQueue' /\ audioQueue'[i] # Stop
      BY <1>6, <3>1, <3>2, <3>3, <3>4
    <3>6. Taken' <= accepted' /\ Len(audioQueue') = accepted' - Taken' + 1
      BY <1>6, <3>1, <3>2, <3>3, <3>4
    <3> QED BY <3>1, <3>2, <3>5, <3>6 DEF QueueOk
  <2> QED BY <2>1, <2>2, <2>3, <2>4, <2>5, <2>6
<1> QED BY <1>3, <1>4, <1>7, <1>8, <1>9 DEF SpeechInv

-----------------------------------------------------------------------------
(* Steps of the remote task and of the provider.                           *)

(* The remote task says something: it goes on the wire.                    *)
LEMMA ServerKeeps ==
  ASSUME SpeechInv, ServerStarts \/ ServerResult \/ ServerFinishes \/ ServerEnds
  PROVE SpeechInv'
<1>1. SpeechTypes /\ QueueOk /\ ProviderOk /\ PhaseOk /\ (Unfailed => LogOk /\ WireOk /\ ReadOk)
  BY DEF SpeechInv
<1>2. /\ UNCHANGED <<ss, audioQueue, sender, reader, fpc, accepted, sent, handled, ps, open, signal, events, log>>
      /\ srv \in {"asked", "up", "finishing"}
  BY DEF ServerStarts, ServerResult, ServerFinishes, ServerEnds, Says, sessionSide
<1>3. PICK m \in {"started", "result", "finished", "failed", "eof"} :
        /\ wire' = Append(wire, m)
        /\ \/ srv = "asked" /\ srv' = "up" /\ m = "started" /\ said' = said
           \/ srv \in {"up", "finishing"} /\ srv' = srv /\ m = "result" /\ said' = said + 1
           \/ srv \in {"up", "finishing"} /\ srv' = "ended" /\ m \in {"finished", "failed", "eof"} /\ said' = said
           \/ srv = "asked" /\ srv' = "ended" /\ m \in {"failed", "eof"} /\ said' = said
  BY DEF ServerStarts, ServerResult, ServerFinishes, ServerEnds, Says
<1>4. wire \in Seq({"started", "result", "finished", "failed", "eof"}) /\ Len(wire) \in Nat /\ said \in Nat
      /\ Len(log) \in Nat /\ Len(events) \in Nat
  BY <1>1 DEF SpeechTypes
<1>5. wire' \in Seq({"started", "result", "finished", "failed", "eof"}) /\ Len(wire') = Len(wire) + 1
      /\ wire'[Len(wire) + 1] = m /\ \A j \in 1..Len(wire) : wire'[j] = wire[j]
  BY <1>3, <1>4
<1>6. SpeechTypes'
  <2>1. srv' \in {"up", "finishing", "ended"} /\ said' \in Nat
    BY <1>3, <1>4
  <2> QED BY <1>1, <1>2, <1>5, <2>1 DEF SpeechTypes
<1>7. QueueOk'
  BY <1>1, <1>2, SameQueue
<1>8. Unfailed' <=> Unfailed
  BY <1>2 DEF Unfailed
<1>9. ASSUME Unfailed PROVE ~Ended /\ ~Ended' /\ Len(log) <= said + 1
  <2>1. LogOk /\ WireOk
    BY <1>1, <1>9
  <2>2. srv \in {"up", "finishing"} => Len(log) + Len(wire) = said + 1
    BY <2>1 DEF WireOk
  <2>3. srv = "asked" => Len(log) = 0 /\ said = 0
    BY <2>1 DEF WireOk
  <2>4. Len(log) <= said + 1
    BY <1>2, <1>4, <2>2, <2>3
  <2> QED BY <1>2, <1>3, <1>4, <2>4 DEF Ended
<1>10. ProviderOk'
  BY <1>1, <1>2, <1>8, <1>9 DEF ProviderOk
<1>11. PhaseOk'
  BY <1>1, <1>2, <1>8, <1>9 DEF PhaseOk
<1>12. ASSUME Unfailed PROVE LogOk' /\ WireOk' /\ ReadOk'
  <2>1. LogOk /\ WireOk /\ ReadOk /\ ~Ended /\ ~Ended' /\ Len(log) <= said + 1
    BY <1>1, <1>9, <1>12
  <2>2. LogOk'
    <3>1. said' \in Nat /\ said <= said' /\ log' = log
      BY <1>2, <1>3, <1>4
    <3>2. \A i \in 1..Len(log) : log[i] = IF i = 1 THEN "started" ELSE "result"
      BY <1>4, <2>1 DEF LogOk
    <3>3. PICK n \in Nat : n = said'
      BY <3>1
    <3>4. PICK l \in Nat : l = Len(log)
      BY <1>4
    <3>5. PICK k \in Nat : k = said
      BY <1>4
    <3>6. l <= k + 1 /\ k <= n
      BY <2>1, <3>1, <3>3, <3>4, <3>5, Zenon
    <3>7. l <= n + 2 /\ \A i \in 1..l : i <= n + 1
      BY <3>6
    <3>8. Len(log) <= said' + 2 /\ \A i \in 1..Len(log) : i <= said' + 1
      BY <3>3, <3>4, <3>7, Zenon
    <3> QED BY <3>1, <3>2, <3>8 DEF LogOk
  <2>3. ReadOk'
    <3>1. Published = Len(log) /\ Published' = Len(log) /\ HasRead' = HasRead
      BY <1>2, <2>1 DEF Published, HasRead
    <3>2. HasRead <= said + 1 /\ HasRead <= said' + 1
      <4>1. said' \in Nat /\ said <= said'
        BY <1>3, <1>4
      <4>2. Len(log) \in Nat /\ Len(events) \in Nat /\ said \in Nat /\ Len(log) <= said + 1
        BY <1>4, <2>1, Zenon
      <4> QED BY <3>1, <4>1, <4>2 DEF HasRead
    <3>3. reader # "ok"
      BY <2>1 DEF ReadOk
    <3> QED BY <1>2, <2>1, <3>1, <3>2, <3>3 DEF ReadOk
  <2>4. WireOk'
    <3>1. CASE srv = "asked"
      <4>1. log = <<>> /\ wire = <<>> /\ said = 0 /\ Len(log) = 0 /\ Len(wire) = 0 /\ Len(wire') = 1 /\ wire'[1] = m
        BY <1>5, <2>1, <3>1 DEF WireOk
      <4>2. CASE srv' = "up" /\ m = "started" /\ said' = said
        BY <1>2, <2>1, <4>1, <4>2 DEF WireOk
      <4>3. CASE srv' = "ended" /\ m \in {"failed", "eof"} /\ said' = said
        BY <1>2, <2>1, <4>1, <4>3 DEF WireOk
      <4> QED BY <1>3, <3>1, <4>2, <4>3
    <3>2. CASE srv \in {"up", "finishing"}
      <4>1. Len(log) + Len(wire) = said + 1
            /\ \A j \in 1..Len(wire) : wire[j] = IF Len(log) + j = 1 THEN "started" ELSE "result"
        BY <2>1, <3>2 DEF WireOk
      <4>2. CASE srv' = srv /\ m = "result" /\ said' = said + 1
        BY <1>2, <1>4, <1>5, <2>1, <3>2, <4>1, <4>2, SMTT(30) DEF WireOk
      <4>3. CASE srv' = "ended" /\ m \in {"finished", "failed", "eof"} /\ said' = said
        BY <1>2, <1>4, <1>5, <2>1, <3>2, <4>1, <4>3, SMTT(30) DEF WireOk
      <4> QED BY <1>3, <3>2, <4>2, <4>3
    <3> QED BY <1>2, <3>1, <3>2
  <2> QED BY <2>2, <2>3, <2>4
<1> QED BY <1>6, <1>7, <1>8, <1>10, <1>11, <1>12 DEF SpeechInv

(* The next message of an open, unfailed stream is published: the reader   *)
(* has one event more before it, or two at the end.                        *)
LEMMA MoreToRead ==
  ASSUME SpeechTypes, LogOk, ReadOk, ~Ended, NEW e \in {"started", "result", "completed"},
         log' = Append(log, e), UNCHANGED <<said, reader, handled>>,
         events' = IF e = "completed" THEN Append(Append(events, e), "closed") ELSE Append(events, e),
         Ended' <=> e = "completed"
  PROVE ReadOk'
<1>1. /\ Len(log) \in Nat /\ Len(events) \in Nat /\ said \in Nat
      /\ Len(log') = Len(log) + 1 /\ log'[Len(log) + 1] = e /\ \A i \in 1..Len(log) : log'[i] = log[i]
  BY DEF SpeechTypes
<1>2. Published = Len(log) /\ Len(log) <= said + 1 /\ HasRead = Len(log) - Len(events) /\ Len(events) <= Len(log)
  BY <1>1 DEF Published, HasRead, ReadOk, LogOk, Ended
<1>3. HasRead' = HasRead
  <2>1. CASE e = "completed"
    <3>1. Len(events') = Len(events) + 2 /\ Published' = Len(log) + 2
      BY <1>1, <2>1 DEF Published, SpeechTypes
    <3> QED BY <1>1, <1>2, <3>1 DEF HasRead
  <2>2. CASE e # "completed"
    <3>1. Len(events') = Len(events) + 1 /\ Published' = Len(log) + 1
      BY <1>1, <2>2 DEF Published, SpeechTypes
    <3> QED BY <1>1, <1>2, <3>1 DEF HasRead
  <2> QED BY <2>1, <2>2
<1>4. reader # "ok"
  BY DEF ReadOk
<1>5. \A k \in 1..Len(events) : events[k] = log[HasRead + k] /\ HasRead + k \in 1..Len(log)
  BY <1>1, <1>2 DEF ReadOk
<1>6. CASE e = "completed"
  <2>1. Len(events') = Len(events) + 2 /\ events'[Len(events) + 1] = e /\ events'[Len(events) + 2] = "closed"
        /\ \A k \in 1..Len(events) : events'[k] = events[k]
    BY <1>6 DEF SpeechTypes
  <2>2. Published' = Len(log) + 2
    BY <1>1, <1>6 DEF Published
  <2>3. ASSUME NEW k \in 1..Len(events')
        PROVE events'[k] = IF HasRead + k <= Len(log') THEN log'[HasRead + k] ELSE "closed"
    <3>1. k \in 1..Len(events) \/ k = Len(events) + 1 \/ k = Len(events) + 2
      BY <1>1, <2>1
    <3>2. CASE k \in 1..Len(events)
      BY <1>1, <1>2, <1>5, <2>1, <3>2
    <3>3. CASE k = Len(events) + 1
      BY <1>1, <1>2, <2>1, <3>3
    <3>4. CASE k = Len(events) + 2
      BY <1>1, <1>2, <2>1, <3>4
    <3> QED BY <3>1, <3>2, <3>3, <3>4
  <2>4. Len(events') <= Published' /\ HasRead <= said + 1
    BY <1>1, <1>2, <2>1, <2>2
  <2> QED BY <1>3, <1>4, <2>3, <2>4 DEF ReadOk
<1>7. CASE e # "completed"
  <2>1. Len(events') = Len(events) + 1 /\ events'[Len(events) + 1] = e
        /\ \A k \in 1..Len(events) : events'[k] = events[k]
    BY <1>7 DEF SpeechTypes
  <2>2. Published' = Len(log) + 1
    BY <1>1, <1>7 DEF Published
  <2>3. ASSUME NEW k \in 1..Len(events')
        PROVE events'[k] = IF HasRead + k <= Len(log') THEN log'[HasRead + k] ELSE "closed"
    <3>1. k \in 1..Len(events) \/ k = Len(events) + 1
      BY <1>1, <2>1
    <3>2. CASE k \in 1..Len(events)
      BY <1>1, <1>2, <1>5, <2>1, <3>2
    <3>3. CASE k = Len(events) + 1
      BY <1>1, <1>2, <2>1, <3>3
    <3> QED BY <3>1, <3>2, <3>3
  <2>4. Len(events') <= Published' /\ HasRead <= said + 1
    BY <1>1, <1>2, <2>1, <2>2
  <2> QED BY <1>3, <1>4, <2>3, <2>4 DEF ReadOk
<1> QED BY <1>6, <1>7

(* The next message of the wire, as the stream numbers it.                 *)
LEMMA NextMessage ==
  ASSUME SpeechInv, NEW m, Receive(m)
  PROVE /\ Unfailed /\ ~Ended /\ LogOk /\ WireOk /\ ReadOk /\ open
        /\ Len(wire) \in Nat \ {0} /\ Len(log) \in Nat /\ said \in Nat /\ Len(log) <= said + 1
        /\ m = wire[1] /\ wire' = Tail(wire) /\ Len(wire') = Len(wire) - 1
        /\ wire' \in Seq({"started", "result", "finished", "failed", "eof"})
        /\ \A j \in 1..(Len(wire) - 1) : wire'[j] = wire[j + 1]
<1>1. open /\ wire # <<>> /\ m = Head(wire) /\ wire' = Tail(wire)
  BY DEF Receive
<1>2. wire \in Seq({"started", "result", "finished", "failed", "eof"}) /\ Len(log) \in Nat /\ said \in Nat
  BY DEF SpeechInv, SpeechTypes
<1>3. Unfailed /\ ~Ended
  BY <1>1 DEF SpeechInv, ProviderOk
<1>4. LogOk /\ WireOk /\ ReadOk
  BY <1>3 DEF SpeechInv
<1>5. Len(log) <= said + 1
  <2>1. Len(log) <= said + 2 /\ Len(log) # said + 2
    BY <1>3, <1>4 DEF LogOk, Ended
  <2> QED BY <1>2, <2>1
<1>6. Len(wire) \in Nat \ {0} /\ m = wire[1] /\ Len(wire') = Len(wire) - 1
      /\ wire' \in Seq({"started", "result", "finished", "failed", "eof"})
      /\ \A j \in 1..(Len(wire) - 1) : wire'[j] = wire[j + 1]
  BY <1>1, <1>2
<1> QED BY <1>1, <1>2, <1>3, <1>4, <1>5, <1>6

(* Where in the stream the next message stands.                            *)
LEMMA MessagePlace ==
  ASSUME SpeechInv, NEW m, Receive(m)
  PROVE /\ m = "started" => Len(log) = 0
        /\ m = "result" => Len(log) >= 1 /\ Len(log) <= said
        /\ m = "finished" => Len(log) = said + 1 /\ Len(wire) = 1 /\ srv = "ended"
        /\ srv \in {"up", "finishing", "ended"}
        /\ m \notin {"failed", "eof"} /\ srv = "ended" => Len(log) + Len(wire) = said + 2
<1>1. /\ ~Ended /\ WireOk /\ Len(wire) \in Nat \ {0} /\ Len(log) \in Nat /\ said \in Nat /\ Len(log) <= said + 1
      /\ m = wire[1] /\ 1 \in 1..Len(wire)
  BY NextMessage
<1>2. srv \in {"up", "finishing", "ended"}
  <2>1. srv \in {"none", "asked", "up", "finishing", "ended"}
    BY DEF SpeechInv, SpeechTypes
  <2>2. srv \in {"none", "asked"} => Len(wire) = 0
    BY <1>1 DEF WireOk
  <2> QED BY <1>1, <2>1, <2>2
<1>3. CASE srv \in {"up", "finishing"}
  <2>1. Len(log) + Len(wire) = said + 1 /\ m = IF Len(log) + 1 = 1 THEN "started" ELSE "result"
    BY <1>1, <1>3 DEF WireOk
  <2> QED BY <1>1, <1>2, <1>3, <2>1
<1>4. CASE srv = "ended"
  <2>1. CASE Len(log) = 0 /\ said = 0 /\ Len(wire) = 1 /\ wire[1] \in {"failed", "eof"}
    BY <1>1, <1>4, <2>1
  <2>2. CASE /\ Len(log) + Len(wire) = said + 2
             /\ IF Len(log) + 1 = 1 THEN m = "started"
                ELSE IF Len(log) + 1 <= said + 1 THEN m = "result" ELSE m \in {"finished", "failed", "eof"}
    <3>1. m = "started" => Len(log) = 0
      BY <1>1, <2>2
    <3>2. m = "result" => Len(log) >= 1 /\ Len(log) <= said
      BY <1>1, <2>2
    <3>3. m = "finished" => Len(log) = said + 1 /\ Len(wire) = 1
      <4>1. m = "finished" => ~(Len(log) + 1 <= said + 1)
        BY <1>1, <2>2
      <4>2. PICK w \in Nat \ {0}, l \in Nat, n \in Nat : w = Len(wire) /\ l = Len(log) /\ n = said
        BY <1>1
      <4>3. l + w = n + 2 /\ l <= n + 1 /\ (m = "finished" => ~(l + 1 <= n + 1))
        BY <1>1, <2>2, <4>1, <4>2, Zenon
      <4>4. m = "finished" => l = n + 1 /\ w = 1
        BY <4>3
      <4> QED BY <4>2, <4>4
    <3> QED BY <1>4, <2>2, <3>1, <3>2, <3>3
  <2> QED BY <1>1, <1>4, <2>1, <2>2 DEF WireOk
<1> QED BY <1>2, <1>3, <1>4

(* The provider takes a message of the stream: started, a result, its end. *)
LEMMA ReceiveKeeps ==
  ASSUME SpeechInv, ReceiveStarted \/ ReceiveResult \/ ReceiveFinished
  PROVE SpeechInv'
<1>1. SpeechTypes /\ QueueOk /\ ProviderOk /\ PhaseOk
  BY DEF SpeechInv
<1>2. PICK m \in {"started", "result", "finished"} :
        Receive(m) /\ (m = "started" => ReceiveStarted) /\ (m = "result" => ReceiveResult)
                   /\ (m = "finished" => ReceiveFinished)
  BY DEF ReceiveStarted, ReceiveResult, ReceiveFinished, Receive
<1> DEFINE e == IF m = "finished" THEN "completed" ELSE m
<1>3. UNCHANGED <<ss, audioQueue, sender, reader, fpc, accepted, sent, handled, srv, said>>
  BY DEF ReceiveStarted, ReceiveResult, ReceiveFinished, sessionSide
<1>4. /\ Unfailed /\ ~Ended /\ LogOk /\ WireOk /\ ReadOk /\ open
      /\ Len(wire) \in Nat \ {0} /\ Len(log) \in Nat /\ said \in Nat /\ Len(log) <= said + 1
      /\ Len(wire') = Len(wire) - 1
      /\ wire' \in Seq({"started", "result", "finished", "failed", "eof"})
      /\ \A j \in 1..(Len(wire) - 1) : wire'[j] = wire[j + 1]
  BY <1>2, NextMessage
<1>5. /\ m = "started" => Len(log) = 0
      /\ m = "result" => Len(log) >= 1 /\ Len(log) <= said
      /\ m = "finished" => Len(log) = said + 1 /\ Len(wire) = 1 /\ srv = "ended"
      /\ srv \in {"up", "finishing", "ended"}
      /\ srv = "ended" => Len(log) + Len(wire) = said + 2
  BY <1>2, MessagePlace
<1>6. /\ Publish1(e)
      /\ m = "started" => ps' = "started" /\ open' = open /\ signal' = signal
      /\ m = "result" => ps' = ps /\ ps \in {"started", "finishing"} /\ open' = open /\ signal' = signal
      /\ m = "finished" => ps' = "completed" /\ ~open' /\ signal' \in {signal, "ok"}
  <2>1. log = <<>> <=> Len(log) = 0
    BY <1>1 DEF SpeechTypes
  <2>2. IF Len(log) = 0 THEN ps = "starting" ELSE ps \in {"started", "finishing"}
    BY <1>1, <1>4, <2>1 DEF ProviderOk
  <2>3. CASE m = "started"
    BY <1>2, <1>5, <2>2, <2>3 DEF ReceiveStarted
  <2>4. CASE m = "result"
    BY <1>2, <1>4, <1>5, <2>2, <2>4 DEF ReceiveResult
  <2>5. CASE m = "finished"
    BY <1>2, <2>5 DEF ReceiveFinished
  <2> QED BY <1>2, <2>3, <2>4, <2>5
<1>7. e \in {"started", "result", "completed"} /\ (e = "completed" <=> m = "finished")
      /\ (e = "started" <=> m = "started") /\ (e = "result" <=> m = "result")
  BY <1>2
<1> HIDE DEF e
<1>8. /\ log' = Append(log, e)
      /\ events' = IF e = "completed" THEN Append(Append(events, e), "closed") ELSE Append(events, e)
  BY <1>4, <1>6, <1>7, Publishes
<1>9. /\ log' \in Seq({"started", "result", "completed", "error"}) /\ Len(log') = Len(log) + 1
      /\ log'[Len(log) + 1] = e /\ \A i \in 1..Len(log) : log'[i] = log[i]
      /\ events' \in Seq({"started", "result", "completed", "error", "closed"}) /\ log' # <<>>
  <2>1. log \in Seq({"started", "result", "completed", "error"}) /\ e \in {"started", "result", "completed", "error"}
    BY <1>1, <1>7 DEF SpeechTypes
  <2>2. /\ log' \in Seq({"started", "result", "completed", "error"}) /\ Len(log') = Len(log) + 1
        /\ log'[Len(log) + 1] = e /\ \A i \in 1..Len(log) : log'[i] = log[i]
    BY <1>8, <2>1
  <2>3. events \in Seq({"started", "result", "completed", "error", "closed"})
    BY <1>1 DEF SpeechTypes
  <2>4. /\ Append(events, e) \in Seq({"started", "result", "completed", "error", "closed"})
        /\ Append(Append(events, e), "closed") \in Seq({"started", "result", "completed", "error", "closed"})
    BY <2>1, <2>3
  <2>5. log' # <<>>
    BY <1>8, <2>1
  <2> QED BY <1>8, <2>2, <2>4, <2>5
<1>10. Ended' <=> e = "completed"
  BY <1>3, <1>4, <1>5, <1>7, <1>9 DEF Ended
<1>11. Unfailed'
  BY <1>4, <1>7, <1>9, SMTT(30) DEF Unfailed
<1>12. LogOk'
  <2>1. Len(log') <= said + 2
    BY <1>4, <1>9
  <2>2. ASSUME NEW i \in 1..Len(log')
        PROVE log'[i] = IF i = 1 THEN "started" ELSE IF i <= said + 1 THEN "result" ELSE "completed"
    <3>1. CASE i \in 1..Len(log)
      BY <1>4, <1>9, <3>1 DEF LogOk
    <3>2. CASE i = Len(log) + 1
      BY <1>2, <1>4, <1>5, <1>7, <1>9, <3>2
    <3> QED BY <1>4, <1>9, <3>1, <3>2
  <2> QED BY <1>3, <2>1, <2>2 DEF LogOk
<1>13. WireOk'
  <2>1. CASE m = "finished"
    <3>1. wire' = <<>>
      BY <1>4, <1>5, <2>1
    <3> QED BY <1>3, <1>5, <1>7, <1>10, <2>1, <3>1 DEF WireOk
  <2>2. CASE m # "finished" /\ srv \in {"up", "finishing"}
    <3>1. Len(log) + Len(wire) = said + 1
          /\ \A j \in 1..Len(wire) : wire[j] = IF Len(log) + j = 1 THEN "started" ELSE "result"
      BY <1>4, <2>2 DEF WireOk
    <3>2. Len(log') + Len(wire') = said + 1
          /\ \A j \in 1..Len(wire') : wire'[j] = IF Len(log') + j = 1 THEN "started" ELSE "result"
      BY <1>4, <1>9, <3>1, SMTT(30)
    <3> QED BY <1>3, <1>7, <1>10, <2>2, <3>2 DEF WireOk
  <2>3. CASE m # "finished" /\ srv = "ended"
    <3>1. /\ Len(log) + Len(wire) = said + 2
          /\ \A j \in 1..Len(wire) :
               IF Len(log) + j = 1 THEN wire[j] = "started"
               ELSE IF Len(log) + j <= said + 1 THEN wire[j] = "result"
               ELSE wire[j] \in {"finished", "failed", "eof"}
      <4>1. wire[1] = m /\ Len(log) + Len(wire) = said + 2
        BY <1>2, <1>5, <2>3, NextMessage
      <4> QED BY <1>2, <1>4, <2>3, <4>1 DEF WireOk
    <3>2. /\ Len(log') + Len(wire') = said + 2
          /\ \A j \in 1..Len(wire') :
               IF Len(log') + j = 1 THEN wire'[j] = "started"
               ELSE IF Len(log') + j <= said + 1 THEN wire'[j] = "result"
               ELSE wire'[j] \in {"finished", "failed", "eof"}
      BY <1>4, <1>9, <3>1, SMTT(30)
    <3> QED BY <1>3, <1>7, <1>10, <2>3, <3>2 DEF WireOk
  <2> QED BY <1>5, <2>1, <2>2, <2>3
<1>14. ReadOk'
  BY <1>1, <1>3, <1>4, <1>7, <1>8, <1>10, MoreToRead
<1>15. SpeechTypes'
  <2>1. ps' \in {ps, "started", "completed"} /\ signal' \in {signal, "ok"}
    BY <1>2, <1>6
  <2> QED BY <1>1, <1>3, <1>4, <1>9, <2>1 DEF SpeechTypes
<1>16. QueueOk'
  BY <1>1, <1>3, SameQueue
<1>17. ProviderOk'
  <2>1. signal # "ok" /\ ps # "completed"
    BY <1>1, <1>4 DEF ProviderOk
  <2> QED BY <1>1, <1>2, <1>4, <1>6, <1>7, <1>9, <1>10, <1>11, <2>1 DEF ProviderOk
<1>18. PhaseOk'
  BY <1>1, <1>3, <1>4, <1>11 DEF PhaseOk
<1> QED BY <1>12, <1>13, <1>14, <1>15, <1>16, <1>17, <1>18 DEF SpeechInv

(* Whatever publishes a failure closes the transport; the stream is over.  *)
LEMMA FailureKeeps ==
  ASSUME SpeechInv, ReceiveFailure \/ SendBreaks \/ FinishTimesOut
  PROVE SpeechInv'
<1>1. SpeechTypes /\ QueueOk /\ ProviderOk /\ PhaseOk /\ (Unfailed => LogOk /\ WireOk /\ ReadOk)
  BY DEF SpeechInv
<1>2. /\ PublishFailure /\ open' = FALSE
      /\ UNCHANGED <<audioQueue, accepted, sent, reader, handled, srv, said>>
      /\ sender' = sender \/ (sender = "sending" /\ sender' = "failed")
      /\ UNCHANGED <<ss, fpc>> \/ (ss' = "failed" /\ fpc' = "raised")
      /\ wire' = wire \/ (open /\ \E m \in {"failed", "eof"} : Receive(m))
  BY DEF ReceiveFailure, SendBreaks, FinishTimesOut, FinishRaises, sessionSide, Receive
<1>3. wire' \in Seq({"started", "result", "finished", "failed", "eof"})
  BY <1>1, <1>2, NextMessage DEF SpeechTypes
<1>4. /\ log' \in Seq({"started", "result", "completed", "error"})
      /\ events' \in Seq({"started", "result", "completed", "error", "closed"})
      /\ signal' \in {"none", "ok", "error"}
      /\ \/ (~Unfailed \/ Ended) /\ UNCHANGED <<ps, signal, events, log>>
         \/ /\ Unfailed /\ ~Ended /\ ~Unfailed' /\ ps' = "failed"
            /\ signal' = signal \/ signal' = "error"
  BY <1>2, Fails
<1>5. SpeechTypes'
  <2>1. ss' \in {ss, "failed"} /\ fpc' \in {fpc, "raised"} /\ sender' \in {sender, "failed"} /\ ps' \in {ps, "failed"}
    BY <1>2, <1>4
  <2> QED BY <1>1, <1>2, <1>3, <1>4, <2>1 DEF SpeechTypes
<1>6. QueueOk'
  BY <1>1, <1>2, SameQueue
<1>7. CASE (~Unfailed \/ Ended) /\ UNCHANGED <<ps, signal, events, log>>
  <2>1. ~open /\ wire' = wire
    BY <1>1, <1>2, <1>7 DEF ProviderOk
  <2>2. (Unfailed' <=> Unfailed) /\ (Ended' <=> Ended) /\ (LogOk => LogOk') /\ (WireOk => WireOk')
    BY <1>2, <1>7, <2>1, SameStream
  <2>3. ReadOk => ReadOk'
    BY <1>2, <1>7, SameReader
  <2>4. ProviderOk'
    BY <1>1, <1>2, <1>7, <2>1, <2>2 DEF ProviderOk
  <2>5. PhaseOk'
    BY <1>1, <1>2, <2>2 DEF PhaseOk
  <2> QED BY <1>1, <1>5, <1>6, <2>2, <2>3, <2>4, <2>5 DEF SpeechInv
<1>8. CASE /\ Unfailed /\ ~Ended /\ ~Unfailed' /\ ps' = "failed"
           /\ signal' = signal \/ signal' = "error"
  <2>1. ProviderOk'
    BY <1>1, <1>2, <1>8 DEF ProviderOk
  <2>2. PhaseOk'
    BY <1>1, <1>2, <1>8 DEF PhaseOk
  <2> QED BY <1>5, <1>6, <1>8, <2>1, <2>2 DEF SpeechInv
<1> QED BY <1>4, <1>7, <1>8

-----------------------------------------------------------------------------
(* The reader, the beginning and the end.                                  *)

(* The event task reads an event, or its handler raises.                   *)
LEMMA ReaderKeeps ==
  ASSUME SpeechInv, ReadEvent \/ HandlerRaises
  PROVE SpeechInv'
<1>1. SpeechTypes /\ QueueOk /\ ProviderOk /\ PhaseOk /\ (Unfailed => LogOk /\ WireOk /\ ReadOk)
  BY DEF SpeechInv
<1>2. /\ UNCHANGED <<ss, audioQueue, sender, fpc, accepted, sent, ps, open, signal, log, wire, srv, said>>
      /\ reader = "on" /\ events # <<>> /\ events' = Tail(events)
      /\ \/ reader' = "failed" /\ handled' = handled
         \/ /\ handled' = IF Head(events) = "result" THEN handled + 1 ELSE handled
            /\ reader' = IF Head(events) = "closed" THEN "ok" ELSE "on"
  BY DEF ReadEvent, HandlerRaises
<1>3. /\ Len(events) \in Nat \ {0} /\ Head(events) = events[1] /\ Len(events') = Len(events) - 1
      /\ \A k \in 1..(Len(events) - 1) : events'[k] = events[k + 1]
      /\ events' \in Seq({"started", "result", "completed", "error", "closed"})
      /\ Len(log) \in Nat /\ said \in Nat /\ handled \in Nat
  BY <1>1, <1>2 DEF SpeechTypes
<1>4. SpeechTypes'
  <2>1. handled' \in Nat /\ reader' \in {"failed", "ok", "on"}
    BY <1>2, <1>3
  <2> QED BY <1>1, <1>2, <1>3, <2>1 DEF SpeechTypes
<1>5. QueueOk'
  BY <1>1, <1>2, SameQueue
<1>6. (Unfailed' <=> Unfailed) /\ (Ended' <=> Ended) /\ (LogOk => LogOk') /\ (WireOk => WireOk')
  BY <1>2, SameStream
<1>7. ProviderOk'
  BY <1>1, <1>2, <1>6 DEF ProviderOk
<1>8. PhaseOk'
  BY <1>1, <1>2, <1>6 DEF PhaseOk
<1>9. ASSUME Unfailed PROVE ReadOk'
  <2>1. LogOk /\ ReadOk /\ Len(log) <= said + 2 /\ (~Ended => Len(log) <= said + 1)
    <3>1. LogOk /\ ReadOk /\ Len(log) <= said + 2
      BY <1>1, <1>9 DEF LogOk
    <3> QED BY <1>3, <3>1 DEF Ended
  <2>2. Published' = Published /\ HasRead' = HasRead + 1 /\ HasRead \in Nat /\ Published \in Nat
        /\ Len(events) <= Published /\ HasRead = Published - Len(events)
    <3>1. Published' = Published /\ Published \in Nat
      BY <1>2, <1>3, <1>6 DEF Published
    <3>2. Len(events) <= Published
      BY <2>1 DEF ReadOk
    <3> QED BY <1>3, <3>1, <3>2 DEF HasRead
  <2>3. ASSUME NEW k \in 1..Len(events')
        PROVE events'[k] = IF HasRead' + k <= Len(log') THEN log'[HasRead' + k] ELSE "closed"
    <3>1. k + 1 \in 1..Len(events) /\ events'[k] = events[k + 1] /\ HasRead' + k = HasRead + (k + 1)
      BY <1>3, <2>2
    <3> QED BY <1>2, <2>1, <3>1 DEF ReadOk
  <2>4. events[1] = IF HasRead + 1 <= Len(log) THEN log[HasRead + 1] ELSE "closed"
    BY <1>3, <2>1 DEF ReadOk
  <2>5. events[1] = "closed" <=> HasRead + 1 > Len(log)
    <3>1. \A i \in 1..Len(log) : log[i] # "closed"
      <4>1. log \in Seq({"started", "result", "completed", "error"})
        BY <1>1 DEF SpeechTypes
      <4>2. \A i \in 1..Len(log) : log[i] \in {"started", "result", "completed", "error"}
        BY <4>1
      <4> QED BY <4>2
    <3> QED BY <1>3, <2>2, <2>4, <3>1
  <2>6. events[1] = "closed" => Ended /\ Len(events) = 1
    BY <1>3, <2>2, <2>5 DEF Published
  <2>7. ASSUME reader' \in {"on", "ok"}
        PROVE handled' = IF HasRead' = 0 THEN 0 ELSE IF HasRead' <= said + 1 THEN HasRead' - 1 ELSE said
    <3>1. handled = IF HasRead = 0 THEN 0 ELSE IF HasRead <= said + 1 THEN HasRead - 1 ELSE said
      BY <1>2, <2>1 DEF ReadOk
    <3>2. handled' = IF events[1] = "result" THEN handled + 1 ELSE handled
      BY <1>2, <1>3, <2>7
    <3>3. CASE HasRead + 1 > Len(log)
      <4>1. events[1] = "closed" /\ Ended /\ Len(log) = said + 2
        BY <2>5, <2>6, <3>3 DEF Ended
      <4>2. handled' = handled
        BY <3>2, <4>1
      <4> QED BY <1>3, <2>2, <3>1, <3>3, <4>1, <4>2
    <3>4. CASE HasRead + 1 <= Len(log)
      <4>1. HasRead + 1 \in 1..Len(log) /\ events[1] = log[HasRead + 1]
        BY <1>3, <2>2, <2>4, <3>4
      <4>2. events[1] = IF HasRead + 1 = 1 THEN "started" ELSE IF HasRead + 1 <= said + 1 THEN "result" ELSE "completed"
        BY <2>1, <4>1 DEF LogOk
      <4>3. CASE HasRead = 0
        BY <1>3, <2>2, <3>1, <3>2, <4>2, <4>3
      <4>4. CASE HasRead > 0 /\ HasRead + 1 <= said + 1
        BY <1>3, <2>2, <3>1, <3>2, <4>2, <4>4
      <4>5. CASE HasRead > 0 /\ HasRead + 1 > said + 1
        BY <1>3, <2>1, <2>2, <3>1, <3>2, <3>4, <4>2, <4>5, SMTT(30)
      <4> QED BY <1>3, <2>2, <4>3, <4>4, <4>5
    <3> QED BY <1>3, <2>2, <3>3, <3>4
  <2>8. reader' = "ok" => Ended' /\ Len(events') = 0
    BY <1>2, <1>3, <1>6, <2>6
  <2>9. Len(events') <= Published' /\ reader' # "off"
    BY <1>2, <1>3, <2>2
  <2> QED BY <1>2, <2>3, <2>7, <2>8, <2>9 DEF ReadOk
<1> QED BY <1>1, <1>4, <1>5, <1>6, <1>7, <1>8, <1>9 DEF SpeechInv

(* A provider is made: nothing was said or read on it.                     *)
LEMMA FreshHolds ==
  ASSUME SpeechInv, FreshProvider, reader = "off", handled = 0, UNCHANGED <<reader, handled>>
  PROVE ProviderOk' /\ Unfailed' /\ ~Ended' /\ LogOk' /\ WireOk' /\ ReadOk'
<1>1. /\ ps' = "connecting" /\ open' = FALSE /\ signal' = "none" /\ events' = <<>> /\ log' = <<>>
      /\ wire' = <<>> /\ srv' = "none" /\ said' = 0 /\ reader' = "off" /\ handled' = 0
      /\ Len(log') = 0 /\ Len(events') = 0
  BY DEF FreshProvider
<1>2. Unfailed' /\ ~Ended'
  BY <1>1 DEF Unfailed, Ended
<1>3. Published' = 0 /\ HasRead' = 0
  BY <1>1, <1>2 DEF Published, HasRead
<1>4. LogOk' /\ ReadOk'
  BY <1>1, <1>3 DEF LogOk, ReadOk
<1> QED BY <1>1, <1>2, <1>4 DEF ProviderOk, WireOk

(* The start of the session, its attempts and the open socket.             *)
LEMMA StartKeeps ==
  ASSUME SpeechInv, SpeechStart \/ StartAttemptFails \/ Connected
  PROVE SpeechInv'
<1>1. SpeechTypes /\ QueueOk /\ ProviderOk /\ PhaseOk /\ (Unfailed => LogOk /\ WireOk /\ ReadOk)
  BY DEF SpeechInv
<1>2. /\ ss \in {"idle", "starting"} /\ ss' \in {"starting", "failed"}
      /\ UNCHANGED <<audioQueue, sender, reader, fpc, accepted, sent, handled>>
  BY DEF SpeechStart, StartAttemptFails, Connected, sessionSide
<1>3. sender = "off" /\ reader = "off" /\ handled = 0 /\ fpc = "none"
  BY <1>1, <1>2 DEF PhaseOk
<1>4. QueueOk'
  BY <1>1, <1>2, SameQueue
<1>5. PhaseOk'
  BY <1>1, <1>2, <1>3 DEF PhaseOk
<1>6. CASE FreshProvider
  <2>1. ProviderOk' /\ LogOk' /\ WireOk' /\ ReadOk'
    BY <1>2, <1>3, <1>6, FreshHolds
  <2>2. SpeechTypes'
    BY <1>1, <1>2, <1>6 DEF SpeechTypes, FreshProvider
  <2> QED BY <1>4, <1>5, <2>1, <2>2 DEF SpeechInv
<1>7. CASE /\ ss' = "failed" /\ ps' = "failed" /\ open' = FALSE
           /\ UNCHANGED <<signal, events, log, wire, srv, said>>
  <2>1. (Unfailed' <=> Unfailed) /\ (Ended' <=> Ended) /\ (LogOk => LogOk') /\ (WireOk => WireOk')
    BY <1>7, SameStream
  <2>2. ReadOk => ReadOk'
    BY <1>2, <1>7, SameReader
  <2>3. ProviderOk'
    BY <1>1, <1>7, <2>1 DEF ProviderOk
  <2>4. SpeechTypes'
    BY <1>1, <1>2, <1>7 DEF SpeechTypes
  <2> QED BY <1>1, <1>4, <1>5, <2>1, <2>2, <2>3, <2>4 DEF SpeechInv
<1>8. CASE Connected
  <2>1. /\ ps = "connecting" /\ ps' = "starting" /\ open' = TRUE /\ srv' = "asked"
        /\ UNCHANGED <<signal, events, log, wire, said>>
        /\ log = <<>> /\ wire = <<>> /\ said = 0 /\ signal = "none" /\ events = <<>>
    BY <1>1, <1>8 DEF Connected, ProviderOk
  <2>2. Unfailed /\ Unfailed' /\ ~Ended'
    BY <2>1 DEF Unfailed, Ended
  <2>3. ReadOk' /\ LogOk' /\ WireOk'
    <3>1. LogOk /\ ReadOk
      BY <1>1, <2>2
    <3>2. ReadOk'
      BY <1>2, <2>1, <3>1, SameReader
    <3>3. LogOk'
      BY <2>1, <3>1 DEF LogOk
    <3> QED BY <2>1, <2>2, <3>2, <3>3 DEF WireOk
  <2>4. ProviderOk'
    BY <2>1, <2>2 DEF ProviderOk
  <2>5. SpeechTypes'
    BY <1>1, <1>2, <2>1 DEF SpeechTypes
  <2> QED BY <1>4, <1>5, <2>3, <2>4, <2>5 DEF SpeechInv
<1> QED BY <1>6, <1>7, <1>8 DEF SpeechStart, StartAttemptFails

(* The provider's finish, and the close of the session at any moment.      *)
LEMMA FinishKeeps ==
  ASSUME SpeechInv, AskFinish \/ FinishSignalled \/ SpeechClose
  PROVE SpeechInv'
<1>1. SpeechTypes /\ QueueOk /\ ProviderOk /\ PhaseOk /\ (Unfailed => LogOk /\ WireOk /\ ReadOk)
  BY DEF SpeechInv
<1>2. /\ UNCHANGED <<audioQueue, accepted, sent, handled, signal, events, log, wire, said>>
      /\ sender' = sender \/ sender' = "cancelled"
      /\ reader' = reader \/ reader' = "cancelled"
      /\ srv' = srv \/ (srv = "up" /\ srv' = "finishing")
      /\ ss' \in {ss, "failed", "closed"} /\ ps' \in {ps, "finishing", "closed"}
      /\ fpc' \in {fpc, "waiting", "reading", "raised"}
      /\ ss' = "started" => ss = "started"
  <2>1. CASE AskFinish
    BY <1>1, <2>1 DEF AskFinish, FinishRaises, PhaseOk
  <2>2. CASE FinishSignalled
    BY <1>1, <2>2 DEF FinishSignalled, FinishRaises, PhaseOk
  <2>3. CASE SpeechClose
    BY <1>1, <2>3 DEF SpeechClose, SpeechTypes
  <2> QED BY <2>1, <2>2, <2>3
<1>3. SpeechTypes'
  BY <1>1, <1>2 DEF SpeechTypes
<1>4. QueueOk'
  BY <1>1, <1>2, SameQueue
<1>5. (Unfailed' <=> Unfailed) /\ (Ended' <=> Ended) /\ (LogOk => LogOk') /\ (WireOk => WireOk')
  BY <1>2, SameStream
<1>6. ReadOk => ReadOk'
  BY <1>2, SameReader
<1>7. ProviderOk'
  <2>1. CASE AskFinish
    <3>1. open' = open /\ (ps' = ps \/ (ps = "started" /\ ps' = "finishing")) /\ (srv = "none" => srv' = "none")
      BY <2>1 DEF AskFinish
    <3> QED BY <1>1, <1>2, <1>5, <3>1 DEF ProviderOk
  <2>2. CASE FinishSignalled
    <3>1. open' = FALSE /\ ps' = ps /\ srv' = srv /\ signal # "none"
      BY <2>2 DEF FinishSignalled
    <3> QED BY <1>1, <1>2, <1>5, <3>1 DEF ProviderOk
  <2>3. CASE SpeechClose
    <3>1. open' = FALSE /\ srv' = srv /\ ps' = IF ps \in {"completed", "failed"} THEN ps ELSE "closed"
      BY <2>3 DEF SpeechClose
    <3> QED BY <1>1, <1>2, <1>5, <3>1 DEF ProviderOk
  <2> QED BY <2>1, <2>2, <2>3
<1>8. PhaseOk'
  <2>1. CASE AskFinish
    BY <1>1, <1>2, <1>5, <2>1 DEF PhaseOk, ProviderOk, AskFinish, FinishRaises
  <2>2. CASE FinishSignalled
    BY <1>1, <1>2, <1>5, <2>2 DEF PhaseOk, ProviderOk, FinishSignalled, FinishRaises
  <2>3. CASE SpeechClose
    BY <1>1, <1>2, <1>5, <2>3 DEF PhaseOk, SpeechClose
  <2> QED BY <2>1, <2>2, <2>3
<1> QED BY <1>1, <1>3, <1>4, <1>5, <1>6, <1>7, <1>8 DEF SpeechInv

-----------------------------------------------------------------------------
(* The theorem.                                                            *)

(* A session that has not begun satisfies the invariant.                   *)
LEMMA SpeechInitHolds ==
  ASSUME SpeechInit
  PROVE SpeechInv
<1>1. /\ Len(log) = 0 /\ Len(events) = 0 /\ Len(wire) = 0 /\ Len(audioQueue) = 0 /\ Unfailed /\ ~Ended
  BY DEF SpeechInit, Unfailed, Ended
<1>2. Published = 0 /\ HasRead = 0 /\ Taken = 0
  BY <1>1 DEF Published, HasRead, Taken, SpeechInit
<1>3. SpeechTypes
  BY DEF SpeechInit, SpeechTypes
<1>4. QueueOk
  BY <1>1, <1>2 DEF SpeechInit, QueueOk
<1>5. LogOk /\ WireOk /\ ReadOk
  BY <1>1, <1>2 DEF SpeechInit, LogOk, WireOk, ReadOk
<1>6. ProviderOk /\ PhaseOk
  BY <1>1 DEF SpeechInit, ProviderOk, PhaseOk
<1> QED BY <1>3, <1>4, <1>5, <1>6 DEF SpeechInv

(* Nothing happens to the session.                                         *)
LEMMA SpeechStutters ==
  ASSUME SpeechInv, UNCHANGED speechVars
  PROVE SpeechInv'
<1>1. UNCHANGED <<ss, audioQueue, sender, reader, fpc, ps, open, signal, events, log, wire, srv, accepted, sent,
                  said, handled>>
  BY DEF speechVars
<1>2. SpeechTypes /\ QueueOk /\ ProviderOk /\ PhaseOk /\ (Unfailed => LogOk /\ WireOk /\ ReadOk)
  BY DEF SpeechInv
<1>3. (Unfailed' <=> Unfailed) /\ (Ended' <=> Ended) /\ (LogOk => LogOk') /\ (WireOk => WireOk')
      /\ (ReadOk => ReadOk') /\ ProviderOk' /\ QueueOk'
  BY <1>1, <1>2, SameStream, SameReader, SameProvider, SameQueue
<1>4. SpeechTypes' /\ PhaseOk'
  BY <1>1, <1>2, <1>3 DEF SpeechTypes, PhaseOk
<1> QED BY <1>2, <1>3, <1>4 DEF SpeechInv

(* Every step of the session keeps the invariant.                          *)
LEMMA SpeechStepKeeps ==
  ASSUME SpeechInv, [SpeechNext]_speechVars
  PROVE SpeechInv'
BY SessionKeeps, ServerKeeps, ReceiveKeeps, FailureKeeps, ReaderKeeps, StartKeeps, FinishKeeps, SpeechStutters
   DEF SpeechNext, SpeechStep

(* A completed session has drained its queue and read the whole stream.    *)
LEMMA SpeechInvSafe ==
  ASSUME SpeechInv
  PROVE CompletedMeansAll
<1> SUFFICES ASSUME ss = "completed"
             PROVE sent = accepted /\ handled = said /\ log # <<>> /\ log[Len(log)] = "completed"
  BY DEF CompletedMeansAll
<1>1. sender = "ok" /\ reader = "ok" /\ Unfailed /\ Ended /\ QueueOk /\ LogOk /\ ReadOk
  BY DEF SpeechInv, PhaseOk
<1>2. Len(log) \in Nat /\ said \in Nat /\ Len(log) = said + 2
  BY <1>1 DEF SpeechInv, SpeechTypes, Ended
<1>3. sent = accepted
  BY <1>1 DEF QueueOk
<1>4. HasRead = said + 3
  BY <1>1, <1>2 DEF HasRead, Published, ReadOk
<1>5. handled = said
  BY <1>1, <1>2, <1>4 DEF ReadOk
<1>6. Len(log) \in 1..Len(log) /\ log[Len(log)] = "completed" /\ log # <<>>
  BY <1>1, <1>2 DEF LogOk
<1> QED BY <1>3, <1>5, <1>6

(* A session that completed lost nothing, for any number of chunks and     *)
(* results, any queue and any number of start retries, whatever the remote *)
(* task sends and whenever the caller closes it (TranscriptionSession and  *)
(* TranslationSession over their WebSocket providers).                     *)
THEOREM CompletedMeansAllHolds == SpeechSpec => []CompletedMeansAll
<1>1. SpeechInit => SpeechInv
  BY SpeechInitHolds
<1>2. SpeechInv /\ [SpeechNext]_speechVars => SpeechInv'
  BY SpeechStepKeeps
<1>3. SpeechInv => CompletedMeansAll
  BY SpeechInvSafe
<1> QED BY <1>1, <1>2, <1>3, PTL DEF SpeechSpec

(* The same, of the session among the other components of its run.         *)
THEOREM CaptionsCompleteAll == CaptionsSpec => []CompletedMeansAll
<1>1. CaptionsInit => SpeechInv
  BY SpeechInitHolds DEF CaptionsInit
<1>2. ASSUME SpeechInv, [CaptionsNext]_captionVars PROVE SpeechInv'
  <2>1. SpeechNext \/ UNCHANGED speechVars
    BY <1>2 DEF CaptionsNext, Captioned, Spoken, Bridging, captionVars
  <2> QED BY <1>2, <2>1, SpeechStepKeeps
<1>3. SpeechInv => CompletedMeansAll
  BY SpeechInvSafe
<1> QED BY <1>1, <1>2, <1>3, PTL DEF CaptionsSpec

-----------------------------------------------------------------------------
(* A session row and its writers.                                          *)

(* The steps the API's loop may go on with after a commit.                 *)
LoopSteps == ({"run"} \X {"launched", "connecting", "cleaning", "gone"})
               \cup ({"stop"} \X {"none", "locked", "waiting", "after"})

(* The open transactions, each with the step that follows it.              *)
OpenTxn(t) == slot[t].open

SlotTypes ==
  /\ DOMAIN slot = Threads
  /\ \A t \in Threads : OpenTxn(t) => slot[t].seen \in Row /\ slot[t].want \in Row
  /\ OpenTxn("worker") => slot["worker"].then \in Steps
  /\ OpenTxn("loop") => slot["loop"].then \in LoopSteps

LiveTypes ==
  /\ LiveTypeOK /\ SlotTypes
  /\ pending <= emitted

(* Two columns have one writer each: the translation the worker, the       *)
(* cleanup whoever owns the source.                                        *)
Keeper == IF kind.hls THEN "loop" ELSE "worker"

Owned(t) ==
  OpenTxn(t) =>
    /\ IF t = "worker" THEN slot[t].seen.translation = row.translation
                       ELSE slot[t].want.translation = slot[t].seen.translation
    /\ IF t = Keeper THEN slot[t].seen.cleanup = row.cleanup
                     ELSE slot[t].want.cleanup = slot[t].seen.cleanup

OwnedColumns == \A t \in Threads : Owned(t)

(* What the worker will have written, and its step then.                   *)
Going == IF OpenTxn("worker") THEN slot["worker"].then ELSE wpc

LastTranslation == IF OpenTxn("worker") THEN slot["worker"].want.translation ELSE row.translation

Settled(r) == r.cleanup \in {"completed", "failed"}

FailureInv ==
  /\ row.status = "failed" => fault
  /\ \A t \in Threads : OpenTxn(t) /\ slot[t].want.status = "failed" => fault
  /\ Going = "failing" => cause = "cancel" \/ fault
  /\ hpc \in {"failing", "lost"} => fault

Early == {"waiting", "opening", "connecting", "translating", "trConnecting"}

Leaving == {"failing", "degrading", "aborting"}

TranslationInv ==
  /\ wpc \in {"waiting", "done"} => ~OpenTxn("worker")
  /\ Going = "done" => ~Translating
  /\ Going \in Early => ~trterm /\ route = "none"
  /\ Going \in {"trFinalizing", "trFinishing"} => Translating
  /\ Going \in Leaving => cause # "none"
  /\ cause # "none" => Going \in Leaving \cup {"cleaning", "done"}
  /\ ~died =>
       /\ trterm => LastTranslation \in {"completed", "failed"}
       /\ LastTranslation = "running" /\ ~Translating => cause = "cancel"
       /\ Going \in {"aborting", "cleaning", "done"} /\ cause # "cancel" => ~Translating

Late == {"completing", "completed", "trFinalizing", "trFinishing"}

ReadInv ==
  /\ kind.transport =>
       asr = "off" /\ pending = 0
         /\ Going \notin {"connecting", "translating", "trConnecting", "finishing"}
  /\ Going \in Late => asr = "off" /\ pending = 0
  /\ wpc \in Late => pending = 0

(* No source has been published.                                           *)
Unseen == ~track /\ wpc = "waiting"

CleanupInv ==
  /\ hpc = "lost" => died
  /\ kind.hls /\ ~died =>
       /\ hpc = "off" => Unseen
       /\ hpc = "gone" => Settled(row) \/ Unseen
       /\ OpenTxn("loop") /\ hpc = "gone" =>
            slot["loop"].want.cleanup = slot["loop"].seen.cleanup \/ Settled(slot["loop"].want)
       /\ OpenTxn("loop") /\ slot["loop"].then = <<"run", "gone">> =>
            Settled(slot["loop"].want) \/ Unseen
  /\ ~kind.hls =>
       /\ hpc \in {"off", "live", "gone"}
       /\ stopper[1] \in {"none", "close"} /\ stopper[2] # "waiting"
       /\ OpenTxn("loop") => slot["loop"].then = <<"stop", "none">>
       /\ Going = "done" => Settled(IF OpenTxn("worker") THEN slot["worker"].want ELSE row)

LiveInv == LiveTypes /\ OwnedColumns /\ FailureInv /\ TranslationInv /\ ReadInv /\ CleanupInv

-----------------------------------------------------------------------------
(* What the operations of the repository do to a row.                      *)

SameColumns(w, r) == w \in Row /\ w.translation = r.translation /\ w.cleanup = r.cleanup

\* The columns keep their types and only the lifecycle moves.
LEMMA StatusOps ==
  ASSUME NEW r \in Row
  PROVE  /\ SameColumns(r, r)
         /\ \A s \in SessionStatus : SameColumns(Transition(r, s), r) /\ Transition(r, s).status = s
         /\ SameColumns(StartReplay(r), r) /\ StartReplay(r).status = "running"
         /\ SameColumns(MarkTranscribing(r), r) /\ MarkTranscribing(r).status = "running"
         /\ SameColumns(Complete(r), r) /\ Complete(r).status = "completed"
         /\ SameColumns(Fail(r), r)
         /\ \A why \in StopReason : SameColumns(Cancel(r, why), r) /\ Cancel(r, why).status = "cancelled"
<1>1. SessionStatus = {"created", "starting", "running", "finalizing", "completed", "failed", "cancelled"}
  <2>1. \A s : (\E i \in 1..5 : s = Normal[i]) <=>
               s \in {"created", "starting", "running", "finalizing", "completed"}
    BY DEF Normal
  <2> QED
    BY <2>1 DEF SessionStatus, Terminal
<1>2. \A s \in SessionStatus : SameColumns(Transition(r, s), r) /\ Transition(r, s).status = s
  BY DEF SameColumns, Row, Transition
<1>3. \A w : SameColumns(w, r) => /\ SameColumns([w EXCEPT !.error = FALSE], r)
                                 /\ [w EXCEPT !.error = FALSE].status = w.status
  BY DEF SameColumns, Row
<1>4. \A w : SameColumns(w, r) => SameColumns([w EXCEPT !.error = TRUE, !.stop = "none"], r)
  BY DEF SameColumns, Row, StopReason
<1>5. \A w, y : SameColumns(w, r) /\ y \in StopReason =>
        /\ SameColumns([w EXCEPT !.error = FALSE, !.stop = y], r)
        /\ [w EXCEPT !.error = FALSE, !.stop = y].status = w.status
        /\ w.stop \in StopReason
  BY DEF SameColumns, Row
<1>6. ASSUME NEW why \in StopReason
      PROVE  SameColumns(Cancel(r, why), r) /\ Cancel(r, why).status = "cancelled"
  <2>1. SameColumns(Transition(r, "cancelled"), r) /\ Transition(r, "cancelled").status = "cancelled"
    BY <1>1, <1>2
  <2> QED
    BY <1>5, <2>1 DEF Cancel
<1> QED
  BY <1>1, <1>2, <1>3, <1>4, <1>6 DEF SameColumns, StartReplay, MarkTranscribing, Complete, Fail

SameSource(w, r) == w \in Row /\ w.status = r.status /\ w.cleanup = r.cleanup

\* The operations of the translation leave the run and its source alone.
LEMMA TranslationOps ==
  ASSUME NEW r \in Row
  PROVE  /\ SameSource(MarkTranslationStarting(r), r) /\ MarkTranslationStarting(r).translation = "starting"
         /\ SameSource(MarkTranslationActive(r), r) /\ MarkTranslationActive(r).translation = "running"
         /\ SameSource(BeginTranslationFinalizing(r), r)
         /\ SameSource(CompleteTranslation(r), r)
         /\ CompleteTranslation(r).translation \in {"completed", "failed"}
         /\ SameSource(FailTranslation(r), r) /\ FailTranslation(r).translation \in {"completed", "failed"}
BY DEF SameSource, Row, TranslationStatus, MarkTranslationStarting, MarkTranslationActive,
       BeginTranslationFinalizing, CompleteTranslation, FailTranslation

SameRun(w, r) == w \in Row /\ w.status = r.status /\ w.translation = r.translation

\* The operations of the source leave the run and its translation alone.
LEMMA SourceOps ==
  ASSUME NEW r \in Row
  PROVE  /\ SameRun(MarkSourceStarting(r), r) /\ SameRun(MarkSourceRunning(r), r)
         /\ SameRun(MarkSourceStopping(r), r)
         /\ SameRun(MarkSourceStopped(r), r) /\ Settled(MarkSourceStopped(r))
         /\ SameRun(MarkSourceCleanupFailed(r), r) /\ Settled(MarkSourceCleanupFailed(r))
         /\ SameRun(MarkSourceLost(r), r) /\ Settled(MarkSourceLost(r))
         /\ SameRun(Aborted(r), r) /\ (Aborted(r) = r \/ Settled(Aborted(r)))
BY DEF SameRun, Row, SourceStatus, CleanupStatus, MarkSourceStarting, MarkSourceRunning,
       MarkSourceStopping, MarkSourceStopped, MarkSourceCleanupFailed, MarkSourceLost, Aborted, Settled

\* The UPDATE sets the columns that differ.
LEMMA MergedRow ==
  ASSUME NEW r \in Row, NEW seen \in Row, NEW want \in Row
  PROVE  /\ Merged(r, seen, want) \in Row
         /\ Merged(r, seen, want).status \in {r.status, want.status}
         /\ Merged(r, seen, want).translation =
              IF want.translation # seen.translation THEN want.translation ELSE r.translation
         /\ Merged(r, seen, want).cleanup =
              IF want.cleanup # seen.cleanup THEN want.cleanup ELSE r.cleanup
<1>1. DOMAIN r = {"status", "error", "stop", "translation", "source", "cleanup"}
  BY DEF Row
<1>2. Merged(r, seen, want) =
        [status |-> Merged(r, seen, want).status, error |-> Merged(r, seen, want).error,
         stop |-> Merged(r, seen, want).stop, translation |-> Merged(r, seen, want).translation,
         source |-> Merged(r, seen, want).source, cleanup |-> Merged(r, seen, want).cleanup]
  BY <1>1 DEF Merged
<1>3. \A c \in DOMAIN r : Merged(r, seen, want)[c] = IF want[c] # seen[c] THEN want[c] ELSE r[c]
  BY DEF Merged
<1> QED
  BY <1>1, <1>2, <1>3 DEF Row

-----------------------------------------------------------------------------
(* Steps of the worker.                                                    *)

(* What a step of the worker leaves to the others.                         *)
Beside == UNCHANGED inputVars /\ upsets' \in 0..MaxUpsets

\* A write of the worker is opened: what it does not touch still fits.
LEMMA WorkerSelects ==
  ASSUME LiveInv, NEW w \in Row, NEW then \in Steps, Select("worker", w, then),
         UNCHANGED <<row, kind, track, wpc, died>>, UNCHANGED inputVars,
         kind.hls => w.cleanup = row.cleanup, ~kind.hls /\ then = "done" => Settled(w),
         fault => fault', w.status = "failed" => fault'
  PROVE  /\ SlotTypes' /\ OwnedColumns' /\ CleanupInv'
         /\ Going' = then /\ LastTranslation' = w.translation /\ OpenTxn("worker")'
         /\ \A t \in Threads : OpenTxn(t)' /\ slot'[t].want.status = "failed" => fault'
<1>1. /\ DOMAIN slot' = Threads
      /\ slot'["worker"] = [open |-> TRUE, seen |-> row, want |-> w, then |-> then]
      /\ slot'["loop"] = slot["loop"] /\ slot'["thread"] = slot["thread"]
  BY DEF LiveInv, LiveTypes, SlotTypes, Select, Threads
<1>2. row \in Row /\ \A t \in Threads : t \in {"worker", "loop", "thread"}
  BY DEF LiveInv, LiveTypes, LiveTypeOK, Threads
<1>3. SlotTypes'
  <2>1. /\ \A t \in {"loop", "thread"} : OpenTxn(t) => slot[t].seen \in Row /\ slot[t].want \in Row
        /\ OpenTxn("loop") => slot["loop"].then \in LoopSteps
    BY DEF LiveInv, LiveTypes, SlotTypes, Threads
  <2>3. \A t \in Threads : OpenTxn(t)' => slot'[t].seen \in Row /\ slot'[t].want \in Row
    BY <1>1, <1>2, <2>1 DEF OpenTxn
  <2>4. slot'["worker"].then \in Steps /\ (OpenTxn("loop")' => slot'["loop"].then \in LoopSteps)
    BY <1>1, <2>1 DEF OpenTxn
  <2> QED
    BY <1>1, <2>3, <2>4 DEF SlotTypes
<1>4. Going' = then /\ LastTranslation' = w.translation /\ OpenTxn("worker")'
  BY <1>1 DEF Going, LastTranslation, OpenTxn
<1>5. Keeper' = Keeper /\ (Keeper = IF kind.hls THEN "loop" ELSE "worker")
  BY DEF Keeper
<1>6. OwnedColumns'
  <2>1. Owned("worker")'
    BY <1>1, <1>5 DEF Owned, OpenTxn
  <2>2. Owned("loop")' /\ Owned("thread")'
    BY <1>1, <1>5 DEF LiveInv, OwnedColumns, Owned, OpenTxn, Threads
  <2> QED
    BY <1>2, <2>1, <2>2 DEF OwnedColumns
<1>7. CleanupInv'
  BY <1>1, <1>4 DEF LiveInv, CleanupInv, OpenTxn, Unseen, Settled, inputVars
<1>8. \A t \in Threads : OpenTxn(t)' /\ slot'[t].want.status = "failed" => fault'
  BY <1>1, <1>2 DEF LiveInv, FailureInv, OpenTxn
<1> QED
  BY <1>3, <1>4, <1>6, <1>7, <1>8

\* The main path raises.
LEMMA Leaves ==
  ASSUME LiveInv, NEW why \in {"error", "cancel"}, ~OpenTxn("worker"),
         wpc \notin Leaving \cup {"waiting", "cleaning", "done"},
         Goto("failing"), cause' = why, fault' = (fault \/ why = "error"),
         asr' = (IF asr = "off" THEN "off" ELSE "dead"), wterm' \in BOOLEAN,
         UNCHANGED <<row, slot, kind, track, pending, emitted, route, trterm, abort, died>>,
         Beside
  PROVE  LiveInv'
<1>1. fault' \in BOOLEAN /\ (fault => fault') /\ (why = "error" => fault')
  BY Zenon
<1>2. wpc' = "failing" /\ Going = wpc /\ Going' = "failing" /\ LastTranslation' = LastTranslation
  BY DEF Goto, Going, LastTranslation, OpenTxn
<1>3. LiveTypes'
  BY <1>1, <1>2 DEF Beside, inputVars, LiveInv, LiveTypes, LiveTypeOK, SlotTypes, WorkerTypeOK, InputTypeOK,
                    OpenTxn, Steps
<1>4. OwnedColumns' /\ FailureInv'
  BY <1>1, <1>2 DEF Beside, inputVars, LiveInv, OwnedColumns, Owned, Keeper, FailureInv, OpenTxn
<1>5. TranslationInv'
  BY <1>2 DEF LiveInv, TranslationInv, Early, Leaving, Translating
<1>6. ReadInv'
  BY <1>2 DEF LiveInv, ReadInv, Late
<1>7. CleanupInv'
  BY <1>2, SMTT(30) DEF Beside, inputVars, LiveInv, CleanupInv, OpenTxn, Unseen, Settled, Leaving
<1> QED
  BY <1>3, <1>4, <1>5, <1>6, <1>7 DEF LiveInv

\* The task's steps that write nothing.
LEMMA PlainSteps ==
  ASSUME LiveInv, Beside,
         \/ Subscribe \/ ConnectAsr \/ ConnectTranslation \/ AudioEnds \/ DrainSink \/ FinishAsr
         \/ CompletedStep \/ FinalResult \/ FinishAfterError \/ AskAbort \/ AbortDone
         \/ AsrConnectFails \/ SourceRouteFails \/ DrainFails \/ FinishFails \/ PublicationFails
         \/ FinalFails \/ CancelTask \/ ProviderEmits
  PROVE  LiveInv'
<1>0. wterm \in BOOLEAN
  BY DEF LiveInv, LiveTypes, LiveTypeOK, WorkerTypeOK
<1> USE WorkerAssumption
    DEF Beside, At, Idle, Goto, MainOnly, AsrOnly, EventAt, inputVars, LiveInv, LiveTypes,
        LiveTypeOK, SlotTypes, WorkerTypeOK, InputTypeOK, OwnedColumns, Owned, FailureInv, TranslationInv,
        ReadInv, CleanupInv, Going, LastTranslation, OpenTxn, Translating, Early, Leaving, Late, Unseen, Settled,
        Keeper, Steps
<1>1. CASE Subscribe
  BY <1>1 DEF Subscribe
<1>2. CASE ConnectAsr
  BY <1>2 DEF ConnectAsr
<1>3. CASE ConnectTranslation
  BY <1>3 DEF ConnectTranslation
<1>4. CASE AudioEnds
  BY <1>4 DEF AudioEnds
<1>5. CASE DrainSink
  BY <1>5 DEF DrainSink
<1>6. CASE FinishAsr
  BY <1>6 DEF FinishAsr
<1>7. CASE CompletedStep
  BY <1>7 DEF CompletedStep
<1>8. CASE FinalResult
  BY <1>8, SMTT(30) DEF FinalResult
<1>9. CASE FinishAfterError
  BY <1>9, <1>0, Leaves DEF FinishAfterError, Leave, Raise
<1>10. CASE AskAbort
  BY <1>10 DEF AskAbort
<1>11. CASE AbortDone
  BY <1>11, SMTT(30) DEF AbortDone
<1>12. CASE AsrConnectFails
  BY <1>12, <1>0, Leaves, SMTT(30) DEF AsrConnectFails, Leave, Raise
<1>13. CASE SourceRouteFails
  BY <1>13, <1>0, Leaves, SMTT(30) DEF SourceRouteFails, Leave, Raise
<1>14. CASE DrainFails
  BY <1>14, <1>0, Leaves, SMTT(30) DEF DrainFails, Leave, Raise
<1>15. CASE FinishFails
  BY <1>15, <1>0, Leaves, SMTT(30) DEF FinishFails, Leave, Raise
<1>16. CASE PublicationFails
  BY <1>16, <1>0, Leaves DEF PublicationFails, Raise
<1>17. CASE FinalFails
  BY <1>17, SMTT(30) DEF FinalFails
<1>18. CASE CancelTask
  BY <1>18, <1>0, Leaves DEF CancelTask, Leave, Raise
<1>19. CASE ProviderEmits
  BY <1>19 DEF ProviderEmits
<1> QED
  BY <1>1, <1>2, <1>3, <1>4, <1>5, <1>6, <1>7, <1>8, <1>9, <1>10, <1>11, <1>12, <1>13, <1>14, <1>15,
     <1>16, <1>17, <1>18, <1>19, Zenon

\* What a write of the worker leaves alone in the types.
LEMMA WorkerWrites ==
  ASSUME LiveInv, Beside, NEW w \in Row, NEW then \in Steps, Select("worker", w, then),
         then = "failing" => Going = "failing",
         UNCHANGED <<row, kind, track, wpc, died, pending, emitted, cause, abort>>,
         kind.hls => w.cleanup = row.cleanup, ~kind.hls /\ then = "done" => Settled(w),
         fault => fault', w.status = "failed" => fault', fault' \in BOOLEAN,
         wterm' \in BOOLEAN, trterm' \in BOOLEAN, asr' \in {asr, "live", "dead"},
         route' \in {route, "open", "closed"}
  PROVE  LiveTypes' /\ OwnedColumns' /\ FailureInv' /\ CleanupInv'
         /\ Going' = then /\ LastTranslation' = w.translation /\ OpenTxn("worker")'
<1>1. UNCHANGED inputVars
  BY DEF Beside
<1>2. /\ SlotTypes' /\ OwnedColumns' /\ CleanupInv'
      /\ Going' = then /\ LastTranslation' = w.translation /\ OpenTxn("worker")'
      /\ \A t \in Threads : OpenTxn(t)' /\ slot'[t].want.status = "failed" => fault'
  BY <1>1, WorkerSelects
<1>3. LiveTypes'
  BY <1>2 DEF Beside, inputVars, LiveInv, LiveTypes, LiveTypeOK, WorkerTypeOK, InputTypeOK
<1>4. FailureInv'
  BY <1>2 DEF Beside, inputVars, LiveInv, FailureInv
<1> QED
  BY <1>2, <1>3, <1>4

\* start_replay.
LEMMA OpeningStep == ASSUME LiveInv, Beside, StartReplayStep PROVE LiveInv'
<1> USE DEF At, Idle, Goto, MainOnly
<1>1. row \in Row /\ fault \in BOOLEAN /\ wterm \in BOOLEAN /\ trterm \in BOOLEAN /\ wpc = "opening" /\ ~OpenTxn("worker")
  BY DEF StartReplayStep, LiveInv, LiveTypes, LiveTypeOK, WorkerTypeOK, OpenTxn
<1>2. CASE CanStart(row)
  <2>1. PICK w \in Row : /\ w = IF kind.hls THEN StartReplay(row) ELSE MarkSourceRunning(StartReplay(row))
                         /\ kind.hls => w.cleanup = row.cleanup
                         /\ w.translation = row.translation /\ w.status = "running"
    BY <1>1, StatusOps, SourceOps DEF SameColumns, SameRun
  <2>2. PICK then \in Steps : then = IF kind.transport THEN "streaming" ELSE "connecting"
    BY DEF Steps
  <2>3. Select("worker", w, then) /\ UNCHANGED <<row, MainOnly, wpc>>
    BY <1>2, <2>1, <2>2, Zenon DEF StartReplayStep, Persist
  <2>4. /\ LiveTypes' /\ OwnedColumns' /\ FailureInv' /\ CleanupInv'
        /\ Going' = then /\ LastTranslation' = w.translation /\ OpenTxn("worker")'
    BY <1>1, <2>1, <2>2, <2>3, WorkerWrites
  <2>5. TranslationInv' /\ ReadInv'
    BY <1>1, <2>1, <2>2, <2>3, <2>4
    DEF LiveInv, TranslationInv, ReadInv, Going, LastTranslation, Early, Leaving, Late, Translating
  <2> QED
    BY <2>4, <2>5 DEF LiveInv
<1>3. CASE ~CanStart(row)
  BY <1>1, <1>3, Leaves DEF StartReplayStep, Leave, Raise, Leaving
<1> QED
  BY <1>2, <1>3

(* All of the task but its step, its runtime's flag and its transaction.   *)
Rest == <<row, kind, track, fault, asr, pending, emitted, route, trterm, cause, abort, died>>

\* A transition that the runtime makes or, once the session has ended, drops.
LEMMA TransitionFits ==
  ASSUME LiveInv, Beside, NEW w \in Row, NEW then \in Steps, ~OpenTxn("worker"),
         w.cleanup = row.cleanup, w.translation = row.translation, w.status # "failed",
         \/ wpc = "finalizing" /\ then = IF kind.transport THEN "completing" ELSE "finishing"
         \/ wpc = "completing" /\ then = "completed",
         UNCHANGED Rest,
         \/ Goto(then) /\ UNCHANGED slot /\ wterm' \in BOOLEAN
         \/ Persist(w, then) /\ UNCHANGED wterm
  PROVE  LiveInv'
<1>1. fault \in BOOLEAN /\ wterm \in BOOLEAN /\ trterm \in BOOLEAN /\ kind.transport \in BOOLEAN
  BY KindsAssumption DEF LiveInv, LiveTypes, LiveTypeOK, WorkerTypeOK
<1>2. CASE Goto(then) /\ UNCHANGED slot /\ wterm' \in BOOLEAN
  <2>1. Going' = then /\ Going = wpc /\ LastTranslation' = LastTranslation /\ wpc' = then
    BY <1>2 DEF Goto, Going, LastTranslation, OpenTxn, Rest
  <2>2. LiveTypes'
    BY <1>1, <1>2, <2>1 DEF Beside, inputVars, Rest, LiveInv, LiveTypes, LiveTypeOK, SlotTypes, WorkerTypeOK,
                            InputTypeOK, OpenTxn
  <2>3. OwnedColumns' /\ FailureInv'
    BY <1>2, <2>1 DEF Beside, inputVars, Rest, LiveInv, OwnedColumns, Owned, Keeper, FailureInv, OpenTxn
  <2>4. TranslationInv' /\ ReadInv'
    BY <1>1, <1>2, <2>1 DEF Rest, LiveInv, TranslationInv, ReadInv, Early, Leaving, Late, Translating
  <2>5. CleanupInv'
    BY <1>2, <2>1 DEF Beside, inputVars, Rest, LiveInv, CleanupInv, OpenTxn, Unseen, Settled
  <2> QED
    BY <2>2, <2>3, <2>4, <2>5 DEF LiveInv
<1>3. CASE Persist(w, then) /\ UNCHANGED wterm
  <2>1. Select("worker", w, then) /\ UNCHANGED <<row, kind, track, wpc, died, pending, emitted, cause, abort>>
        /\ UNCHANGED <<fault, wterm, trterm, asr, route>>
    BY <1>3 DEF Persist, Rest
  <2>2. then # "done"
    BY DEF Steps
  <2>3. /\ LiveTypes' /\ OwnedColumns' /\ FailureInv' /\ CleanupInv'
        /\ Going' = then /\ LastTranslation' = w.translation /\ OpenTxn("worker")'
    BY <1>1, <2>1, <2>2, WorkerWrites
  <2>4. Going = wpc /\ LastTranslation = row.translation
    BY DEF Going, LastTranslation
  <2>5. TranslationInv' /\ ReadInv'
    BY <1>1, <2>1, <2>3, <2>4 DEF LiveInv, TranslationInv, ReadInv, Early, Leaving, Late, Translating
  <2> QED
    BY <2>3, <2>5 DEF LiveInv
<1> QED
  BY <1>2, <1>3

\* begin_finalizing and complete of the runtime.
LEMMA UnlessEndedStep ==
  ASSUME LiveInv, Beside, BeginFinalizing \/ CompleteStep
  PROVE  LiveInv'
<1> USE DEF At, Idle
<1>1. row \in Row /\ wterm \in BOOLEAN /\ ~OpenTxn("worker") /\ wpc \in {"finalizing", "completing"}
  BY DEF BeginFinalizing, CompleteStep, LiveInv, LiveTypes, LiveTypeOK, WorkerTypeOK, OpenTxn
<1>2. CASE Leave("error")
  BY <1>1, <1>2, Leaves DEF Leave, Raise, Leaving
<1>3. CASE BeginFinalizing /\ ~Leave("error")
  <2>1. PICK w \in Row : /\ w = Transition(row, "finalizing")
                         /\ w.cleanup = row.cleanup /\ w.translation = row.translation /\ w.status # "failed"
    <3>1. "finalizing" \in SessionStatus
      BY DEF SessionStatus, Normal
    <3> QED
      BY <1>1, <3>1, StatusOps DEF SameColumns
  <2>2. PICK then \in Steps : then = IF kind.transport THEN "completing" ELSE "finishing"
    BY DEF Steps
  <2>3. wpc = "finalizing"
    BY <1>3 DEF BeginFinalizing
  <2>4. /\ UNCHANGED Rest
        /\ \/ Goto(then) /\ UNCHANGED slot /\ wterm' \in {wterm, TRUE}
           \/ Persist(w, then) /\ UNCHANGED wterm
    BY <1>3, <2>1, <2>2, Zenon DEF BeginFinalizing, UnlessEnded, MainOnly, Rest
  <2> QED
    BY <1>1, <2>1, <2>2, <2>3, <2>4, TransitionFits
<1>4. CASE CompleteStep /\ ~Leave("error")
  <2>1. PICK w \in Row : /\ w = Complete(row)
                         /\ w.cleanup = row.cleanup /\ w.translation = row.translation /\ w.status # "failed"
    BY <1>1, StatusOps DEF SameColumns
  <2>2. PICK then \in Steps : then = "completed"
    BY DEF Steps
  <2>3. wpc = "completing"
    BY <1>4 DEF CompleteStep
  <2>4. /\ UNCHANGED Rest
        /\ \/ Goto(then) /\ UNCHANGED slot /\ wterm' \in {wterm, TRUE}
           \/ Persist(w, then) /\ UNCHANGED wterm
    BY <1>4, <2>1, <2>2, Zenon DEF CompleteStep, UnlessEnded, MainOnly, Rest
  <2> QED
    BY <1>1, <2>1, <2>2, <2>3, <2>4, TransitionFits
<1> QED
  BY <1>2, <1>3, <1>4

\* A step of the task that writes nothing.
LEMMA WorkerGoesOn ==
  ASSUME LiveInv, Beside, NEW then \in Steps, Goto(then), ~OpenTxn("worker"),
         then \notin {"failing", "waiting"}, wpc # "waiting", kind.hls \/ then # "done",
         UNCHANGED <<row, slot, kind, track, fault, wterm, pending, emitted, trterm, cause, abort, died>>,
         asr' \in {asr, "dead"}, route' \in {route, "closed"}
  PROVE  LiveTypes' /\ OwnedColumns' /\ FailureInv' /\ CleanupInv'
         /\ Going' = then /\ wpc' = then /\ LastTranslation' = LastTranslation /\ ~OpenTxn("worker")'
<1>1. Going' = then /\ wpc' = then /\ LastTranslation' = LastTranslation /\ ~OpenTxn("worker")'
  BY DEF Goto, Going, LastTranslation, OpenTxn
<1>2. LiveTypes'
  BY <1>1 DEF Beside, inputVars, LiveInv, LiveTypes, LiveTypeOK, SlotTypes, WorkerTypeOK, InputTypeOK, OpenTxn
<1>3. OwnedColumns' /\ FailureInv'
  BY <1>1 DEF Beside, inputVars, LiveInv, OwnedColumns, Owned, Keeper, FailureInv, OpenTxn
<1>4. CleanupInv'
  BY <1>1 DEF Beside, inputVars, LiveInv, CleanupInv, OpenTxn, Unseen, Settled
<1> QED
  BY <1>1, <1>2, <1>3, <1>4

\* What the steps below read of the state.
LEMMA WorkerFacts ==
  ASSUME LiveInv
  PROVE  /\ row \in Row /\ wterm \in BOOLEAN /\ trterm \in BOOLEAN /\ fault \in BOOLEAN
         /\ route \in {"none", "hello", "open", "closed"} /\ wpc \in Steps
         /\ asr \in {"off", "hello", "live", "dead"}
         /\ ~OpenTxn("worker") => Going = wpc /\ LastTranslation = row.translation
BY DEF LiveInv, LiveTypes, LiveTypeOK, WorkerTypeOK, Going, LastTranslation

\* WorkerTranslationRuntime: start and begin_finalizing.
LEMMA TranslationBegins ==
  ASSUME LiveInv, Beside, StartTranslation \/ FinalizeTranslation
  PROVE  LiveInv'
<1> USE DEF At, Idle
<1>1. ~OpenTxn("worker") /\ row \in Row /\ Going = wpc /\ LastTranslation = row.translation
      /\ wterm \in BOOLEAN /\ trterm \in BOOLEAN /\ fault \in BOOLEAN
  BY WorkerFacts DEF StartTranslation, FinalizeTranslation, OpenTxn
<1>2. PICK v \in Row : v = MarkTranslationStarting(row) /\ v.translation = "starting"
                       /\ v.status = row.status /\ v.cleanup = row.cleanup
  BY <1>1, TranslationOps DEF SameSource
<1>3. PICK w \in Row : w = BeginTranslationFinalizing(row) /\ w.status = row.status /\ w.cleanup = row.cleanup
  BY <1>1, TranslationOps DEF SameSource
<1>4. row.status = "failed" => fault
  BY DEF LiveInv, FailureInv
<1>5. CASE StartTranslation
  <2>1. Select("worker", v, "trConnecting") /\ UNCHANGED <<row, MainOnly, wpc>> /\ wpc = "translating"
        /\ "trConnecting" \in Steps /\ ~trterm
    BY <1>1, <1>2, <1>5 DEF StartTranslation, Persist, Steps, LiveInv, TranslationInv, Early
  <2>2. /\ LiveTypes' /\ OwnedColumns' /\ FailureInv' /\ CleanupInv'
        /\ Going' = "trConnecting" /\ LastTranslation' = v.translation /\ OpenTxn("worker")'
    BY <1>1, <1>2, <1>4, <2>1, WorkerWrites DEF MainOnly
  <2>3. TranslationInv' /\ ReadInv'
    BY <1>1, <1>2, <2>1, <2>2 DEF MainOnly, LiveInv, TranslationInv, ReadInv, Early, Leaving, Late, Translating
  <2> QED
    BY <2>2, <2>3 DEF LiveInv
<1>6. CASE FinalizeTranslation
  <2>1. CASE trterm
    <3>1. /\ Goto("trFinishing") /\ UNCHANGED <<row, slot, MainOnly>> /\ wpc = "trFinalizing"
          /\ "trFinishing" \in Steps
      BY <1>6, <2>1 DEF FinalizeTranslation, Steps
    <3>2. /\ LiveTypes' /\ OwnedColumns' /\ FailureInv' /\ CleanupInv'
          /\ Going' = "trFinishing" /\ wpc' = "trFinishing" /\ LastTranslation' = LastTranslation /\ ~OpenTxn("worker")'
      BY <1>1, <3>1, WorkerGoesOn DEF MainOnly
    <3>3. TranslationInv' /\ ReadInv'
      BY <1>1, <2>1, <3>1, <3>2 DEF MainOnly, LiveInv, TranslationInv, ReadInv, Early, Leaving, Late, Translating
    <3> QED
      BY <3>2, <3>3 DEF LiveInv
  <2>2. CASE ~trterm
    <3>1. /\ Select("worker", w, "trFinishing") /\ UNCHANGED <<row, MainOnly, wpc>> /\ wpc = "trFinalizing"
          /\ "trFinishing" \in Steps
      BY <1>3, <1>6, <2>2 DEF FinalizeTranslation, Persist, Steps
    <3>2. /\ LiveTypes' /\ OwnedColumns' /\ FailureInv' /\ CleanupInv'
          /\ Going' = "trFinishing" /\ LastTranslation' = w.translation /\ OpenTxn("worker")'
      BY <1>1, <1>3, <1>4, <3>1, WorkerWrites DEF MainOnly
    <3>3. TranslationInv' /\ ReadInv'
      BY <1>1, <2>2, <3>1, <3>2 DEF MainOnly, LiveInv, TranslationInv, ReadInv, Early, Leaving, Late, Translating
    <3> QED
      BY <3>2, <3>3 DEF LiveInv
  <2> QED
    BY <2>1, <2>2
<1> QED
  BY <1>5, <1>6

\* degrade_translation and the end of the translation: the runtime writes once.
LEMMA TranslationCloses ==
  ASSUME LiveInv, Beside, NEW w \in Row, NEW then \in Steps, ~OpenTxn("worker"),
         w.status = row.status, w.cleanup = row.cleanup, w.translation \in {"completed", "failed"},
         \/ wpc = "trConnecting" /\ then = "streaming" /\ route' = route
         \/ wpc = "streaming" /\ then = "streaming" /\ route' = "closed"
         \/ wpc = "trFinishing" /\ then = "cleaning" /\ route' = "closed"
         \/ wpc = "degrading" /\ then = "aborting" /\ route' = "closed",
         UNCHANGED <<row, kind, track, fault, wterm, asr, pending, emitted, cause, abort, died>>,
         \/ trterm /\ Goto(then) /\ UNCHANGED <<slot, trterm>>
         \/ ~trterm /\ Persist(w, then) /\ trterm' = TRUE
  PROVE  LiveInv'
<1>1. row \in Row /\ wterm \in BOOLEAN /\ trterm \in BOOLEAN /\ fault \in BOOLEAN
      /\ Going = wpc /\ LastTranslation = row.translation
  BY WorkerFacts
<1>2. row.status = "failed" => fault
  BY DEF LiveInv, FailureInv
<1>3. then \notin {"failing", "waiting", "done"} /\ wpc # "waiting" /\ route' \in {route, "open", "closed"}
  OBVIOUS
<1>4. CASE trterm /\ Goto(then) /\ UNCHANGED <<slot, trterm>>
  <2>1. /\ LiveTypes' /\ OwnedColumns' /\ FailureInv' /\ CleanupInv'
        /\ Going' = then /\ wpc' = then /\ LastTranslation' = LastTranslation /\ ~OpenTxn("worker")'
    BY <1>3, <1>4, WorkerGoesOn
  <2>2. TranslationInv' /\ ReadInv'
    BY <1>1, <1>4, <2>1 DEF LiveInv, TranslationInv, ReadInv, Early, Leaving, Late, Translating
  <2> QED
    BY <2>1, <2>2 DEF LiveInv
<1>5. CASE ~trterm /\ Persist(w, then) /\ trterm' = TRUE
  <2>1. Select("worker", w, then) /\ UNCHANGED wpc /\ trterm' \in BOOLEAN
    BY <1>5 DEF Persist
  <2>2. /\ LiveTypes' /\ OwnedColumns' /\ FailureInv' /\ CleanupInv'
        /\ Going' = then /\ LastTranslation' = w.translation /\ OpenTxn("worker")'
    BY <1>1, <1>2, <1>3, <2>1, WorkerWrites
  <2>3. TranslationInv' /\ ReadInv'
    BY <1>1, <1>5, <2>1, <2>2 DEF LiveInv, TranslationInv, ReadInv, Early, Leaving, Late, Translating
  <2> QED
    BY <2>2, <2>3 DEF LiveInv
<1> QED
  BY <1>4, <1>5

\* The steps that end the translation.
LEMMA TranslationEnds ==
  ASSUME LiveInv, Beside,
         TranslationConnectFails \/ TranslationRouteFails \/ FinishTranslation \/ TranslationFinishFails
  PROVE  LiveInv'
<1> USE DEF At, Idle
<1>1. row \in Row /\ ~OpenTxn("worker")
  BY WorkerFacts DEF OpenTxn, TranslationConnectFails, TranslationRouteFails, FinishTranslation, TranslationFinishFails
<1>2. PICK v \in Row : v = CompleteTranslation(row) /\ v.translation \in {"completed", "failed"}
                       /\ v.status = row.status /\ v.cleanup = row.cleanup
  BY <1>1, TranslationOps DEF SameSource
<1>3. PICK w \in Row : w = FailTranslation(row) /\ w.translation \in {"completed", "failed"}
                       /\ w.status = row.status /\ w.cleanup = row.cleanup
  BY <1>1, TranslationOps DEF SameSource
<1>4. "streaming" \in Steps /\ "cleaning" \in Steps
  BY DEF Steps
<1>5. CASE TranslationConnectFails
  <2>1. /\ wpc = "trConnecting" /\ route' = route
        /\ UNCHANGED <<row, kind, track, fault, wterm, asr, pending, emitted, cause, abort, died>>
        /\ \/ trterm /\ Goto("streaming") /\ UNCHANGED <<slot, trterm>>
           \/ ~trterm /\ Persist(w, "streaming") /\ trterm' = TRUE
    BY <1>3, <1>5, Zenon DEF TranslationConnectFails, Degrade
  <2> QED
    BY <1>1, <1>3, <1>4, <2>1, TranslationCloses
<1>6. CASE TranslationRouteFails
  <2>1. /\ wpc = "streaming" /\ route' = "closed"
        /\ UNCHANGED <<row, kind, track, fault, wterm, asr, pending, emitted, cause, abort, died>>
        /\ \/ trterm /\ Goto("streaming") /\ UNCHANGED <<slot, trterm>>
           \/ ~trterm /\ Persist(w, "streaming") /\ trterm' = TRUE
    BY <1>3, <1>6, Zenon DEF TranslationRouteFails, Degrade
  <2> QED
    BY <1>1, <1>3, <1>4, <2>1, TranslationCloses
<1>7. CASE FinishTranslation
  <2>1. /\ wpc = "trFinishing" /\ route' = "closed"
        /\ UNCHANGED <<row, kind, track, fault, wterm, asr, pending, emitted, cause, abort, died>>
        /\ \/ trterm /\ Goto("cleaning") /\ UNCHANGED <<slot, trterm>>
           \/ ~trterm /\ Persist(v, "cleaning") /\ trterm' = TRUE
    BY <1>2, <1>7, Zenon DEF FinishTranslation
  <2> QED
    BY <1>1, <1>2, <1>4, <2>1, TranslationCloses
<1>8. CASE TranslationFinishFails
  <2>1. /\ wpc = "trFinishing" /\ route' = "closed"
        /\ UNCHANGED <<row, kind, track, fault, wterm, asr, pending, emitted, cause, abort, died>>
        /\ \/ trterm /\ Goto("cleaning") /\ UNCHANGED <<slot, trterm>>
           \/ ~trterm /\ Persist(w, "cleaning") /\ trterm' = TRUE
    BY <1>3, <1>8, Zenon DEF TranslationFinishFails, Degrade
  <2> QED
    BY <1>1, <1>3, <1>4, <2>1, TranslationCloses
<1> QED
  BY <1>5, <1>6, <1>7, <1>8

\* The failed source route takes the translation with it.
LEMMA DegradingStep == ASSUME LiveInv, Beside, DegradeStep PROVE LiveInv'
<1> USE DEF At, Idle
<1>1. row \in Row /\ ~OpenTxn("worker") /\ wpc = "degrading" /\ Going = wpc /\ LastTranslation = row.translation
      /\ trterm \in BOOLEAN /\ route \in {"none", "hello", "open", "closed"} /\ "aborting" \in Steps
  BY WorkerFacts DEF OpenTxn, DegradeStep, Steps
<1>2. PICK w \in Row : w = FailTranslation(row) /\ w.translation \in {"completed", "failed"}
                       /\ w.status = row.status /\ w.cleanup = row.cleanup
  BY <1>1, TranslationOps DEF SameSource
<1>3. UNCHANGED <<row, kind, track, fault, wterm, asr, pending, emitted, cause, abort, died>>
  BY DEF DegradeStep
<1>4. CASE cause = "error" /\ route # "none"
  <2>1. /\ route' = "closed"
        /\ \/ trterm /\ Goto("aborting") /\ UNCHANGED <<slot, trterm>>
           \/ ~trterm /\ Persist(w, "aborting") /\ trterm' = TRUE
    BY <1>2, <1>4, Zenon DEF DegradeStep, Degrade
  <2> QED
    BY <1>1, <1>2, <1>3, <2>1, TranslationCloses
<1>5. CASE ~(cause = "error" /\ route # "none")
  <2>1. Goto("aborting") /\ UNCHANGED <<slot, trterm, route>>
    BY <1>5, Zenon DEF DegradeStep
  <2>2. /\ LiveTypes' /\ OwnedColumns' /\ FailureInv' /\ CleanupInv'
        /\ Going' = "aborting" /\ wpc' = "aborting" /\ LastTranslation' = LastTranslation /\ ~OpenTxn("worker")'
    BY <1>1, <1>3, <2>1, WorkerGoesOn
  <2>3. cause \in {"none", "error", "cancel"}
    BY DEF LiveInv, LiveTypes, LiveTypeOK, WorkerTypeOK
  <2>4. TranslationInv' /\ ReadInv'
    BY <1>1, <1>3, <1>5, <2>1, <2>2, <2>3
    DEF LiveInv, TranslationInv, ReadInv, Early, Leaving, Late, Translating
  <2> QED
    BY <2>2, <2>4 DEF LiveInv
<1> QED
  BY <1>4, <1>5

\* What an event task's handler writes: the main path stays where it is.
LEMMA EventWrites ==
  ASSUME LiveInv, Beside, NEW w \in Row, ~OpenTxn("worker"), Select("worker", w, wpc), wpc \notin {"waiting", "done"},
         UNCHANGED <<row, kind, track, wpc, died, pending, emitted, cause, abort>>,
         w.cleanup = row.cleanup, fault' \in BOOLEAN, fault => fault', w.status = "failed" => fault',
         wterm' \in BOOLEAN,
         \/ asr' = asr
         \/ asr \in {"hello", "live"} /\ asr' \in {"live", "dead"} /\ wpc \notin Late,
         \/ w.translation = row.translation /\ UNCHANGED <<trterm, route>>
         \/ /\ Translating /\ ~trterm
            /\ \/ w.translation = "running" /\ trterm' = trterm /\ route' = "open"
               \/ w.translation \in {"completed", "failed"} /\ trterm' = TRUE /\ route' = route
  PROVE  LiveInv'
<1>1. row \in Row /\ trterm \in BOOLEAN /\ Going = wpc /\ LastTranslation = row.translation
      /\ route \in {"none", "hello", "open", "closed"} /\ asr \in {"off", "hello", "live", "dead"}
  BY WorkerFacts
<1>2. PICK then \in Steps : then = wpc
  BY WorkerFacts
<1>3. trterm' \in BOOLEAN /\ asr' \in {asr, "live", "dead"} /\ route' \in {route, "open", "closed"}
  BY <1>1
<1>4. /\ LiveTypes' /\ OwnedColumns' /\ FailureInv' /\ CleanupInv'
      /\ Going' = wpc /\ LastTranslation' = w.translation /\ OpenTxn("worker")'
  BY <1>1, <1>2, <1>3, WorkerWrites
<1>5. TranslationInv'
  BY <1>1, <1>4 DEF LiveInv, TranslationInv, Early, Leaving, Translating
<1>6. ReadInv'
  BY <1>1, <1>4 DEF LiveInv, ReadInv, Late
<1> QED
  BY <1>4, <1>5, <1>6 DEF LiveInv

\* handle_asr_event and handle_event for the streams' first events and their errors.
LEMMA EventSteps ==
  ASSUME LiveInv, Beside, StreamStarted \/ StreamError \/ TranslationActive \/ TranslationStreamError
  PROVE  LiveInv'
<1> USE DEF Idle
<1>1. row \in Row /\ ~OpenTxn("worker") /\ Going = wpc /\ wterm \in BOOLEAN /\ fault \in BOOLEAN
      /\ trterm \in BOOLEAN /\ (row.status = "failed" => fault)
  BY WorkerFacts DEF OpenTxn, EventAt, StreamStarted, StreamError, TranslationActive, TranslationStreamError,
                     LiveInv, FailureInv
<1>2. CASE StreamStarted \/ StreamError
  <2>1. wpc \notin {"waiting", "done"} /\ wpc \notin Late
    BY <1>2 DEF StreamStarted, StreamError, EventAt, Late
  <2>2. CASE UNCHANGED <<row, slot, kind, track, wpc, emitted, route, trterm, cause, abort, died, pending>>
             /\ asr \in {"hello", "live"} /\ asr' \in {"live", "dead"} /\ (fault' = fault \/ fault' = TRUE) /\ UNCHANGED wterm
    <3>1. fault' \in BOOLEAN /\ (fault => fault') /\ Going' = wpc /\ LastTranslation' = LastTranslation
      <4>1. fault' \in BOOLEAN /\ (fault => fault')
        <5>1. CASE fault' = fault
          BY <1>1, <5>1, Zenon
        <5>2. CASE fault' = TRUE
          BY <5>2
        <5> QED
          BY <2>2, <5>1, <5>2, Zenon
      <4>2. Going' = wpc /\ LastTranslation' = LastTranslation
        BY <1>1, <2>2 DEF Going, LastTranslation, OpenTxn
      <4> QED
        BY <4>1, <4>2
    <3>2. LiveTypes' /\ OwnedColumns'
      BY <2>2, <3>1 DEF Beside, inputVars, LiveInv, LiveTypes, LiveTypeOK, SlotTypes, WorkerTypeOK, InputTypeOK,
                        OpenTxn, OwnedColumns, Owned, Keeper
    <3>3. FailureInv' /\ TranslationInv'
      BY <1>1, <2>2, <3>1 DEF Beside, inputVars, LiveInv, FailureInv, TranslationInv, OpenTxn, Translating
    <3>4. ReadInv'
      BY <1>1, <2>1, <2>2, <3>1 DEF LiveInv, ReadInv
    <3>5. CleanupInv'
      BY <1>1, <2>1, <2>2, <3>1 DEF Beside, inputVars, LiveInv, CleanupInv, OpenTxn, Unseen, Settled
    <3> QED
      BY <3>2, <3>3, <3>4, <3>5 DEF LiveInv
  <2>3. PICK v \in Row : v = MarkTranscribing(row) /\ v.cleanup = row.cleanup
                         /\ v.translation = row.translation /\ v.status # "failed"
    BY <1>1, StatusOps DEF SameColumns
  <2>4. PICK w \in Row : w = Fail(row) /\ w.cleanup = row.cleanup /\ w.translation = row.translation
    BY <1>1, StatusOps DEF SameColumns
  <2>5. \/ UNCHANGED <<row, slot, kind, track, wpc, emitted, route, trterm, cause, abort, died, pending>>
           /\ asr \in {"hello", "live"} /\ asr' \in {"live", "dead"} /\ (fault' = fault \/ fault' = TRUE) /\ UNCHANGED wterm
        \/ Select("worker", v, wpc) /\ asr = "hello" /\ asr' = "live" /\ UNCHANGED <<fault, wterm>>
           /\ UNCHANGED <<row, pending, AsrOnly>>
        \/ Select("worker", w, wpc) /\ asr = "live" /\ asr' = "dead" /\ fault' = TRUE /\ wterm' = TRUE
           /\ UNCHANGED <<row, pending, AsrOnly>>
    <3>1. CASE StreamStarted
      BY <2>3, <3>1, Zenon DEF StreamStarted, AsrOnly
    <3>2. CASE StreamError
      BY <2>4, <3>2, Zenon DEF StreamError, AsrOnly
    <3> QED
      BY <1>2, <3>1, <3>2
  <2>6. CASE Select("worker", v, wpc) /\ asr = "hello" /\ asr' = "live" /\ UNCHANGED <<fault, wterm>>
             /\ UNCHANGED <<row, pending, AsrOnly>>
    BY <1>1, <2>1, <2>3, <2>6, EventWrites DEF AsrOnly
  <2>7. CASE Select("worker", w, wpc) /\ asr = "live" /\ asr' = "dead" /\ fault' = TRUE /\ wterm' = TRUE
             /\ UNCHANGED <<row, pending, AsrOnly>>
    BY <1>1, <2>1, <2>4, <2>7, EventWrites DEF AsrOnly
  <2> QED
    BY <2>2, <2>5, <2>6, <2>7
<1>3. CASE TranslationActive
  <2>1. Translating /\ wpc \notin {"waiting", "done"}
    BY <1>1, <1>3 DEF TranslationActive, Translating, LiveInv, TranslationInv, Early
  <2>2. PICK w \in Row : w = MarkTranslationActive(row) /\ w.translation = "running"
                         /\ w.status = row.status /\ w.cleanup = row.cleanup
    BY <1>1, TranslationOps DEF SameSource
  <2>3. CASE trterm
    <3>1. /\ UNCHANGED <<row, slot, wpc, kind, track, fault, wterm, asr, pending, emitted, trterm, cause, abort, died>>
          /\ route = "hello" /\ route' = "open"
      BY <1>3, <2>3, Zenon DEF TranslationActive
    <3>2. /\ Going' = Going /\ LastTranslation' = LastTranslation
          /\ Translating' = Translating
      BY <3>1 DEF Going, LastTranslation, OpenTxn, Translating
    <3>3. LiveTypes' /\ OwnedColumns'
      BY <3>1 DEF Beside, inputVars, LiveInv, LiveTypes, LiveTypeOK, SlotTypes, WorkerTypeOK, InputTypeOK,
                  OpenTxn, OwnedColumns, Owned, Keeper
    <3>4. FailureInv' /\ TranslationInv'
      BY <3>1, <3>2 DEF Beside, inputVars, LiveInv, FailureInv, TranslationInv, OpenTxn
    <3>5. ReadInv' /\ CleanupInv'
      BY <3>1, <3>2 DEF Beside, inputVars, LiveInv, ReadInv, CleanupInv, OpenTxn, Unseen, Settled
    <3> QED
      BY <3>3, <3>4, <3>5 DEF LiveInv
  <2>4. CASE ~trterm
    <3>1. /\ Select("worker", w, wpc) /\ route' = "open"
          /\ UNCHANGED <<row, wpc, kind, track, fault, wterm, asr, pending, emitted, trterm, cause, abort, died>>
      BY <1>3, <2>2, <2>4, Zenon DEF TranslationActive
    <3> QED
      BY <1>1, <2>1, <2>2, <2>4, <3>1, EventWrites
  <2> QED
    BY <2>3, <2>4
<1>4. CASE TranslationStreamError
  <2>1. Translating /\ wpc \notin {"waiting", "done"} /\ ~trterm
    BY <1>1, <1>4 DEF TranslationStreamError, Translating, LiveInv, TranslationInv, Early
  <2>2. PICK w \in Row : w = FailTranslation(row) /\ w.translation \in {"completed", "failed"}
                         /\ w.status = row.status /\ w.cleanup = row.cleanup
    BY <1>1, TranslationOps DEF SameSource
  <2>3. /\ Select("worker", w, wpc) /\ trterm' = TRUE
        /\ UNCHANGED <<row, wpc, kind, track, fault, wterm, asr, pending, emitted, route, cause, abort, died>>
    BY <1>4, <2>2 DEF TranslationStreamError
  <2> QED
    BY <1>1, <2>1, <2>2, <2>3, EventWrites
<1> QED
  BY <1>2, <1>3, <1>4

\* The failed or cancelled task reports it, unless the session has ended.
LEMMA ReportStep == ASSUME LiveInv, Beside, Report PROVE LiveInv'
<1> USE DEF At, Idle
<1>1. row \in Row /\ ~OpenTxn("worker") /\ wpc = "failing" /\ Going = wpc /\ LastTranslation = row.translation
      /\ wterm \in BOOLEAN /\ trterm \in BOOLEAN /\ fault \in BOOLEAN /\ "degrading" \in Steps
  BY WorkerFacts DEF OpenTxn, Report, Steps
<1>2. PICK w \in Row : /\ w = IF cause = "cancel" THEN Cancel(row, "worker_cancelled") ELSE Fail(row)
                       /\ w.cleanup = row.cleanup /\ w.translation = row.translation
                       /\ w.status = "failed" => cause # "cancel"
  BY <1>1, StatusOps DEF SameColumns, StopReason
<1>3. UNCHANGED <<row, MainOnly>>
  BY DEF Report
<1>4. w.status = "failed" => fault
  BY <1>1, <1>2 DEF LiveInv, FailureInv
<1>5. \/ Persist(w, "degrading")
      \/ Goto("degrading") /\ UNCHANGED slot
  BY <1>2, Zenon DEF Report
<1>6. cause # "none"
  BY <1>1 DEF LiveInv, TranslationInv, Leaving
<1>7. CASE Persist(w, "degrading")
  <2>1. /\ LiveTypes' /\ OwnedColumns' /\ FailureInv' /\ CleanupInv'
        /\ Going' = "degrading" /\ LastTranslation' = w.translation /\ OpenTxn("worker")'
    BY <1>1, <1>2, <1>3, <1>4, <1>7, WorkerWrites DEF MainOnly, Persist
  <2>2. TranslationInv' /\ ReadInv'
    BY <1>1, <1>2, <1>3, <1>6, <1>7, <2>1
    DEF MainOnly, Persist, LiveInv, TranslationInv, ReadInv, Early, Leaving, Late, Translating
  <2> QED
    BY <2>1, <2>2 DEF LiveInv
<1>8. CASE Goto("degrading") /\ UNCHANGED slot
  <2>1. /\ LiveTypes' /\ OwnedColumns' /\ FailureInv' /\ CleanupInv'
        /\ Going' = "degrading" /\ wpc' = "degrading" /\ LastTranslation' = LastTranslation /\ ~OpenTxn("worker")'
    BY <1>1, <1>3, <1>8, WorkerGoesOn DEF MainOnly
  <2>2. TranslationInv' /\ ReadInv'
    BY <1>1, <1>3, <1>6, <2>1
    DEF MainOnly, LiveInv, TranslationInv, ReadInv, Early, Leaving, Late, Translating
  <2> QED
    BY <2>1, <2>2 DEF LiveInv
<1> QED
  BY <1>5, <1>7, <1>8

\* complete_source_cleanup or fail_source_cleanup, then the task ends.
LEMMA CleaningStep ==
  ASSUME LiveInv, Beside, CleanUp(MarkSourceStopped(row)) \/ CleanUp(MarkSourceCleanupFailed(row))
  PROVE  LiveInv'
<1> USE DEF At, Idle
<1>1. row \in Row /\ ~OpenTxn("worker") /\ wpc = "cleaning" /\ Going = wpc /\ LastTranslation = row.translation
      /\ wterm \in BOOLEAN /\ trterm \in BOOLEAN /\ fault \in BOOLEAN /\ "done" \in Steps
      /\ asr \in {"off", "hello", "live", "dead"} /\ route \in {"none", "hello", "open", "closed"}
  BY WorkerFacts DEF OpenTxn, CleanUp, Steps
<1>2. PICK w \in Row : /\ w.status = row.status /\ w.translation = row.translation /\ Settled(w)
                       /\ \/ kind.hls /\ Goto("done") /\ UNCHANGED slot
                          \/ ~kind.hls /\ Persist(w, "done")
  <2>1. CASE kind.hls
    <3>1. Goto("done") /\ UNCHANGED slot
      BY <2>1, Zenon DEF CleanUp
    <3> QED
      BY <1>1, <2>1, <3>1, SourceOps DEF SameRun
  <2>2. CASE ~kind.hls
    <3>1. Persist(MarkSourceStopped(row), "done") \/ Persist(MarkSourceCleanupFailed(row), "done")
      BY <2>2, Zenon DEF CleanUp
    <3> QED
      BY <1>1, <2>2, <3>1, SourceOps DEF SameRun
  <2> QED
    BY <2>1, <2>2
<1>3. /\ route' = IF Translating THEN "closed" ELSE route
      /\ asr' = IF asr = "off" THEN "off" ELSE "dead"
      /\ UNCHANGED <<row, kind, track, fault, wterm, pending, emitted, trterm, cause, abort, died>>
  BY DEF CleanUp
<1>4. route' \in {route, "open", "closed"} /\ asr' \in {asr, "live", "dead"} /\ route' \in {route, "closed"}
      /\ asr' \in {asr, "dead"} /\ ~Translating'
  BY <1>3 DEF Translating
<1>5. row.status = "failed" => fault
  BY DEF LiveInv, FailureInv
<1>6. CASE kind.hls /\ Goto("done") /\ UNCHANGED slot
  <2>1. /\ LiveTypes' /\ OwnedColumns' /\ FailureInv' /\ CleanupInv'
        /\ Going' = "done" /\ wpc' = "done" /\ LastTranslation' = LastTranslation /\ ~OpenTxn("worker")'
    BY <1>1, <1>3, <1>4, <1>6, WorkerGoesOn
  <2>2. TranslationInv' /\ ReadInv'
    BY <1>1, <1>3, <1>4, <2>1 DEF LiveInv, TranslationInv, ReadInv, Early, Leaving, Late
  <2> QED
    BY <2>1, <2>2 DEF LiveInv
<1>7. CASE ~kind.hls /\ Persist(w, "done")
  <2>1. Select("worker", w, "done") /\ UNCHANGED wpc
    BY <1>7 DEF Persist
  <2>2. /\ LiveTypes' /\ OwnedColumns' /\ FailureInv' /\ CleanupInv'
        /\ Going' = "done" /\ LastTranslation' = w.translation /\ OpenTxn("worker")'
    BY <1>1, <1>2, <1>3, <1>4, <1>5, <1>7, <2>1, WorkerWrites
  <2>3. TranslationInv' /\ ReadInv'
    BY <1>1, <1>2, <1>3, <1>4, <2>1, <2>2 DEF LiveInv, TranslationInv, ReadInv, Early, Leaving, Late
  <2> QED
    BY <2>2, <2>3 DEF LiveInv
<1> QED
  BY <1>2, <1>6, <1>7

\* A commit: the columns with one writer come out as that writer wants them.
LEMMA Commits ==
  ASSUME LiveInv, NEW t \in Threads, Update(t), UNCHANGED <<kind, fault>>
  PROVE  /\ row' \in Row /\ OpenTxn(t) /\ ~OpenTxn(t)'
         /\ \A u \in Threads \ {t} : slot'[u] = slot[u]
         /\ DOMAIN slot' = Threads /\ OwnedColumns'
         /\ row'.status = "failed" => fault
         /\ row'.translation = IF t = "worker" THEN slot[t].want.translation ELSE row.translation
         /\ row'.cleanup = IF t = Keeper THEN slot[t].want.cleanup ELSE row.cleanup
<1>1. /\ OpenTxn(t) /\ ~OpenTxn(t)' /\ DOMAIN slot' = Threads
      /\ \A u \in Threads \ {t} : slot'[u] = slot[u]
  BY DEF Update, OpenTxn, NoTxn, LiveInv, LiveTypes, SlotTypes
<1>2. /\ slot[t].seen \in Row /\ slot[t].want \in Row /\ row \in Row
      /\ row' = Merged(row, slot[t].seen, slot[t].want)
  BY <1>1 DEF Update, LiveInv, LiveTypes, LiveTypeOK, SlotTypes
<1>3. /\ row' \in Row /\ row'.status \in {row.status, slot[t].want.status}
      /\ row'.translation = IF slot[t].want.translation # slot[t].seen.translation
                            THEN slot[t].want.translation ELSE row.translation
      /\ row'.cleanup = IF slot[t].want.cleanup # slot[t].seen.cleanup
                        THEN slot[t].want.cleanup ELSE row.cleanup
  BY <1>2, MergedRow
<1>4. row'.status = "failed" => fault
  BY <1>1, <1>3 DEF LiveInv, FailureInv
<1>5. Owned(t)
  BY DEF LiveInv, OwnedColumns
<1>6. /\ row'.translation = IF t = "worker" THEN slot[t].want.translation ELSE row.translation
      /\ row'.cleanup = IF t = Keeper THEN slot[t].want.cleanup ELSE row.cleanup
  BY <1>1, <1>3, <1>5 DEF Owned
<1>7. Keeper' = Keeper
  BY DEF Keeper
<1>8. ASSUME NEW u \in Threads PROVE Owned(u)'
  <2>1. Owned(u)
    BY DEF LiveInv, OwnedColumns
  <2>2. CASE u = t
    BY <1>1, <2>2 DEF Owned
  <2>3. CASE u # t
    BY <1>1, <1>6, <1>7, <2>1, <2>3 DEF Owned, OpenTxn
  <2> QED
    BY <2>2, <2>3
<1> QED
  BY <1>1, <1>3, <1>4, <1>6, <1>8 DEF OwnedColumns

\* The worker's write is committed and its step ends.
LEMMA WorkerCommits == ASSUME LiveInv, Beside, WorkerCommit PROVE LiveInv'
<1>1. "worker" \in Threads /\ "loop" \in Threads /\ "thread" \in Threads
      /\ \A t \in Threads : t \in {"worker", "loop", "thread"}
  BY DEF Threads
<1>2. Update("worker") /\ UNCHANGED MainOnly /\ wpc' = slot["worker"].then
  BY DEF WorkerCommit, Goto
<1>3. /\ row' \in Row /\ OpenTxn("worker") /\ ~OpenTxn("worker")'
      /\ slot'["loop"] = slot["loop"] /\ slot'["thread"] = slot["thread"]
      /\ DOMAIN slot' = Threads /\ OwnedColumns'
      /\ row'.status = "failed" => fault
      /\ row'.translation = slot["worker"].want.translation
      /\ row'.cleanup = IF Keeper = "worker" THEN slot["worker"].want.cleanup ELSE row.cleanup
  BY <1>1, <1>2, Commits DEF MainOnly
<1>4. Going = slot["worker"].then /\ Going' = wpc' /\ wpc' = Going
      /\ LastTranslation' = LastTranslation
      /\ wpc \notin {"waiting", "done"} /\ Going \in Steps
  BY <1>2, <1>3 DEF Going, LastTranslation, LiveInv, LiveTypes, SlotTypes, TranslationInv
<1>5. LiveTypes'
  <2>1. SlotTypes'
    BY <1>1, <1>3 DEF SlotTypes, OpenTxn, LiveInv, LiveTypes
  <2> QED
    BY <1>2, <1>3, <1>4, <2>1 DEF MainOnly, Beside, inputVars, LiveInv, LiveTypes, LiveTypeOK, WorkerTypeOK, InputTypeOK
<1>6. FailureInv'
  BY <1>1, <1>2, <1>3, <1>4 DEF MainOnly, Beside, inputVars, LiveInv, FailureInv, OpenTxn
<1>7. TranslationInv'
  BY <1>2, <1>3, <1>4 DEF MainOnly, LiveInv, TranslationInv, Translating
<1>8. ReadInv'
  BY <1>2, <1>3, <1>4 DEF MainOnly, LiveInv, ReadInv
<1>9. CleanupInv'
  <2>1. CASE kind.hls
    <3>1. row'.cleanup = row.cleanup
      BY <1>3, <2>1 DEF Keeper
    <3> QED
      BY <1>2, <1>3, <1>4, <2>1, <3>1
      DEF MainOnly, Beside, inputVars, LiveInv, CleanupInv, OpenTxn, Unseen, Settled
  <2>2. CASE ~kind.hls
    <3>1. row'.cleanup = slot["worker"].want.cleanup
      BY <1>3, <2>2 DEF Keeper
    <3> QED
      BY <1>2, <1>3, <1>4, <2>2, <3>1
      DEF MainOnly, Beside, inputVars, LiveInv, CleanupInv, OpenTxn, Settled
  <2> QED
    BY <2>1, <2>2
<1> QED
  BY <1>3, <1>5, <1>6, <1>7, <1>8, <1>9 DEF LiveInv

\* The Worker dies with its task and its open transaction.
LEMMA WorkerCrashes == ASSUME LiveInv, Beside, WorkerCrash PROVE LiveInv'
<1>1. "worker" \in Threads /\ \A t \in Threads : t \in {"worker", "loop", "thread"}
  BY DEF Threads
<1>2. /\ slot' = [slot EXCEPT !["worker"] = NoTxn] /\ UNCHANGED <<row, kind, track, emitted>>
      /\ died' = TRUE /\ wpc' = "waiting" /\ wterm' = FALSE /\ asr' = "off" /\ pending' = 0
      /\ route' = "none" /\ trterm' = FALSE /\ cause' = "none" /\ abort' = "none" /\ fault' = TRUE
      /\ DOMAIN slot = Threads
  BY DEF WorkerCrash, LiveInv, LiveTypes, SlotTypes
<1>3. /\ DOMAIN slot' = Threads /\ ~OpenTxn("worker")'
      /\ slot'["loop"] = slot["loop"] /\ slot'["thread"] = slot["thread"]
  BY <1>1, <1>2 DEF OpenTxn, NoTxn, Threads
<1>4. Going' = "waiting"
  BY <1>2, <1>3 DEF Going
<1>5. LiveTypes'
  <2>1. SlotTypes'
    BY <1>1, <1>3 DEF SlotTypes, OpenTxn, LiveInv, LiveTypes, Threads
  <2>2. emitted \in Nat /\ 0 \in 0..MaxFinals
    BY WorkerAssumption DEF LiveInv, LiveTypes, LiveTypeOK, WorkerTypeOK
  <2>3. WorkerTypeOK'
    BY <1>2, <2>2 DEF Beside, LiveInv, LiveTypes, LiveTypeOK, WorkerTypeOK, Steps
  <2> QED
    BY <1>2, <2>1, <2>2, <2>3 DEF Beside, inputVars, LiveInv, LiveTypes, LiveTypeOK, InputTypeOK
<1>6. OwnedColumns'
  <2>1. Owned("worker")' /\ Owned("loop")' /\ Owned("thread")'
    BY <1>2, <1>3 DEF LiveInv, OwnedColumns, Owned, OpenTxn, Keeper, Threads
  <2> QED
    BY <1>1, <2>1 DEF OwnedColumns
<1>7. FailureInv'
  BY <1>2, <1>3 DEF FailureInv
<1>8. TranslationInv'
  BY <1>2, <1>3, <1>4 DEF TranslationInv, Translating, Leaving
<1>9. ReadInv'
  BY <1>2, <1>3, <1>4 DEF ReadInv, Late
<1>10. CleanupInv'
  BY <1>2, <1>3, <1>4 DEF Beside, inputVars, LiveInv, CleanupInv, OpenTxn
<1> QED
  BY <1>5, <1>6, <1>7, <1>8, <1>9, <1>10 DEF LiveInv

\* Every step of the caption worker's task.
LEMMA WorkerSteps ==
  ASSUME LiveInv, Beside, WorkerStep \/ WorkerFault \/ ProviderEmits
  PROVE  LiveInv'
BY PlainSteps, OpeningStep, UnlessEndedStep, TranslationBegins, TranslationEnds, DegradingStep, EventSteps,
   ReportStep, CleaningStep, WorkerCommits, WorkerCrashes, Zenon DEF WorkerStep, WorkerFault

-----------------------------------------------------------------------------
(* Steps of the API.                                                       *)

(* What a step of the API leaves to the worker's task.                     *)
Task == <<wpc, wterm, asr, pending, emitted, route, trterm, cause, died>>

Apart == UNCHANGED Task /\ abort' \in {"none", "asked", "answered"} /\ upsets' \in 0..MaxUpsets

\* A write outside the worker is opened.
LEMMA ApiSelects ==
  ASSUME LiveInv, Apart, NEW t \in {"loop", "thread"}, NEW w \in Row, NEW then, Select(t, w, then),
         t = "loop" => then \in LoopSteps, ~OpenTxn(t), UNCHANGED <<row, kind, hpc>>, track' \in BOOLEAN,
         InputTypeOK', w.translation = row.translation,
         t # Keeper => w.cleanup = row.cleanup,
         fault' \in BOOLEAN, fault => fault', w.status = "failed" => fault'
  PROVE  /\ LiveTypes' /\ OwnedColumns' /\ FailureInv' /\ TranslationInv' /\ ReadInv'
         /\ Going' = Going /\ slot'["worker"] = slot["worker"]
         /\ slot'[t] = [open |-> TRUE, seen |-> row, want |-> w, then |-> then]
         /\ \A u \in Threads \ {t} : slot'[u] = slot[u]
<1>1. /\ DOMAIN slot' = Threads /\ t \in Threads /\ t # "worker"
      /\ slot'[t] = [open |-> TRUE, seen |-> row, want |-> w, then |-> then]
      /\ slot'["worker"] = slot["worker"]
      /\ \A u \in Threads \ {t} : slot'[u] = slot[u]
  BY DEF LiveInv, LiveTypes, SlotTypes, Select, Threads
<1>2. "worker" \in Threads /\ "loop" \in Threads /\ row \in Row
  BY DEF Threads, LiveInv, LiveTypes, LiveTypeOK
<1>3. Going' = Going /\ LastTranslation' = LastTranslation /\ Keeper' = Keeper
  BY <1>1 DEF Going, LastTranslation, OpenTxn, Keeper, Apart, Task
<1>4. SlotTypes'
  <2>1. ASSUME NEW u \in Threads, OpenTxn(u)' PROVE slot'[u].seen \in Row /\ slot'[u].want \in Row
    <3>1. CASE u = t
      BY <1>1, <1>2, <3>1
    <3>2. CASE u # t
      BY <1>1, <2>1, <3>2 DEF OpenTxn, LiveInv, LiveTypes, SlotTypes
    <3> QED
      BY <3>1, <3>2
  <2>2. OpenTxn("worker")' => slot'["worker"].then \in Steps
    BY <1>1 DEF OpenTxn, LiveInv, LiveTypes, SlotTypes
  <2>3. OpenTxn("loop")' => slot'["loop"].then \in LoopSteps
    <3>1. CASE t = "loop"
      BY <1>1, <3>1
    <3>2. CASE t # "loop"
      BY <1>1, <1>2, <3>2 DEF OpenTxn, LiveInv, LiveTypes, SlotTypes
    <3> QED
      BY <3>1, <3>2
  <2> QED
    BY <1>1, <2>1, <2>2, <2>3 DEF SlotTypes
<1>5. LiveTypes'
  BY <1>2, <1>4 DEF Apart, Task, LiveInv, LiveTypes, LiveTypeOK, WorkerTypeOK
<1>6. OwnedColumns'
  <2>1. ASSUME NEW u \in Threads PROVE Owned(u)'
    <3>1. CASE u = t
      BY <1>1, <1>3, <3>1 DEF Owned
    <3>2. CASE u # t
      BY <1>1, <1>3, <3>2 DEF LiveInv, OwnedColumns, Owned, OpenTxn
    <3> QED
      BY <3>1, <3>2
  <2> QED
    BY <2>1 DEF OwnedColumns
<1>7. FailureInv'
  <2>1. ASSUME NEW u \in Threads, OpenTxn(u)', slot'[u].want.status = "failed" PROVE fault'
    <3>1. CASE u = t
      BY <1>1, <2>1, <3>1
    <3>2. CASE u # t
      BY <1>1, <2>1, <3>2 DEF OpenTxn, LiveInv, FailureInv
    <3> QED
      BY <3>1, <3>2
  <2>2. /\ row'.status = "failed" => fault'
        /\ Going' = "failing" => cause' = "cancel" \/ fault'
        /\ hpc' \in {"failing", "lost"} => fault'
    BY <1>3 DEF Apart, Task, LiveInv, FailureInv
  <2> QED
    BY <2>1, <2>2 DEF FailureInv
<1>8. TranslationInv' /\ ReadInv'
  BY <1>1, <1>3 DEF Apart, Task, LiveInv, TranslationInv, ReadInv, OpenTxn, Translating
<1> QED
  BY <1>1, <1>3, <1>5, <1>6, <1>7, <1>8

\* A write of the API's loop.
LEMMA LoopSelects ==
  ASSUME LiveInv, Apart, NEW w \in Row, NEW then \in LoopSteps, Select("loop", w, then), ~OpenTxn("loop"),
         UNCHANGED <<row, kind, hpc>>, track' \in {FALSE, track}, InputTypeOK', w.translation = row.translation,
         fault' \in BOOLEAN, fault => fault', w.status = "failed" => fault',
         kind.hls /\ hpc = "gone" => w.cleanup = row.cleanup \/ Settled(w),
         kind.hls /\ ~died /\ then = <<"run", "gone">> => Settled(w) \/ Unseen,
         ~kind.hls => w.cleanup = row.cleanup /\ UNCHANGED stopper /\ then = <<"stop", "none">>
  PROVE  LiveInv'
<1>1. track' \in BOOLEAN /\ ("loop" # Keeper => w.cleanup = row.cleanup)
  BY DEF LiveInv, LiveTypes, LiveTypeOK, Keeper
<1>2. /\ LiveTypes' /\ OwnedColumns' /\ FailureInv' /\ TranslationInv' /\ ReadInv'
      /\ Going' = Going /\ slot'["worker"] = slot["worker"]
      /\ slot'["loop"] = [open |-> TRUE, seen |-> row, want |-> w, then |-> then]
  BY <1>1, ApiSelects
<1>3. Unseen => Unseen'
  BY DEF Unseen, Apart, Task
<1>4. CleanupInv'
  BY <1>2, <1>3 DEF Apart, Task, LiveInv, CleanupInv, OpenTxn, Settled
<1> QED
  BY <1>2, <1>4 DEF LiveInv

\* A write of an endpoint in the thread pool.
LEMMA ThreadSelects ==
  ASSUME LiveInv, Apart, UNCHANGED inputVars, NEW w \in Row, Select("thread", w, "none"), ~OpenTxn("thread"),
         UNCHANGED <<row, kind, track>>, w.translation = row.translation, w.cleanup = row.cleanup,
         fault' \in BOOLEAN, fault => fault', w.status = "failed" => fault'
  PROVE  LiveInv'
<1>1. track' \in BOOLEAN /\ InputTypeOK'
  BY DEF inputVars, InputTypeOK, LiveInv, LiveTypes, LiveTypeOK
<1>2. UNCHANGED hpc
  BY DEF inputVars
<1>3. /\ LiveTypes' /\ OwnedColumns' /\ FailureInv' /\ TranslationInv' /\ ReadInv'
      /\ Going' = Going /\ slot'["worker"] = slot["worker"] /\ slot'["loop"] = slot["loop"]
  BY <1>1, <1>2, ApiSelects DEF Threads
<1>4. CleanupInv'
  BY <1>3 DEF Apart, Task, inputVars, LiveInv, CleanupInv, OpenTxn, Unseen, Settled
<1> QED
  BY <1>3, <1>4 DEF LiveInv

\* A commit of the API's loop or of an endpoint.
LEMMA ApiCommits ==
  ASSUME LiveInv, Apart, UNCHANGED track, LoopCommit \/ (ThreadCommit /\ UNCHANGED inputVars)
  PROVE  LiveInv'
<1>1. "worker" \in Threads /\ "loop" \in Threads /\ "thread" \in Threads
  BY DEF Threads
<1>2. PICK t \in {"loop", "thread"} :
        /\ Update(t) /\ UNCHANGED <<kind, track, fault>>
        /\ t = "loop" => LoopCommit
        /\ t = "thread" => UNCHANGED inputVars
  BY DEF LoopCommit, ThreadCommit
<1>3. t \in Threads /\ t # "worker"
  BY DEF Threads
<1>4. /\ row' \in Row /\ OpenTxn(t) /\ ~OpenTxn(t)'
      /\ \A u \in Threads \ {t} : slot'[u] = slot[u]
      /\ DOMAIN slot' = Threads /\ OwnedColumns'
      /\ row'.status = "failed" => fault
      /\ row'.translation = row.translation
      /\ row'.cleanup = IF t = Keeper THEN slot[t].want.cleanup ELSE row.cleanup
  BY <1>2, <1>3, Commits
<1>5. slot'["worker"] = slot["worker"] /\ Going' = Going /\ LastTranslation' = LastTranslation
  BY <1>1, <1>3, <1>4 DEF Going, LastTranslation, OpenTxn, Apart, Task
<1>6. SlotTypes'
  BY <1>1, <1>4 DEF SlotTypes, OpenTxn, LiveInv, LiveTypes
<1>7. TranslationInv' /\ ReadInv'
  BY <1>2, <1>4, <1>5 DEF Apart, Task, LiveInv, TranslationInv, ReadInv, OpenTxn, Translating
<1>8. CASE t = "thread"
  <2>1. UNCHANGED inputVars /\ row'.cleanup = row.cleanup /\ slot'["loop"] = slot["loop"]
    BY <1>1, <1>2, <1>4, <1>8 DEF Keeper
  <2>2. LiveTypes'
    BY <1>2, <1>4, <1>6, <2>1
    DEF inputVars, Apart, Task, LiveInv, LiveTypes, LiveTypeOK, WorkerTypeOK, InputTypeOK
  <2>3. FailureInv'
    BY <1>2, <1>4, <1>5, <2>1 DEF inputVars, Apart, Task, LiveInv, FailureInv, OpenTxn
  <2>4. CleanupInv'
    BY <1>2, <1>4, <1>5, <2>1 DEF inputVars, Apart, Task, LiveInv, CleanupInv, OpenTxn, Unseen, Settled
  <2> QED
    BY <1>4, <1>7, <2>2, <2>3, <2>4 DEF LiveInv
<1>9. CASE t = "loop"
  <2>1. PICK who \in {"run", "stop"}, step \in {"launched", "connecting", "cleaning", "gone", "none", "locked", "waiting", "after"} :
          /\ slot["loop"].then = <<who, step>>
          /\ who = "run" => step \in {"launched", "connecting", "cleaning", "gone"}
          /\ who = "stop" => step \in {"none", "locked", "waiting", "after"}
    BY <1>4, <1>9 DEF LiveInv, LiveTypes, SlotTypes, LoopSteps
  <2>2. UNCHANGED result /\ (\/ who = "run" /\ hpc' = step /\ UNCHANGED stopper
                             \/ who = "stop" /\ UNCHANGED hpc /\ stopper' = IF step = "none" THEN NoStop
                                                                            ELSE [stopper EXCEPT ![2] = step])
    BY <1>2, <1>9, <2>1 DEF LoopCommit
  <2>3. InputTypeOK'
    BY <2>1, <2>2 DEF LiveInv, LiveTypes, LiveTypeOK, InputTypeOK, NoStop
  <2>4. LiveTypes'
    BY <1>2, <1>4, <1>6, <2>3 DEF Apart, Task, LiveInv, LiveTypes, LiveTypeOK, WorkerTypeOK
  <2>5. FailureInv'
    BY <1>2, <1>4, <1>5, <2>1, <2>2 DEF Apart, Task, LiveInv, FailureInv, OpenTxn
  <2>6. CASE kind.hls
    <3>1. row'.cleanup = slot["loop"].want.cleanup /\ kind' = kind
          /\ slot["loop"].seen.cleanup = row.cleanup
      BY <1>1, <1>2, <1>4, <1>9, <2>6 DEF Keeper, LiveInv, OwnedColumns, Owned
    <3>2. Settled(slot["loop"].want) => Settled(row')
      BY <3>1 DEF Settled
    <3>3. slot["loop"].want.cleanup = slot["loop"].seen.cleanup /\ Settled(row) => Settled(row')
      BY <3>1 DEF Settled
    <3>4. Unseen' = Unseen
      BY <1>2 DEF Unseen, Apart, Task
    <3> QED
      BY <1>2, <1>4, <1>5, <1>7, <1>9, <2>1, <2>2, <2>4, <2>5, <2>6, <3>1, <3>2, <3>3, <3>4
      DEF Apart, Task, LiveInv, CleanupInv
  <2>7. CASE ~kind.hls
    <3>1. row'.cleanup = row.cleanup /\ kind' = kind
      BY <1>2, <1>4, <1>9, <2>7 DEF Keeper
    <3>2. who = "stop" /\ step = "none"
      BY <1>4, <1>9, <2>1, <2>7 DEF LiveInv, CleanupInv
    <3>3. CleanupInv'
      BY <1>2, <1>4, <1>5, <1>9, <2>2, <2>7, <3>1, <3>2
      DEF Apart, Task, LiveInv, CleanupInv, OpenTxn, NoStop, Settled
    <3> QED
      BY <1>4, <1>7, <2>4, <2>5, <3>3 DEF LiveInv
  <2> QED
    BY <2>6, <2>7
<1> QED
  BY <1>8, <1>9

\* The steps of the loop that write nothing.
LEMMA LoopPlain ==
  ASSUME LiveInv, Apart,
         \/ Connect \/ SourceFails \/ SourceEnds \/ StopEnds \/ StopTimeout \/ FinishStop \/ Publish \/ Unpublish
  PROVE  LiveInv'
<1>1. UNCHANGED <<row, slot, kind, result>>
  BY DEF Connect, SourceFails, SourceEnds, StopEnds, StopTimeout, FinishStop, Publish, Unpublish
<1>2. hpc' \in {"connecting", "live", "failing", "cleaning", "cut", "gone", hpc}
      /\ (hpc' = "gone" => hpc = "gone" \/ ~kind.hls) /\ (hpc' = "connecting" => hpc = "connecting")
      /\ (hpc' = "failing" => fault' = TRUE \/ hpc = "failing") /\ (fault' = fault \/ fault' = TRUE)
      /\ (hpc' \in {"off", "lost", "gone"} /\ kind.hls => hpc' = hpc /\ UNCHANGED track)
      /\ (hpc' = "lost" => hpc = "lost") /\ (kind.hls => ~OpenTxn("loop"))
  BY DEF Connect, SourceFails, SourceEnds, StopEnds, StopTimeout, FinishStop, Publish, Unpublish, LoopAt,
         StopAt, Idle, OpenTxn
<1>3. track' \in BOOLEAN /\ (kind.hls => track' = track \/ hpc' = "live")
  BY DEF Connect, SourceFails, SourceEnds, StopEnds, StopTimeout, FinishStop, Publish, Unpublish, LoopAt,
         LiveInv, LiveTypes, LiveTypeOK
<1>4. fault' \in BOOLEAN /\ (fault => fault')
  <2>1. fault \in BOOLEAN
    BY DEF LiveInv, LiveTypes, LiveTypeOK
  <2>2. CASE fault' = fault
    BY <2>1, <2>2, Zenon
  <2>3. CASE fault' = TRUE
    BY <2>3
  <2> QED
    BY <1>2, <2>2, <2>3, Zenon
<1>5. PICK who \in {"none", "stop", "abort", "close"}, step \in {"none", "locked", "waiting", "after"} :
        stopper = <<who, step>>
  BY DEF LiveInv, LiveTypes, LiveTypeOK, InputTypeOK
<1>6. stopper' \in {stopper, <<who, "after">>, NoStop}
  BY <1>5 DEF Connect, SourceFails, SourceEnds, StopEnds, StopTimeout, FinishStop, Publish, Unpublish
<1>7. InputTypeOK'
  BY <1>1, <1>2, <1>5, <1>6 DEF LiveInv, LiveTypes, LiveTypeOK, InputTypeOK, NoStop
<1>8. Going' = Going /\ LastTranslation' = LastTranslation
  BY <1>1 DEF Going, LastTranslation, OpenTxn, Apart, Task
<1>9. LiveTypes'
  BY <1>1, <1>3, <1>4, <1>7 DEF Apart, Task, LiveInv, LiveTypes, LiveTypeOK, SlotTypes, OpenTxn, WorkerTypeOK
<1>10. OwnedColumns' /\ TranslationInv' /\ ReadInv'
  BY <1>1, <1>8 DEF Apart, Task, LiveInv, OwnedColumns, Owned, OpenTxn, Keeper, TranslationInv, ReadInv, Translating
<1>11. FailureInv'
  BY <1>1, <1>2, <1>4, <1>8 DEF Apart, Task, LiveInv, FailureInv, OpenTxn
<1>12. CASE kind.hls
  <2>1. CleanupInv'
    BY <1>1, <1>2, <1>3, <1>8, <1>12 DEF Apart, Task, LiveInv, CleanupInv, OpenTxn, Unseen, Settled
  <2> QED
    BY <1>9, <1>10, <1>11, <2>1 DEF LiveInv
<1>13. CASE ~kind.hls
  <2>1. hpc' \in {"off", "live", "gone"}
    BY <1>13 DEF Connect, SourceFails, SourceEnds, StopEnds, StopTimeout, FinishStop, Publish, Unpublish, LoopAt,
         StopAt, LiveInv, CleanupInv
  <2>2. stopper'[1] \in {"none", "close"} /\ stopper'[2] # "waiting"
    BY <1>5, <1>6, <1>13 DEF LiveInv, CleanupInv, NoStop
  <2>3. CleanupInv'
    BY <1>1, <1>8, <1>13, <2>1, <2>2 DEF Apart, Task, LiveInv, CleanupInv, OpenTxn, Settled
  <2> QED
    BY <1>9, <1>10, <1>11, <2>3 DEF LiveInv
<1> QED
  BY <1>12, <1>13

\* A step of the loop that only moves the source's task or a stop.
LEMMA LoopGoes ==
  ASSUME LiveInv, Apart, UNCHANGED <<row, slot, kind, track, fault>>, InputTypeOK',
         \/ hpc' = hpc
         \/ kind.hls /\ hpc' = "cleaning"
         \/ kind.hls /\ hpc' = "gone" /\ died,
         \/ kind.hls
         \/ stopper'[1] \in {"none", "close"} /\ stopper'[2] # "waiting"
  PROVE  LiveInv'
<1>1. Going' = Going /\ LastTranslation' = LastTranslation
  BY DEF Going, LastTranslation, OpenTxn, Apart, Task
<1>2. LiveTypes'
  BY DEF Apart, Task, LiveInv, LiveTypes, LiveTypeOK, SlotTypes, OpenTxn, WorkerTypeOK
<1>3. OwnedColumns' /\ TranslationInv' /\ ReadInv'
  BY <1>1 DEF Apart, Task, LiveInv, OwnedColumns, Owned, OpenTxn, Keeper, TranslationInv, ReadInv, Translating
<1>4. FailureInv'
  BY <1>1 DEF Apart, Task, LiveInv, FailureInv, OpenTxn
<1>5. CleanupInv'
  BY <1>1 DEF Apart, Task, LiveInv, CleanupInv, OpenTxn, Unseen, Settled
<1> QED
  BY <1>2, <1>3, <1>4, <1>5 DEF LiveInv

\* What the steps below read of the state.
LEMMA LoopFacts ==
  ASSUME LiveInv
  PROVE  /\ row \in Row /\ fault \in BOOLEAN /\ track \in BOOLEAN /\ InputTypeOK
         /\ row.status = "failed" => fault
         /\ hpc \in {"failing", "lost"} => fault
         /\ hpc = "off" /\ kind.hls /\ ~died => Unseen
         /\ stopper = <<stopper[1], stopper[2]>>
BY DEF LiveInv, LiveTypes, LiveTypeOK, FailureInv, CleanupInv, InputTypeOK

\* The source's task writes the row: start, the report of a failure, the cleanup.
LEMMA SourceWrites ==
  ASSUME LiveInv, Apart,
         \/ StartInput \/ StartFails \/ MarkRunning \/ ReportFailure \/ CleanSource \/ CleanupFails
         \/ CutCleanup \/ Reconcile
  PROVE  LiveInv'
<1> USE DEF Idle, LoopAt
<1>1. ~OpenTxn("loop") /\ kind.hls /\ UNCHANGED <<row, kind, stopper>>
      /\ row \in Row /\ fault \in BOOLEAN /\ (row.status = "failed" => fault)
  BY LoopFacts DEF OpenTxn, StartInput, StartFails, MarkRunning, ReportFailure, CleanSource, CleanupFails,
                   CutCleanup, Reconcile
<1>2. result' \in {"none", "completed", "failed"} /\ track' \in {FALSE, track}
      /\ stopper \in {"none", "stop", "abort", "close"} \X {"none", "locked", "waiting", "after"}
  BY LoopFacts DEF StartInput, StartFails, MarkRunning, ReportFailure, CleanSource, CleanupFails,
                   CutCleanup, Reconcile, InputTypeOK
<1>3. \A pc \in {"launched", "connecting", "cleaning", "gone"} : <<"run", pc>> \in LoopSteps
  BY DEF LoopSteps
<1>4. hpc' = hpc => InputTypeOK'
  BY <1>1, <1>2, LoopFacts DEF InputTypeOK
<1>5. ASSUME NEW w \in Row, NEW pc \in {"launched", "connecting", "cleaning", "gone"}, RunWrites(w, pc),
             w.translation = row.translation, fault' = fault \/ fault' = TRUE, w.status = "failed" => fault',
             hpc = "gone" => FALSE, ~died /\ pc = "gone" => Settled(w) \/ Unseen
      PROVE  LiveInv'
  <2>1. PICK then \in LoopSteps : then = <<"run", pc>>
    BY <1>3, <1>5
  <2>2. Select("loop", w, then) /\ hpc' = hpc /\ (then = <<"run", "gone">> => pc = "gone")
    BY <1>5, <2>1 DEF RunWrites
  <2>3. fault' \in BOOLEAN /\ (fault => fault')
    <3>1. CASE fault' = fault
      BY <1>1, <3>1, Zenon
    <3>2. CASE fault' = TRUE
      BY <3>2
    <3> QED
      BY <1>5, <3>1, <3>2, Zenon
  <2> QED
    BY <1>1, <1>2, <1>4, <1>5, <2>1, <2>2, <2>3, LoopSelects
<1>6. CASE StartInput
  <2>1. PICK w \in Row : w = MarkSourceStarting(row) /\ w.translation = row.translation /\ w.status = row.status
    BY <1>1, SourceOps DEF SameRun
  <2>2. RunWrites(w, "launched") /\ fault' = fault /\ hpc = "off"
    BY <1>6, <2>1 DEF StartInput
  <2> QED
    BY <1>1, <1>5, <2>1, <2>2
<1>7. CASE StartFails
  <2>1. PICK w \in Row : w = Fail(row) /\ w.translation = row.translation
    BY <1>1, StatusOps DEF SameColumns
  <2>2. RunWrites(w, "gone") /\ fault' = TRUE /\ hpc = "off"
    BY <1>7, <2>1 DEF StartFails
  <2>3. ~died => Unseen
    BY <1>1, <2>2, LoopFacts
  <2> QED
    BY <1>5, <2>1, <2>2, <2>3
<1>8. CASE MarkRunning
  <2>1. PICK w \in Row : w = MarkSourceRunning(row) /\ w.translation = row.translation /\ w.status = row.status
    BY <1>1, SourceOps DEF SameRun
  <2>2. RunWrites(w, "connecting") /\ fault' = fault /\ hpc = "launched"
    BY <1>8, <2>1 DEF MarkRunning
  <2> QED
    BY <1>1, <1>5, <2>1, <2>2
<1>9. CASE ReportFailure
  <2>1. PICK w \in Row : w = Fail(row) /\ w.translation = row.translation
    BY <1>1, StatusOps DEF SameColumns
  <2>2. hpc = "failing" /\ UNCHANGED <<row, kind, track, fault, stopper, result>> /\ fault
    BY <1>9, LoopFacts DEF ReportFailure
  <2>3. \/ hpc' = "cleaning" /\ UNCHANGED slot
        \/ RunWrites(w, "cleaning")
    BY <1>9, <2>1, Zenon DEF ReportFailure
  <2>4. CASE hpc' = "cleaning" /\ UNCHANGED slot
    <3>1. InputTypeOK'
      BY <1>2, <2>2, <2>4 DEF InputTypeOK
    <3> QED
      BY <1>1, <2>2, <2>4, <3>1, LoopGoes
  <2>5. CASE RunWrites(w, "cleaning")
    BY <1>5, <2>1, <2>2, <2>5
  <2> QED
    BY <2>3, <2>4, <2>5
<1>10. CASE CleanSource \/ CutCleanup
  <2>1. PICK w \in Row : w = MarkSourceStopped(row) /\ w.translation = row.translation
                         /\ w.status = row.status /\ Settled(w)
    BY <1>1, SourceOps DEF SameRun
  <2>2. RunWrites(w, "gone") /\ fault' = fault /\ hpc \in {"cleaning", "cut"}
    BY <1>10, <2>1 DEF CleanSource, CutCleanup
  <2> QED
    BY <1>1, <1>5, <2>1, <2>2
<1>11. CASE CleanupFails
  <2>1. PICK w \in Row : w = MarkSourceCleanupFailed(row) /\ w.translation = row.translation
                         /\ w.status = row.status /\ Settled(w)
    BY <1>1, SourceOps DEF SameRun
  <2>2. RunWrites(w, "gone") /\ fault' = fault /\ hpc = "cleaning"
    BY <1>11, <2>1 DEF CleanupFails
  <2> QED
    BY <1>1, <1>5, <2>1, <2>2
<1>12. CASE Reconcile
  <2>1. PICK v \in Row : v = Fail(row) /\ v.translation = row.translation
    BY <1>1, StatusOps DEF SameColumns
  <2>2. PICK w \in Row : w = MarkSourceLost(v) /\ w.translation = row.translation /\ Settled(w)
    BY <2>1, SourceOps DEF SameRun
  <2>3. hpc = "lost" /\ UNCHANGED <<row, kind, track, fault, stopper, result>> /\ fault /\ died
    BY <1>12, LoopFacts DEF Reconcile, LiveInv, CleanupInv
  <2>4. \/ hpc' = "gone" /\ UNCHANGED slot
        \/ RunWrites(w, "gone")
    BY <1>12, <2>1, <2>2, Zenon DEF Reconcile
  <2>5. CASE hpc' = "gone" /\ UNCHANGED slot
    <3>1. InputTypeOK'
      BY <1>2, <2>3, <2>5 DEF InputTypeOK
    <3> QED
      BY <1>1, <2>3, <2>5, <3>1, LoopGoes
  <2>6. CASE RunWrites(w, "gone")
    BY <1>5, <2>2, <2>3, <2>6
  <2> QED
    BY <2>4, <2>5, <2>6
<1> QED
  BY <1>6, <1>7, <1>8, <1>9, <1>10, <1>11, <1>12

\* A stop of the session: by the user, by the Worker's abort, by closing the room.
LEMMA StopSteps ==
  ASSUME LiveInv, Apart,
         \/ \E who \in {"stop", "abort", "close"} : AskStop(who)
         \/ EnterStop \/ CloseFails \/ FinishAbort \/ FinishClose
  PROVE  LiveInv'
<1> USE DEF Idle, StopAt
<1>1. ~OpenTxn("loop") /\ UNCHANGED <<row, kind, fault, hpc>> /\ row \in Row /\ fault \in BOOLEAN
      /\ (row.status = "failed" => fault) /\ fault' \in BOOLEAN /\ (fault => fault') /\ track' \in {FALSE, track}
  <2>1. ~OpenTxn("loop") /\ UNCHANGED <<row, kind, fault, hpc>> /\ track' \in {FALSE, track}
    BY DEF OpenTxn, AskStop, EnterStop, CloseFails, FinishAbort, FinishClose, inputVars
  <2>2. row \in Row /\ fault \in BOOLEAN /\ (row.status = "failed" => fault)
    BY LoopFacts
  <2>3. fault' = fault
    BY <2>1
  <2>4. fault' \in BOOLEAN /\ (fault => fault')
    BY <2>2, <2>3, Zenon
  <2> QED
    BY <2>1, <2>2, <2>4, Zenon
<1>2. PICK who \in {"none", "stop", "abort", "close"}, step \in {"none", "locked", "waiting", "after"} :
        stopper = <<who, step>>
  BY LoopFacts DEF InputTypeOK
<1>3. \A s \in {"none", "locked", "waiting", "after"} : <<"stop", s>> \in LoopSteps
  BY DEF LoopSteps
<1>4. hpc \in {"off", "launched", "connecting", "live", "failing", "cleaning", "cut", "gone", "lost"}
      /\ result \in {"none", "completed", "failed"}
  BY LoopFacts DEF InputTypeOK
<1>5. ASSUME NEW w \in Row, NEW s \in {"none", "locked", "waiting", "after"}, Select("loop", w, <<"stop", s>>),
             InputTypeOK', w.translation = row.translation, w.status = "failed" => fault,
             hpc = "gone" /\ kind.hls => w.cleanup = row.cleanup \/ Settled(w),
             ~kind.hls => w.cleanup = row.cleanup /\ UNCHANGED stopper /\ s = "none"
      PROVE  LiveInv'
  <2>1. PICK then \in LoopSteps : then = <<"stop", s>>
    BY <1>3
  <2>2. Select("loop", w, then) /\ then # <<"run", "gone">> /\ (s = "none" => then = <<"stop", "none">>)
    BY <1>5, <2>1
  <2> QED
    BY <1>1, <1>5, <2>2, LoopSelects
<1>6. ASSUME NEW by \in {"stop", "abort", "close"}, AskStop(by)
      PROVE  LiveInv'
  <2>1. UNCHANGED <<row, kind, track, fault, hpc, result>> /\ stopper' = <<by, "locked">>
        /\ (kind.hls \/ by = "close")
    BY <1>6 DEF AskStop
  <2>2. InputTypeOK'
    BY <1>4, <2>1 DEF InputTypeOK
  <2>3. PICK w \in Row : /\ w = [row EXCEPT !.stop = "user_requested"] /\ w.translation = row.translation
                         /\ w.status = row.status /\ w.cleanup = row.cleanup
    <3>1. [row EXCEPT !.stop = "user_requested"] \in Row
      BY <1>1 DEF Row, StopReason
    <3> QED
      BY <1>1, <3>1 DEF Row
  <2>4. \/ by = "stop" /\ Select("loop", w, <<"stop", "locked">>)
        \/ UNCHANGED slot
    BY <1>6, <2>3, Zenon DEF AskStop
  <2>5. CASE by = "stop" /\ Select("loop", w, <<"stop", "locked">>)
    BY <1>1, <1>5, <2>1, <2>2, <2>3, <2>5
  <2>6. CASE UNCHANGED slot
    BY <2>1, <2>2, <2>6, LoopGoes
  <2> QED
    BY <2>4, <2>5, <2>6
<1>7. CASE EnterStop
  <2>1. UNCHANGED <<row, kind, track, fault, hpc, result>> /\ step = "locked"
    BY <1>2, <1>7 DEF EnterStop
  <2>2. PICK w \in Row : w = MarkSourceStopping(row) /\ w.translation = row.translation /\ w.status = row.status
    BY <1>1, SourceOps DEF SameRun
  <2>3. \/ Registered /\ Select("loop", w, <<"stop", "waiting">>) /\ UNCHANGED stopper
        \/ stopper' = [stopper EXCEPT ![2] = "after"] /\ UNCHANGED slot
    BY <1>7, <2>2, Zenon DEF EnterStop, StopWrites
  <2>4. CASE Registered /\ Select("loop", w, <<"stop", "waiting">>) /\ UNCHANGED stopper
    <3>1. InputTypeOK' /\ kind.hls /\ hpc # "gone"
      BY <1>2, <1>4, <2>1, <2>4 DEF InputTypeOK, Registered
    <3> QED
      BY <1>1, <1>5, <2>1, <2>2, <2>4, <3>1
  <2>5. CASE stopper' = [stopper EXCEPT ![2] = "after"] /\ UNCHANGED slot
    <3>1. stopper' = <<who, "after">>
      BY <1>2, <2>5
    <3>2. InputTypeOK' /\ (kind.hls \/ who \in {"none", "close"})
      BY <1>2, <1>4, <2>1, <3>1 DEF InputTypeOK, LiveInv, CleanupInv
    <3> QED
      BY <2>1, <2>5, <3>1, <3>2, LoopGoes
  <2> QED
    BY <2>3, <2>4, <2>5
<1>8. CASE CloseFails
  <2>1. UNCHANGED <<row, kind, track, fault, hpc, stopper>> /\ step = "waiting" /\ result' = "failed"
    BY <1>2, <1>8 DEF CloseFails, StopWrites
  <2>2. PICK w \in Row : w = MarkSourceCleanupFailed(row) /\ w.translation = row.translation
                         /\ w.status = row.status /\ Settled(w)
    BY <1>1, SourceOps DEF SameRun
  <2>3. Select("loop", w, <<"stop", "after">>)
    BY <1>8, <2>2 DEF CloseFails, StopWrites
  <2>4. InputTypeOK' /\ kind.hls
    BY <1>2, <1>4, <2>1 DEF InputTypeOK, LiveInv, CleanupInv
  <2> QED
    BY <1>1, <1>5, <2>1, <2>2, <2>3, <2>4
<1>9. CASE FinishAbort
  <2>1. UNCHANGED <<row, kind, track, fault, hpc, stopper, result>> /\ who = "abort"
    BY <1>2, <1>9 DEF FinishAbort, inputVars
  <2>2. PICK w \in Row : w = Aborted(row) /\ w.translation = row.translation /\ w.status = row.status
                         /\ (w = row \/ Settled(w))
    BY <1>1, SourceOps DEF SameRun
  <2>3. Select("loop", w, <<"stop", "none">>)
    BY <1>9, <2>2 DEF FinishAbort
  <2>4. InputTypeOK' /\ kind.hls
    BY <1>2, <1>4, <2>1 DEF InputTypeOK, LiveInv, CleanupInv
  <2> QED
    BY <1>1, <1>5, <2>1, <2>2, <2>3, <2>4
<1>10. CASE FinishClose
  <2>1. UNCHANGED <<row, kind, fault, hpc, stopper, result>>
    BY <1>10 DEF FinishClose, inputVars
  <2>2. PICK w \in Row : /\ w = IF row.status \in Terminal THEN row ELSE Cancel(row, "room_closed")
                         /\ w.translation = row.translation /\ w.cleanup = row.cleanup
                         /\ w.status = "failed" => row.status = "failed"
    BY <1>1, StatusOps DEF SameColumns, StopReason
  <2>3. Select("loop", w, <<"stop", "none">>)
    BY <1>10, <2>2, Zenon DEF FinishClose
  <2>4. InputTypeOK'
    BY <1>2, <1>4, <2>1 DEF InputTypeOK
  <2> QED
    BY <1>1, <1>5, <2>1, <2>2, <2>3, <2>4
<1> QED
  BY <1>6, <1>7, <1>8, <1>9, <1>10

\* cancel_caption_run and report_replay_terminal_status.
LEMMA EndpointSteps ==
  ASSUME LiveInv, Apart, UNCHANGED inputVars, CancelRun \/ ReplayFailed
  PROVE  LiveInv'
<1>1. row \in Row /\ fault \in BOOLEAN /\ (row.status = "failed" => fault) /\ ~OpenTxn("thread")
      /\ UNCHANGED <<row, kind, track>>
  BY LoopFacts DEF CancelRun, ReplayFailed, Idle, OpenTxn
<1>2. CASE CancelRun
  <2>1. PICK w \in Row : w = Cancel(row, "user_requested") /\ w.translation = row.translation
                         /\ w.cleanup = row.cleanup /\ w.status = "cancelled"
    BY <1>1, StatusOps DEF SameColumns, StopReason
  <2>2. Select("thread", w, "none") /\ fault' = fault
    BY <1>2, <2>1 DEF CancelRun
  <2> QED
    BY <1>1, <2>1, <2>2, ThreadSelects
<1>3. CASE ReplayFailed
  <2>1. PICK w \in Row : w = Fail(row) /\ w.translation = row.translation /\ w.cleanup = row.cleanup
    BY <1>1, StatusOps DEF SameColumns
  <2>2. Select("thread", w, "none") /\ fault' = TRUE
    BY <1>3, <2>1 DEF ReplayFailed
  <2> QED
    BY <1>1, <2>1, <2>2, ThreadSelects
<1> QED
  BY <1>2, <1>3

\* The API process dies.
LEMMA ApiCrashes == ASSUME LiveInv, ApiCrash, upsets' \in 0..MaxUpsets PROVE LiveInv'
<1>1. UNCHANGED <<wpc, wterm, asr, pending, emitted, route, trterm, cause, abort, row, kind>> /\ died' = TRUE
      /\ stopper' = NoStop /\ result' = "none"
      /\ slot' = [slot EXCEPT !["loop"] = NoTxn, !["thread"] = NoTxn]
      /\ DOMAIN slot = Threads
  BY DEF ApiCrash, ApiDies, LiveInv, LiveTypes, SlotTypes
<1>2. /\ DOMAIN slot' = Threads /\ ~OpenTxn("loop")' /\ ~OpenTxn("thread")'
      /\ slot'["worker"] = slot["worker"] /\ \A t \in Threads : t \in {"worker", "loop", "thread"}
      /\ "worker" \in Threads
  BY <1>1 DEF OpenTxn, NoTxn, Threads
<1>3. \/ kind.hls /\ hpc' = "lost" /\ track' = FALSE /\ fault' = TRUE
      \/ UNCHANGED <<hpc, track, fault>>
  BY Zenon DEF ApiCrash, ApiDies
<1>4. fault' \in BOOLEAN /\ track' \in BOOLEAN /\ (fault => fault')
  <2>1. CASE UNCHANGED <<hpc, track, fault>>
    BY <2>1, LoopFacts, Zenon
  <2>2. CASE track' = FALSE /\ fault' = TRUE
    BY <2>2
  <2> QED
    BY <1>3, <2>1, <2>2
<1>5. Going' = Going /\ LastTranslation' = LastTranslation /\ Keeper' = Keeper
  BY <1>1, <1>2 DEF Going, LastTranslation, OpenTxn, Keeper
<1>6. LiveTypes'
  <2>1. SlotTypes'
    BY <1>2 DEF SlotTypes, OpenTxn, LiveInv, LiveTypes
  <2>2. InputTypeOK'
    BY <1>1, <1>3, LoopFacts DEF InputTypeOK, NoStop
  <2> QED
    BY <1>1, <1>4, <2>1, <2>2 DEF LiveInv, LiveTypes, LiveTypeOK, WorkerTypeOK
<1>7. OwnedColumns'
  <2>1. Owned("worker")
    BY <1>2 DEF LiveInv, OwnedColumns
  <2>2. Owned("worker")'
    BY <1>1, <1>2, <1>5, <2>1 DEF Owned, OpenTxn
  <2>3. Owned("loop")' /\ Owned("thread")'
    BY <1>2 DEF Owned
  <2> QED
    BY <1>2, <2>2, <2>3 DEF OwnedColumns
<1>8. FailureInv'
  BY <1>1, <1>2, <1>3, <1>4, <1>5 DEF LiveInv, FailureInv, OpenTxn
<1>9. TranslationInv' /\ ReadInv'
  BY <1>1, <1>2, <1>5 DEF LiveInv, TranslationInv, ReadInv, OpenTxn, Translating
<1>10. CleanupInv'
  BY <1>1, <1>2, <1>3, <1>5 DEF LiveInv, CleanupInv, OpenTxn, NoStop
<1> QED
  BY <1>6, <1>7, <1>8, <1>9, <1>10 DEF LiveInv

\* Every step of the API that is no crash.
LEMMA ApiSteps ==
  ASSUME LiveInv, Apart,
         \/ InputStep \/ InputFault \/ AskStop("abort")
         \/ (ThreadCommit \/ CancelRun \/ ReplayFailed) /\ UNCHANGED inputVars
  PROVE  LiveInv'
<1>1. CASE InputStep \/ InputFault \/ AskStop("abort")
  <2>1. \/ Connect \/ SourceFails \/ SourceEnds \/ StopEnds \/ StopTimeout \/ FinishStop \/ Publish \/ Unpublish
        \/ StartInput \/ StartFails \/ MarkRunning \/ ReportFailure \/ CleanSource \/ CleanupFails
        \/ CutCleanup \/ Reconcile
        \/ \E who \in {"stop", "abort", "close"} : AskStop(who)
        \/ EnterStop \/ CloseFails \/ FinishAbort \/ FinishClose \/ LoopCommit
    BY <1>1 DEF InputStep, InputFault
  <2>2. CASE LoopCommit
    BY <2>2, ApiCommits DEF LoopCommit
  <2> QED
    BY <2>1, <2>2, LoopPlain, SourceWrites, StopSteps, Zenon
<1>2. CASE (ThreadCommit \/ CancelRun \/ ReplayFailed) /\ UNCHANGED inputVars
  <2>1. CASE ThreadCommit
    BY <1>2, <2>1, ApiCommits DEF ThreadCommit
  <2>2. CASE CancelRun \/ ReplayFailed
    BY <1>2, <2>2, EndpointSteps
  <2> QED
    BY <1>2, <2>1, <2>2
<1> QED
  BY <1>1, <1>2

-----------------------------------------------------------------------------

\* A new session.
LEMMA LiveStarts == LiveInit => LiveInv
<1> SUFFICES ASSUME LiveInit PROVE LiveInv
  OBVIOUS
<1>1. /\ kind \in Kinds /\ row = Created(kind.translated) /\ slot = [t \in Threads |-> NoTxn]
      /\ track = FALSE /\ fault = FALSE /\ hpc = "off" /\ stopper = NoStop /\ result = "none"
      /\ wpc = "waiting" /\ wterm = FALSE /\ asr = "off" /\ pending = 0 /\ emitted = 0
      /\ route = "none" /\ trterm = FALSE /\ cause = "none" /\ abort = "none"
      /\ upsets = 0 /\ died = FALSE
  BY DEF LiveInit, StoreInit, WorkerInit, InputInit
<1>2. /\ \A t \in Threads : ~OpenTxn(t)
      /\ "worker" \in Threads /\ "loop" \in Threads
  BY <1>1 DEF OpenTxn, NoTxn, Threads
<1>3. row \in Row /\ row.status = "created" /\ row.translation \in {"starting", "disabled"}
  BY <1>1 DEF Created, Row, SessionStatus, Normal, Terminal, StopReason, TranslationStatus, SourceStatus, CleanupStatus
<1>4. Going = "waiting" /\ LastTranslation = row.translation
  BY <1>1, <1>2 DEF Going, LastTranslation
<1>5. LiveTypes
  <2>1. SlotTypes
    BY <1>1, <1>2 DEF SlotTypes
  <2>2. WorkerTypeOK
    <3>1. 0 \in 0..MaxFinals /\ 0 \in 0..MaxUpsets
      BY WorkerAssumption
    <3>2. wterm \in BOOLEAN /\ trterm \in BOOLEAN /\ died \in BOOLEAN
      BY <1>1, Zenon
    <3> QED
      BY <1>1, <3>1, <3>2 DEF WorkerTypeOK, Steps
  <2>3. InputTypeOK
    BY <1>1 DEF InputTypeOK, NoStop
  <2>4. track \in BOOLEAN /\ fault \in BOOLEAN
    BY <1>1, Zenon
  <2>5. pending <= emitted
    BY <1>1
  <2> QED
    BY <1>1, <1>3, <2>1, <2>2, <2>3, <2>4, <2>5 DEF LiveTypes, LiveTypeOK
<1>6. OwnedColumns /\ FailureInv
  BY <1>1, <1>2, <1>3, <1>4 DEF OwnedColumns, Owned, FailureInv
<1>7. TranslationInv /\ ReadInv
  BY <1>1, <1>2, <1>3, <1>4 DEF TranslationInv, ReadInv, Translating, Early, Leaving, Late
<1>8. CleanupInv
  BY <1>1, <1>2, <1>4 DEF CleanupInv, Unseen, NoStop
<1> QED
  BY <1>5, <1>6, <1>7, <1>8 DEF LiveInv

\* Every step, of whichever writer, keeps the invariant.
LEMMA LiveKeeps == ASSUME LiveInv, [LiveNext]_liveVars PROVE LiveInv'
<1>1. upsets \in 0..MaxUpsets /\ abort \in {"none", "asked", "answered"}
  BY DEF LiveInv, LiveTypes, LiveTypeOK, WorkerTypeOK
<1>2. Upset => upsets' \in 0..MaxUpsets
  BY <1>1, WorkerAssumption DEF Upset
<1>3. CASE WorkerMoves
  BY <1>1, <1>3, WorkerSteps DEF WorkerMoves, Beside
<1>4. CASE InputMoves
  <2>1. Apart
    BY <1>1, <1>4 DEF InputMoves, workerPrivate, Apart, Task
  <2> QED
    BY <1>4, <2>1, ApiSteps DEF InputMoves
<1>5. CASE AbortMoves
  <2>1. Apart /\ AskStop("abort")
    BY <1>1, <1>5 DEF AbortMoves, AbortArrives, Apart, Task
  <2> QED
    BY <2>1, ApiSteps
<1>6. CASE ThreadMoves
  <2>1. Apart /\ ThreadCommit /\ UNCHANGED inputVars
    BY <1>1, <1>6 DEF ThreadMoves, ThreadCommit, workerPrivate, Apart, Task
  <2> QED
    BY <2>1, ApiSteps
<1>7. CASE ProviderEmits /\ UNCHANGED <<inputVars, upsets>>
  BY <1>1, <1>7, WorkerSteps DEF Beside
<1>8. CASE WorkerFault /\ Upset /\ UNCHANGED inputVars
  BY <1>2, <1>8, WorkerSteps DEF Beside
<1>9. CASE InputFault /\ Upset /\ UNCHANGED workerPrivate
  <2>1. Apart
    BY <1>1, <1>2, <1>9 DEF workerPrivate, Apart, Task
  <2> QED
    BY <1>9, <2>1, ApiSteps
<1>10. CASE (CancelRun \/ ReplayFailed) /\ Upset
  <2>1. Apart /\ UNCHANGED inputVars
    BY <1>1, <1>2, <1>10 DEF CancelRun, ReplayFailed, workerPrivate, Apart, Task
  <2> QED
    BY <1>10, <2>1, ApiSteps
<1>11. CASE ApiCrash /\ Upset
  BY <1>2, <1>11, ApiCrashes
<1>12. CASE UNCHANGED liveVars
  <2>1. /\ Going' = Going /\ LastTranslation' = LastTranslation
        /\ UNCHANGED <<row, slot, kind, track, fault>> /\ UNCHANGED workerVars /\ UNCHANGED inputVars
    BY <1>12 DEF liveVars, Going, LastTranslation, OpenTxn, workerVars
  <2>2. LiveTypes' /\ OwnedColumns'
    BY <2>1 DEF workerVars, inputVars, LiveInv, LiveTypes, LiveTypeOK, SlotTypes, WorkerTypeOK, InputTypeOK,
                OpenTxn, OwnedColumns, Owned, Keeper
  <2>3. FailureInv' /\ TranslationInv' /\ ReadInv' /\ CleanupInv'
    BY <2>1 DEF workerVars, inputVars, LiveInv, FailureInv, TranslationInv, ReadInv, CleanupInv, OpenTxn,
                Translating, Unseen, Settled
  <2> QED
    BY <2>2, <2>3 DEF LiveInv
<1> QED
  BY <1>3, <1>4, <1>5, <1>6, <1>7, <1>8, <1>9, <1>10, <1>11, <1>12 DEF LiveNext, LiveMoves

\* The invariant says what the session promises.
LEMMA LiveInvIsSafe == LiveInv => LiveSafe
<1> SUFFICES ASSUME LiveInv PROVE LiveSafe
  OBVIOUS
<1>1. LiveTypeOK /\ TranslationFailsAlone /\ NothingLeftUnread
  BY DEF LiveInv, LiveTypes, FailureInv, ReadInv, TranslationFailsAlone, NothingLeftUnread, Late
<1>2. TranslationSettled
  <2>1. wpc = "done" => Going = "done" /\ LastTranslation = row.translation
    BY DEF LiveInv, TranslationInv, Going, LastTranslation
  <2> QED
    BY <2>1 DEF LiveInv, TranslationInv, TranslationSettled
<1>3. SourceSettled
  <2>1. wpc = "done" => Going = "done" /\ ~OpenTxn("worker")
    BY DEF LiveInv, TranslationInv, Going
  <2> QED
    BY <2>1 DEF LiveInv, CleanupInv, SourceSettled, Settled, Unseen
<1> QED
  BY <1>1, <1>2, <1>3 DEF LiveSafe

\* Through every fault, stop, cancellation and crash, and whichever of the three
\* writers commits first: a translation fails alone and is settled, no result is left
\* unread by a session that completes, a source that has gone has an account of it.
THEOREM LiveSafeHolds == LiveSpec => []LiveSafe
<1>1. LiveInit => LiveInv
  BY LiveStarts
<1>2. LiveInv /\ [LiveNext]_liveVars => LiveInv'
  BY LiveKeeps
<1>3. LiveInv => LiveSafe
  BY LiveInvIsSafe
<1> QED
  BY <1>1, <1>2, <1>3, PTL DEF LiveSpec

-----------------------------------------------------------------------------
(* The projection.                                                         *)

Item == [source : Sources, logical : Logical \cup {"terminal"}, revision : Nat]

MediaTypes ==
  /\ captions \in [Logical -> Nat] /\ offsets \in [Sources -> Nat]
  /\ ended \in MediaEnds \cup {"none"}
  /\ mediaEvents \in Seq(Item) /\ batch \in Seq(Item)
  /\ phase \in {"idle", "loop", "read", "persisted"}

(* What an item or an event can stand for.                                 *)
Stands(e) ==
  /\ e.revision > 0
  /\ IF e.logical = "terminal" THEN e.source \in MediaEnds /\ e.revision = 1
                               ELSE e.source = e.logical /\ e.revision <= captions[e.logical]

\* The loop of _persist_event_batch.
LEMMA PersistedIs ==
  ASSUME MediaTypes
  PROVE  /\ Persisted[0] = mediaEvents
         /\ \A n \in 1..Len(batch) : Persisted[n] = AppendEvent(Persisted[n - 1], batch[n])
<1>1. Len(batch) \in Nat /\ (\A n \in 1..Len(batch) : batch[n] \in Item) /\ mediaEvents \in Seq(Item)
  BY DEF MediaTypes
<1>2. PICK turn : turn = [p \in (1..Len(batch)) \X Seq(Item) |-> AppendEvent(p[2], batch[p[1]])]
  OBVIOUS
<1>3. \A n \in 1..Len(batch), x \in Seq(Item) : turn[<<n, x>>] = AppendEvent(x, batch[n])
  BY <1>2
<1>4. \A n \in 1..Len(batch), x \in Seq(Item) : AppendEvent(x, batch[n]) \in Seq(Item)
  BY <1>1 DEF AppendEvent
<1>5. PICK f \in [0..Len(batch) -> Seq(Item)] : RunOf(f, Len(batch), mediaEvents, turn)
  <2>1. TurnsOver(turn, Len(batch), Seq(Item))
    BY <1>3, <1>4 DEF TurnsOver
  <2> QED
    BY <1>1, <2>1, LoopRuns
<1>6. \A n \in 0..Len(batch) : f[n] = IF n = 0 THEN mediaEvents ELSE AppendEvent(f[n - 1], batch[n])
  <2>1. ASSUME NEW n \in 1..Len(batch) PROVE f[n] = AppendEvent(f[n - 1], batch[n])
    <3>1. f[n - 1] \in Seq(Item)
      BY <1>1, <1>5
    <3> QED
      BY <1>3, <1>5, <3>1 DEF RunOf
  <2> QED
    BY <1>1, <1>5, <2>1 DEF RunOf
<1>7. f = [n \in 0..Len(batch) |-> IF n = 0 THEN mediaEvents ELSE AppendEvent(f[n - 1], batch[n])]
  BY <1>5, <1>6
<1>8. Persisted = [n \in 0..Len(batch) |-> IF n = 0 THEN mediaEvents ELSE AppendEvent(Persisted[n - 1], batch[n])]
  BY <1>7, Zenon DEF Persisted
<1> QED
  BY <1>1, <1>8

\* The loop of _advance_offsets.
LEMMA AdvancedIs ==
  ASSUME MediaTypes
  PROVE  /\ Advanced[0] = offsets
         /\ \A n \in 1..Len(batch) : Advanced[n] = AdvanceOffset(Advanced[n - 1], batch[n])
<1>1. Len(batch) \in Nat /\ (\A n \in 1..Len(batch) : batch[n] \in Item) /\ offsets \in [Sources -> Nat]
  BY DEF MediaTypes
<1>2. PICK turn : turn = [p \in (1..Len(batch)) \X [Sources -> Nat] |-> AdvanceOffset(p[2], batch[p[1]])]
  OBVIOUS
<1>3. \A n \in 1..Len(batch), x \in [Sources -> Nat] : turn[<<n, x>>] = AdvanceOffset(x, batch[n])
  BY <1>2
<1>4. \A n \in 1..Len(batch), x \in [Sources -> Nat] : AdvanceOffset(x, batch[n]) \in [Sources -> Nat]
  BY <1>1 DEF AdvanceOffset, Item
<1>5. PICK f \in [0..Len(batch) -> [Sources -> Nat]] : RunOf(f, Len(batch), offsets, turn)
  <2>1. TurnsOver(turn, Len(batch), [Sources -> Nat])
    BY <1>3, <1>4 DEF TurnsOver
  <2> QED
    BY <1>1, <2>1, LoopRuns
<1>6. \A n \in 0..Len(batch) : f[n] = IF n = 0 THEN offsets ELSE AdvanceOffset(f[n - 1], batch[n])
  <2>1. ASSUME NEW n \in 1..Len(batch) PROVE f[n] = AdvanceOffset(f[n - 1], batch[n])
    <3>1. f[n - 1] \in [Sources -> Nat]
      <4>1. n - 1 \in 0..Len(batch)
        BY <1>1
      <4> QED
        BY <1>5, <4>1, Zenon
    <3> QED
      BY <1>3, <1>5, <3>1 DEF RunOf
  <2> QED
    BY <1>1, <1>5, <2>1 DEF RunOf
<1>7. f = [n \in 0..Len(batch) |-> IF n = 0 THEN offsets ELSE AdvanceOffset(f[n - 1], batch[n])]
  BY <1>5, <1>6
<1>8. Advanced = [n \in 0..Len(batch) |-> IF n = 0 THEN offsets ELSE AdvanceOffset(Advanced[n - 1], batch[n])]
  BY <1>7, Zenon DEF Advanced
<1> QED
  BY <1>1, <1>8

(* What is due for a caption after one of them.                            *)
DueNext(due, n) ==
  IF offsets[Captions[n]] < captions[Captions[n]] THEN Append(due, CaptionItem(Captions[n])) ELSE due

(* The items of captions.                                                  *)
OfCaptions(s) ==
  s \in Seq(Item) /\ \A i \in 1..Len(s) : \E c \in Logical : s[i] = CaptionItem(c) /\ captions[c] > 0

\* The captions that are due: each once, for a revision of the moment.
LEMMA DueIs ==
  ASSUME MediaTypes
  PROVE  OfCaptions(DueCaptions[Len(Captions)])
<1> DEFINE N == Len(Captions)
<1>1. N \in Nat /\ (\A n \in 1..N : Captions[n] \in Logical) /\ Logical \subseteq Sources
  BY CaptionsAssumption DEF Logical, Sources
<1>2. <<>> \in {s \in Seq(Item) : OfCaptions(s)}
  BY DEF OfCaptions
<1>3. ASSUME NEW n \in 1..N, NEW s, OfCaptions(s) PROVE OfCaptions(DueNext(s, n))
  <2>1. Captions[n] \in Logical /\ captions[Captions[n]] \in Nat /\ offsets[Captions[n]] \in Nat
    BY <1>1 DEF MediaTypes
  <2>2. CaptionItem(Captions[n]) \in Item
    BY <1>1, <2>1 DEF CaptionItem, Item
  <2>3. CASE ~(offsets[Captions[n]] < captions[Captions[n]])
    BY <1>3, <2>3 DEF DueNext
  <2>4. CASE offsets[Captions[n]] < captions[Captions[n]]
    <3>1. PICK item \in Item : item = CaptionItem(Captions[n])
      BY <2>2
    <3>2. PICK t : t = Append(s, item)
      OBVIOUS
    <3>3. s \in Seq(Item) /\ t \in Seq(Item) /\ Len(t) = Len(s) + 1 /\ t[Len(t)] = item
          /\ \A i \in 1..Len(s) : t[i] = s[i]
      BY <1>3, <3>2 DEF OfCaptions
    <3>4. captions[Captions[n]] > 0
      BY <2>1, <2>4
    <3>5. ASSUME NEW i \in 1..Len(t) PROVE \E c \in Logical : t[i] = CaptionItem(c) /\ captions[c] > 0
      <4>1. CASE i = Len(t)
        BY <2>1, <3>1, <3>3, <3>4, <4>1
      <4>2. CASE i # Len(t)
        <5>1. i \in 1..Len(s)
          BY <3>3, <4>2
        <5> QED
          BY <1>3, <3>3, <5>1 DEF OfCaptions
      <4> QED
        BY <4>1, <4>2
    <3>6. DueNext(s, n) = t
      BY <2>4, <3>1, <3>2 DEF DueNext
    <3> QED
      BY <3>3, <3>5, <3>6 DEF OfCaptions
  <2> QED
    BY <2>3, <2>4
<1>4. PICK X : X = {s \in Seq(Item) : OfCaptions(s)}
  OBVIOUS
<1>5. \A n \in 1..N, s \in X : DueNext(s, n) \in X
  BY <1>3, <1>4 DEF OfCaptions
<1>6. PICK turn : turn = [p \in (1..N) \X X |-> DueNext(p[2], p[1])]
  OBVIOUS
<1>7. \A n \in 1..N, s \in X : turn[<<n, s>>] = DueNext(s, n)
  BY <1>6
<1>8. PICK f \in [0..N -> X] : RunOf(f, N, <<>>, turn)
  <2>1. TurnsOver(turn, N, X) /\ <<>> \in X
    BY <1>2, <1>4, <1>5, <1>7 DEF TurnsOver
  <2> QED
    BY <1>1, <2>1, LoopRuns
<1>9. \A n \in 0..N : f[n] = IF n = 0 THEN <<>> ELSE DueNext(f[n - 1], n)
  <2>1. ASSUME NEW n \in 1..N PROVE f[n] = DueNext(f[n - 1], n)
    <3>1. f[n - 1] \in X
      BY <1>1, <1>8
    <3> QED
      BY <1>7, <1>8, <3>1 DEF RunOf
  <2> QED
    BY <1>1, <1>8, <2>1 DEF RunOf
<1>10. f = [n \in 0..N |-> IF n = 0 THEN <<>> ELSE DueNext(f[n - 1], n)]
  BY <1>8, <1>9
<1>11. DueCaptions = [n \in 0..N |-> IF n = 0 THEN <<>> ELSE DueNext(DueCaptions[n - 1], n)]
  BY <1>10, Zenon DEF DueCaptions, DueNext
<1> DEFINE S == {n \in 0..N : OfCaptions(DueCaptions[n])}
<1>12. 0..N \subseteq S
  <2>1. 0 \in S
    BY <1>1, <1>2, <1>11
  <2>2. ASSUME NEW n \in 1..N, n - 1 \in S PROVE n \in S
    <3>1. DueCaptions[n] = DueNext(DueCaptions[n - 1], n) /\ OfCaptions(DueCaptions[n - 1])
      BY <1>1, <1>11, <2>2
    <3> QED
      BY <1>1, <1>3, <3>1
  <2> HIDE DEF S
  <2> QED
    BY <1>1, <2>1, <2>2, LoopInduction
<1> QED
  BY <1>1, <1>12

(* A sequence of events: what each stands for, and the revisions in order. *)
Lists(s) ==
  /\ s \in Seq(Item)
  /\ \A i \in 1..Len(s) : Stands(s[i])
  /\ \A i, j \in 1..Len(s) : i < j /\ s[i].logical = s[j].logical => s[i].revision < s[j].revision

(* No event is of a later revision than the item of the batch.             *)
Below(s) ==
  \A i \in 1..Len(s), k \in 1..Len(batch) :
    s[i].logical = batch[k].logical => s[i].revision <= batch[k].revision

(* The revision of the item, or an end of the session, is among the events.*)
Holds(s, item) == \E i \in 1..Len(s) : s[i].logical = item.logical /\ s[i].revision = item.revision

MediaInv ==
  /\ MediaTypes /\ Lists(mediaEvents) /\ OffsetsBehindEvents
  /\ phase \in {"idle", "loop"} => batch = <<>>
  /\ \A k \in 1..Len(batch) : Stands(batch[k])
  /\ phase = "read" =>
       /\ Below(mediaEvents)
       /\ \A j, k \in 1..Len(batch) : batch[j].logical = batch[k].logical => batch[j].revision = batch[k].revision
  /\ phase = "persisted" => \A k \in 1..Len(batch) : Holds(mediaEvents, batch[k])

(* The events after the first n items: the earlier ones and these.         *)
After(s, n) ==
  /\ Lists(s) /\ Below(s)
  /\ Len(mediaEvents) <= Len(s) /\ \A i \in 1..Len(mediaEvents) : s[i] = mediaEvents[i]
  /\ \A k \in 1..n : Holds(s, batch[k])

\* An item is appended behind every earlier revision, or was appended before.
LEMMA AppendKeeps ==
  ASSUME MediaInv, phase = "read", NEW n \in 1..Len(batch), NEW s, After(s, n - 1)
  PROVE  After(AppendEvent(s, batch[n]), n)
<1>1. /\ batch \in Seq(Item) /\ Len(batch) \in Nat /\ batch[n] \in Item /\ Stands(batch[n])
      /\ mediaEvents \in Seq(Item) /\ Len(mediaEvents) \in Nat
  BY DEF MediaInv, MediaTypes
<1>2. s \in Seq(Item) /\ Len(s) \in Nat /\ DOMAIN s = 1..Len(s)
  BY DEF After, Lists
<1>3. CASE \E i \in DOMAIN s : s[i].logical = batch[n].logical /\ s[i].revision = batch[n].revision
  <2>1. PICK i \in 1..Len(s) : s[i].logical = batch[n].logical /\ s[i].revision = batch[n].revision
    BY <1>2, <1>3
  <2>5. Holds(s, batch[n])
    BY <2>1 DEF Holds
  <2>6. \A k \in 1..n : Holds(s, batch[k])
    BY <1>1, <2>5 DEF After
  <2>7. AppendEvent(s, batch[n]) = s
    BY <1>3 DEF AppendEvent
  <2> QED
    BY <2>6, <2>7 DEF After
<1>4. CASE ~\E i \in DOMAIN s : s[i].logical = batch[n].logical /\ s[i].revision = batch[n].revision
  <2>1. PICK t : t = Append(s, batch[n])
    OBVIOUS
  <2>2. /\ t \in Seq(Item) /\ Len(t) = Len(s) + 1 /\ t[Len(t)] = batch[n]
        /\ \A i \in 1..Len(s) : t[i] = s[i]
    BY <1>1, <1>2, <2>1
  <2>3. \A i \in 1..Len(s) : s[i].logical = batch[n].logical => s[i].revision < batch[n].revision
    <3>1. \A i \in 1..Len(s) : s[i] \in Item
      BY <1>2
    <3>2. \A i \in 1..Len(s) : s[i].revision \in Nat /\ batch[n].revision \in Nat
      BY <1>1, <3>1 DEF Item
    <3> QED
      BY <1>2, <1>4, <3>2 DEF After, Below
  <2>4. \A i \in 1..Len(t) : i \in 1..Len(s) \/ i = Len(t)
    BY <1>2, <2>2
  <2>5. \A i \in 1..Len(t) : Stands(t[i])
    BY <1>1, <2>2, <2>4 DEF After, Lists
  <2>6. ASSUME NEW i \in 1..Len(t), NEW j \in 1..Len(t), i < j, t[i].logical = t[j].logical
        PROVE  t[i].revision < t[j].revision
    <3>1. i \in 1..Len(s)
      BY <1>2, <2>2, <2>6
    <3>2. CASE j = Len(t)
      BY <2>2, <2>3, <2>6, <3>1, <3>2
    <3>3. CASE j # Len(t)
      BY <2>2, <2>4, <2>6, <3>1, <3>3 DEF After, Lists
    <3> QED
      BY <3>2, <3>3
  <2>7. Lists(t)
    BY <2>2, <2>5, <2>6 DEF Lists
  <2>8. Below(t)
    <3>1. ASSUME NEW i \in 1..Len(t), NEW k \in 1..Len(batch), t[i].logical = batch[k].logical
          PROVE  t[i].revision <= batch[k].revision
      <4>1. CASE i \in 1..Len(s)
        BY <2>2, <3>1, <4>1 DEF After, Below
      <4>2. CASE i = Len(t)
        <5>1. batch[n].revision = batch[k].revision /\ batch[n].revision \in Nat
          BY <1>1, <2>2, <3>1, <4>2 DEF MediaInv, Item
        <5> QED
          BY <2>2, <4>2, <5>1
      <4> QED
        BY <2>4, <4>1, <4>2
    <3> QED
      BY <3>1 DEF Below
  <2>9. Len(mediaEvents) <= Len(t) /\ \A i \in 1..Len(mediaEvents) : t[i] = mediaEvents[i]
    BY <1>1, <1>2, <2>2 DEF After
  <2>10. ASSUME NEW k \in 1..n PROVE Holds(t, batch[k])
    <3>1. CASE k = n
      BY <1>2, <2>2, <3>1 DEF Holds
    <3>2. CASE k # n
      <4>1. Holds(s, batch[k])
        BY <1>1, <3>2 DEF After
      <4> QED
        BY <1>2, <2>2, <4>1 DEF Holds
    <3> QED
      BY <3>1, <3>2
  <2>11. AppendEvent(s, batch[n]) = t
    BY <1>4, <2>1 DEF AppendEvent
  <2> QED
    BY <2>7, <2>8, <2>9, <2>10, <2>11 DEF After
<1> QED
  BY <1>3, <1>4

\* The events that the batch has become.
LEMMA PersistHolds ==
  ASSUME MediaInv, phase = "read"
  PROVE  After(Persisted[Len(batch)], Len(batch))
<1>1. /\ Len(batch) \in Nat /\ Persisted[0] = mediaEvents
      /\ \A n \in 1..Len(batch) : Persisted[n] = AppendEvent(Persisted[n - 1], batch[n])
  BY PersistedIs DEF MediaInv, MediaTypes
<1> DEFINE S == {n \in 0..Len(batch) : After(Persisted[n], n)}
<1>2. 0 \in S
  <2>1. Len(mediaEvents) \in Nat
    BY DEF MediaInv, MediaTypes
  <2> QED
    BY <1>1, <2>1 DEF MediaInv, After
<1>3. ASSUME NEW n \in 1..Len(batch), n - 1 \in S PROVE n \in S
  <2>1. After(Persisted[n - 1], n - 1) /\ n \in 0..Len(batch)
    BY <1>1, <1>3
  <2>2. After(AppendEvent(Persisted[n - 1], batch[n]), n)
    BY <2>1, AppendKeeps
  <2> QED
    BY <1>1, <2>1, <2>2
<1>4. 0..Len(batch) \subseteq S
  <2> HIDE DEF S
  <2> QED
    BY <1>1, <1>2, <1>3, LoopInduction
<1> QED
  BY <1>1, <1>4

(* Offsets that stay behind the events.                                    *)
Behind(offs) ==
  /\ offs \in [Sources -> Nat]
  /\ \A c \in Logical : offs[c] > 0 =>
       \E i \in 1..Len(mediaEvents) : mediaEvents[i].logical = c /\ mediaEvents[i].revision = offs[c]
  /\ \A s \in MediaEnds : offs[s] > 0 => \E i \in 1..Len(mediaEvents) : mediaEvents[i].logical = "terminal"

\* The offsets that the batch has brought.
LEMMA AdvanceHolds ==
  ASSUME MediaInv, phase = "persisted"
  PROVE  Behind(Advanced[Len(batch)])
<1>1. /\ Len(batch) \in Nat /\ Advanced[0] = offsets
      /\ \A n \in 1..Len(batch) : Advanced[n] = AdvanceOffset(Advanced[n - 1], batch[n])
  BY AdvancedIs DEF MediaInv, MediaTypes
<1>2. DOMAIN mediaEvents = 1..Len(mediaEvents)
  BY DEF MediaInv, MediaTypes
<1> DEFINE S == {n \in 0..Len(batch) : Behind(Advanced[n])}
<1>3. 0 \in S
  <2>1. offsets \in [Sources -> Nat] /\ OffsetsBehindEvents
    BY DEF MediaInv, MediaTypes
  <2>2. Behind(offsets)
    BY <1>2, <2>1, Zenon DEF OffsetsBehindEvents, Behind
  <2> QED
    BY <1>1, <2>2
<1>4. ASSUME NEW n \in 1..Len(batch), n - 1 \in S PROVE n \in S
  <2>1. Behind(Advanced[n - 1]) /\ n \in 0..Len(batch) /\ batch[n] \in Item
    BY <1>1, <1>4 DEF MediaInv, MediaTypes
  <2>2. PICK offs : offs = Advanced[n - 1]
    OBVIOUS
  <2>3. PICK item \in Item : item = batch[n]
    BY <2>1
  <2>4. offs \in [Sources -> Nat] /\ item.source \in Sources /\ item.revision \in Nat
    BY <2>1, <2>2, <2>3 DEF Behind, Item
  <2>5. PICK more : more = AdvanceOffset(offs, item)
    OBVIOUS
  <2>6. more \in [Sources -> Nat]
    BY <2>4, <2>5 DEF AdvanceOffset
  <2>7. Stands(item) /\ Holds(mediaEvents, item) /\ item.logical \in Logical \cup {"terminal"}
    BY <2>3 DEF MediaInv, Item
  <2>8. \A s \in Sources : more[s] = offs[s] \/ (s = item.source /\ more[s] = item.revision)
    BY <2>4, <2>5 DEF AdvanceOffset
  <2>10. ASSUME NEW c \in Logical, more[c] > 0
         PROVE  \E i \in 1..Len(mediaEvents) : mediaEvents[i].logical = c /\ mediaEvents[i].revision = more[c]
    <3>1. CASE more[c] = offs[c]
      BY <2>1, <2>2, <2>10, <3>1 DEF Behind
    <3>2. CASE c = item.source /\ more[c] = item.revision
      <4>1. item.logical = c
        BY <2>7, <3>2, CaptionsAssumption DEF Stands, Logical, MediaEnds
      <4> QED
        BY <2>7, <3>2, <4>1 DEF Holds
    <3> QED
      BY <2>8, <3>1, <3>2 DEF Sources
  <2>11. ASSUME NEW s \in MediaEnds, more[s] > 0
         PROVE  \E i \in 1..Len(mediaEvents) : mediaEvents[i].logical = "terminal"
    <3>1. CASE more[s] = offs[s]
      BY <2>1, <2>2, <2>11, <3>1 DEF Behind
    <3>2. CASE s = item.source
      <4>1. item.logical = "terminal"
        BY <2>7, <3>2, CaptionsAssumption DEF Stands, Logical, MediaEnds
      <4> QED
        BY <2>7, <4>1 DEF Holds
    <3> QED
      BY <2>8, <3>1, <3>2 DEF Sources
  <2>12. Behind(more)
    BY <2>6, <2>10, <2>11 DEF Behind
  <2>9. Advanced[n] = more
    BY <1>1, <2>2, <2>3, <2>5
  <2> QED
    BY <2>1, <2>9, <2>12
<1>5. 0..Len(batch) \subseteq S
  <2> HIDE DEF S
  <2> QED
    BY <1>1, <1>3, <1>4, LoopInduction
<1> QED
  BY <1>1, <1>5

\* The items that are read: what each stands for, of the newest revision.
LEMMA PendingHolds ==
  ASSUME MediaInv
  PROVE  /\ PendingItems \in Seq(Item)
         /\ \A k \in 1..Len(PendingItems) :
              LET item == PendingItems[k]
              IN /\ Stands(item)
                 /\ item.revision = IF item.logical = "terminal" THEN 1 ELSE captions[item.logical]
<1>1. PICK due : due = DueCaptions[Len(Captions)] /\ OfCaptions(due)
  BY DueIs DEF MediaInv
<1>2. PICK end : end = TerminalDue
  OBVIOUS
<1>3. "terminal" \notin Logical /\ Logical \subseteq Sources /\ MediaEnds \subseteq Sources
  BY CaptionsAssumption DEF Logical, Sources
<1>4. ended \in MediaEnds \cup {"none"} /\ captions \in [Logical -> Nat]
  BY DEF MediaInv, MediaTypes
<1>5. due \in Seq(Item) /\ \A k \in 1..Len(due) : \E c \in Logical : due[k] = CaptionItem(c) /\ captions[c] > 0
  BY <1>1 DEF OfCaptions
<1>6. \/ end = <<>>
      \/ ended # "none" /\ end = <<TerminalItem>>
  BY <1>2 DEF TerminalDue
<1>7. ended # "none" => TerminalItem \in Item
  BY <1>3, <1>4 DEF TerminalItem, Item
<1>8. end \in Seq(Item) /\ Len(end) \in Nat
      /\ \A k \in 1..Len(end) : k = 1 /\ end[k] = TerminalItem /\ ended # "none"
  <2>1. CASE end = <<>>
    BY <2>1
  <2>2. CASE ended # "none" /\ end = <<TerminalItem>>
    <3>1. PICK item \in Item : item = TerminalItem
      BY <1>7, <2>2
    <3>2. end = <<item>> /\ Len(end) = 1 /\ end[1] = item
      BY <2>2, <3>1
    <3> QED
      BY <2>2, <3>1, <3>2
  <2> QED
    BY <1>6, <2>1, <2>2
<1>9. PICK all : all = due \o end
  OBVIOUS
<1>10. /\ all \in Seq(Item) /\ Len(all) = Len(due) + Len(end) /\ Len(due) \in Nat
       /\ \A k \in 1..Len(due) : all[k] = due[k]
       /\ \A k \in 1..Len(end) : all[Len(due) + k] = end[k]
  BY <1>5, <1>8, <1>9
<1>11. ASSUME NEW k \in 1..Len(all)
       PROVE  \/ \E c \in Logical : all[k] = CaptionItem(c) /\ captions[c] > 0
              \/ all[k] = TerminalItem /\ ended # "none"
  <2>1. CASE k \in 1..Len(due)
    BY <1>5, <1>10, <2>1
  <2>2. CASE ~(k \in 1..Len(due))
    <3>1. k - Len(due) \in 1..Len(end) /\ k = Len(due) + (k - Len(due))
      BY <1>8, <1>10, <2>2
    <3> QED
      BY <1>8, <1>10, <3>1
  <2> QED
    BY <2>1, <2>2
<1>12. ASSUME NEW k \in 1..Len(all)
       PROVE  /\ Stands(all[k])
              /\ all[k].revision = IF all[k].logical = "terminal" THEN 1 ELSE captions[all[k].logical]
  <2>1. CASE \E c \in Logical : all[k] = CaptionItem(c) /\ captions[c] > 0
    <3>1. PICK c \in Logical : all[k] = CaptionItem(c) /\ captions[c] > 0
      BY <2>1
    <3>2. /\ all[k].source = c /\ all[k].logical = c /\ all[k].revision = captions[c]
          /\ c # "terminal" /\ captions[c] \in Nat
      BY <1>3, <1>4, <3>1 DEF CaptionItem
    <3> QED
      BY <3>1, <3>2 DEF Stands
  <2>2. CASE all[k] = TerminalItem /\ ended # "none"
    BY <1>4, <2>2 DEF Stands, TerminalItem
  <2> QED
    BY <1>11, <2>1, <2>2
<1>13. PendingItems = all
  BY <1>1, <1>2, <1>9 DEF PendingItems
<1> QED
  BY <1>10, <1>12, <1>13

\* Nothing projected when the session begins.
LEMMA MediaStarts == MediaInit => MediaInv
<1> SUFFICES ASSUME MediaInit PROVE MediaInv
  OBVIOUS
<1>1. mediaEvents = <<>> /\ batch = <<>> /\ phase = "idle" /\ ended = "none"
      /\ captions = [c \in Logical |-> 0] /\ offsets = [s \in Sources |-> 0]
  BY DEF MediaInit
<1>2. MediaTypes
  BY <1>1 DEF MediaTypes
<1>3. Lists(mediaEvents)
  BY <1>1 DEF Lists
<1>4. OffsetsBehindEvents
  BY <1>1 DEF OffsetsBehindEvents, Sources
<1> QED
  BY <1>1, <1>2, <1>3, <1>4 DEF MediaInv

\* A turn of the projection begins with the newest revisions of the moment.
LEMMA ReadKeeps == ASSUME MediaInv, ReadPending PROVE MediaInv'
<1>1. UNCHANGED <<captions, ended, mediaEvents, offsets>> /\ phase = "loop"
  BY DEF ReadPending, sessionRow
<1>2. CASE phase' = "idle" /\ batch' = <<>>
  BY <1>1, <1>2 DEF MediaInv, MediaTypes, Lists, Stands, OffsetsBehindEvents
<1>3. CASE PendingItems # <<>> /\ phase' = "read" /\
           batch' = SubSeq(PendingItems, 1, IF Len(PendingItems) < BatchSize THEN Len(PendingItems) ELSE BatchSize)
  <2>1. PICK all : all = PendingItems
    OBVIOUS
  <2>2. /\ all \in Seq(Item) /\ Len(all) \in Nat
        /\ \A k \in 1..Len(all) :
             /\ Stands(all[k])
             /\ all[k].revision = IF all[k].logical = "terminal" THEN 1 ELSE captions[all[k].logical]
    BY <2>1, PendingHolds
  <2>3. PICK m \in Nat : m <= Len(all) /\ batch' = SubSeq(all, 1, m)
    <3>1. PICK size \in Nat : size = BatchSize
      BY CaptionsAssumption
    <3> QED
      BY <1>3, <2>1, <2>2, <3>1
  <2>4. batch' \in Seq(Item) /\ Len(batch') = m /\ \A k \in 1..m : batch'[k] = all[k] /\ k \in 1..Len(all)
    BY <2>2, <2>3
  <2>5. MediaTypes'
    BY <1>1, <1>3, <2>4 DEF MediaInv, MediaTypes
  <2>6. Lists(mediaEvents)' /\ OffsetsBehindEvents'
    BY <1>1 DEF MediaInv, Lists, Stands, OffsetsBehindEvents
  <2>7. \A k \in 1..Len(batch') : Stands(batch[k])'
    BY <1>1, <2>2, <2>4 DEF Stands
  <2>8. Below(mediaEvents)'
    <3>1. ASSUME NEW i \in 1..Len(mediaEvents), NEW k \in 1..m, mediaEvents[i].logical = all[k].logical
          PROVE  mediaEvents[i].revision <= all[k].revision
      <4>1. Stands(mediaEvents[i]) /\ mediaEvents[i] \in Item
        BY DEF MediaInv, MediaTypes, Lists
      <4>2. all[k].revision = IF all[k].logical = "terminal" THEN 1 ELSE captions[all[k].logical]
        BY <2>2, <2>4
      <4>3. mediaEvents[i].revision \in Nat
        BY <4>1 DEF Item
      <4> QED
        BY <3>1, <4>1, <4>2, <4>3 DEF Stands
    <3> QED
      BY <1>1, <2>4, <3>1 DEF Below
  <2>9. \A j, k \in 1..Len(batch') : batch'[j].logical = batch'[k].logical => batch'[j].revision = batch'[k].revision
    BY <2>2, <2>4
  <2> QED
    BY <1>3, <2>5, <2>6, <2>7, <2>8, <2>9 DEF MediaInv
<1> QED
  BY <1>2, <1>3, Zenon DEF ReadPending, LeaveProjection

\* The batch becomes events; the offsets follow in a transaction of their own.
LEMMA PersistKeeps == ASSUME MediaInv, PersistEventBatch PROVE MediaInv'
<1>1. UNCHANGED <<captions, ended, offsets, batch>> /\ phase = "read" /\ phase' = "persisted"
      /\ mediaEvents' = Persisted[Len(batch)]
  BY DEF PersistEventBatch, sessionRow
<1>2. PICK s : s = mediaEvents' /\ After(s, Len(batch))
  BY <1>1, PersistHolds
<1>3. mediaEvents' = s /\ DOMAIN s = 1..Len(s) /\ DOMAIN mediaEvents = 1..Len(mediaEvents)
      /\ Len(mediaEvents) \in Nat /\ Len(s) \in Nat
  BY <1>2 DEF After, Lists, MediaInv, MediaTypes
<1>4. MediaTypes'
  BY <1>1, <1>2, <1>3 DEF After, Lists, MediaInv, MediaTypes
<1>5. Lists(mediaEvents)'
  BY <1>1, <1>2, <1>3 DEF After, Lists, Stands
<1>6. OffsetsBehindEvents'
  <2>1. \A i \in 1..Len(mediaEvents) : s[i] = mediaEvents[i] /\ i \in 1..Len(s)
    BY <1>2, <1>3 DEF After
  <2>2. ASSUME NEW c \in Logical, offsets[c] > 0
        PROVE  \E i \in DOMAIN s : s[i].logical = c /\ s[i].revision = offsets[c]
    BY <1>3, <2>1, <2>2 DEF MediaInv, OffsetsBehindEvents
  <2>3. ASSUME NEW x \in MediaEnds, offsets[x] > 0
        PROVE  \E i \in DOMAIN s : s[i].logical = "terminal"
    BY <1>3, <2>1, <2>3 DEF MediaInv, OffsetsBehindEvents
  <2> QED
    BY <1>1, <1>3, <2>2, <2>3 DEF OffsetsBehindEvents
<1>7. \A k \in 1..Len(batch) : Stands(batch[k])'
  BY <1>1 DEF MediaInv, Stands
<1>8. \A k \in 1..Len(batch) : Holds(mediaEvents, batch[k])'
  BY <1>1, <1>2, <1>3 DEF After, Holds
<1> QED
  BY <1>1, <1>4, <1>5, <1>6, <1>7, <1>8 DEF MediaInv

\* The offsets advance to what the events hold.
LEMMA AdvanceKeeps == ASSUME MediaInv, AdvanceOffsets PROVE MediaInv'
<1>1. UNCHANGED <<captions, ended, mediaEvents>> /\ phase = "persisted" /\ phase' \in {"idle", "loop"}
      /\ offsets' = Advanced[Len(batch)] /\ batch' = <<>>
  BY DEF AdvanceOffsets, LeaveProjection, sessionRow
<1>2. PICK offs : offs = offsets' /\ Behind(offs)
  BY <1>1, AdvanceHolds
<1>3. MediaTypes' /\ DOMAIN mediaEvents = 1..Len(mediaEvents)
  BY <1>1, <1>2 DEF Behind, MediaInv, MediaTypes
<1>4. OffsetsBehindEvents'
  BY <1>1, <1>2, <1>3 DEF Behind, OffsetsBehindEvents
<1>5. Lists(mediaEvents)'
  BY <1>1 DEF MediaInv, Lists, Stands
<1> QED
  BY <1>1, <1>3, <1>4, <1>5 DEF MediaInv

\* Every step of the projection, of its crashes, its readers and its sources.
LEMMA MediaKeeps == ASSUME MediaInv, MediaNext \/ UNCHANGED mediaVars PROVE MediaInv'
<1>1. CASE ReadPending \/ PersistEventBatch \/ AdvanceOffsets
  BY <1>1, ReadKeeps, PersistKeeps, AdvanceKeeps
<1>2. CASE UNCHANGED <<captions, mediaEvents, offsets>> /\ ended' \in MediaEnds \cup {"none"}
           /\ phase' \in {"idle", "loop"} /\ batch' = <<>>
  <2>1. MediaTypes' /\ OffsetsBehindEvents'
    BY <1>2 DEF MediaInv, MediaTypes, OffsetsBehindEvents
  <2>2. Lists(mediaEvents)'
    BY <1>2 DEF MediaInv, Lists, Stands
  <2> QED
    BY <1>2, <2>1, <2>2 DEF MediaInv
<1>3. CASE UNCHANGED <<captions, mediaEvents, offsets, batch, phase>> /\ ended' \in MediaEnds \cup {"none"}
  <2>1. MediaTypes' /\ OffsetsBehindEvents'
    BY <1>3 DEF MediaInv, MediaTypes, OffsetsBehindEvents
  <2>2. Lists(mediaEvents)' /\ \A k \in 1..Len(batch) : Stands(batch[k])'
    BY <1>3 DEF MediaInv, Lists, Stands
  <2>3. (Below(mediaEvents) => Below(mediaEvents)')
        /\ \A k \in 1..Len(batch) : Holds(mediaEvents, batch[k]) => Holds(mediaEvents, batch[k])'
    BY <1>3 DEF Below, Holds
  <2> QED
    BY <1>3, <2>1, <2>2, <2>3 DEF MediaInv
<1>4. CASE \E c \in Logical : UpsertFinal(c)
  <2>1. PICK c \in Logical : UpsertFinal(c)
    BY <1>4
  <2>2. /\ captions' = [captions EXCEPT ![c] = @ + 1] /\ captions \in [Logical -> Nat]
        /\ UNCHANGED <<ended, mediaEvents, offsets, batch, phase>>
    BY <2>1 DEF UpsertFinal, MediaInv, MediaTypes, sessionRow, bridge, projection
  <2>3. captions' \in [Logical -> Nat] /\ \A d \in Logical : captions[d] <= captions'[d]
    BY <2>2
  <2>4. \A e \in Item : Stands(e) => Stands(e)'
    BY <2>2, <2>3 DEF Stands, Item
  <2>5. (\A i \in 1..Len(mediaEvents) : mediaEvents[i] \in Item) /\ \A k \in 1..Len(batch) : batch[k] \in Item
    BY DEF MediaInv, MediaTypes
  <2>6. MediaTypes' /\ OffsetsBehindEvents'
    BY <2>2, <2>3 DEF MediaInv, MediaTypes, OffsetsBehindEvents
  <2>7. Lists(mediaEvents)' /\ \A k \in 1..Len(batch) : Stands(batch[k])'
    BY <2>2, <2>4, <2>5 DEF MediaInv, Lists
  <2>8. Below(mediaEvents) => Below(mediaEvents)'
    BY <2>2 DEF Below
  <2>9. \A k \in 1..Len(batch) : Holds(mediaEvents, batch[k]) => Holds(mediaEvents, batch[k])'
    BY <2>2 DEF Holds
  <2> QED
    BY <2>2, <2>6, <2>7, <2>8, <2>9 DEF MediaInv
<1>5. ended \in MediaEnds \cup {"none"} /\ (phase = "idle" => batch = <<>>)
  BY DEF MediaInv, MediaTypes
<1>6. CASE ListSessions \/ ProjectOlder \/ WriterReads \/ (\E s \in MediaEnds \cup {"none"} : WriterCommits(s))
           \/ UNCHANGED mediaVars
  BY <1>3, <1>5, <1>6 DEF ListSessions, ProjectOlder, WriterReads, WriterCommits, mediaVars,
                          sessionRow, bridge, projection
<1>7. CASE ProjectOurs \/ RequestCatchUp \/ ProjectionRaises \/ MediaCrash
  BY <1>2, <1>3, <1>5, <1>7 DEF ProjectOurs, RequestCatchUp, ProjectionRaises, MediaCrash, LeaveProjection,
                                sessionRow, bridge, projection
<1> QED
  BY <1>1, <1>4, <1>6, <1>7 DEF MediaNext, Projecting

\* The invariant says what the projection promises.
LEMMA MediaInvIsSafe == MediaInv => ProjectedOnce /\ OffsetsBehindEvents
<1> SUFFICES ASSUME MediaInv PROVE ProjectedOnce
  BY DEF MediaInv
<1>1. DOMAIN mediaEvents = 1..Len(mediaEvents) /\ Lists(mediaEvents)
  BY DEF MediaInv, MediaTypes
<1> QED
  BY <1>1 DEF Lists, ProjectedOnce

\* Every revision that is read becomes one event, in the order of the revisions, the ends of
\* the session at most one, and no offset runs ahead of them, with any captions, batches,
\* exceptions and crashes and any number of writers that end the session one after another.
THEOREM ProjectionHolds == MediaSpec => [](ProjectedOnce /\ OffsetsBehindEvents)
<1>1. MediaInit => MediaInv
  BY MediaStarts
<1>2. MediaInv /\ [MediaNext]_mediaVars => MediaInv'
  BY MediaKeeps
<1>3. MediaInv => ProjectedOnce /\ OffsetsBehindEvents
  BY MediaInvIsSafe
<1> QED
  BY <1>1, <1>2, <1>3, PTL DEF MediaSpec

-----------------------------------------------------------------------------
(* The whole way of the captions.                                          *)

\* A session is settled as LiveSafe says and its captions are projected once, in every
\* behaviour of the composition, for any kinds of sessions, captions and bounds.
THEOREM CaptionsSafeHolds == CaptionsSpec => []CaptionsSafe
<1>1. CaptionsInit => LiveInv /\ MediaInv
  BY LiveStarts, MediaStarts DEF CaptionsInit
<1>2. ASSUME LiveInv, MediaInv, [CaptionsNext]_captionVars
      PROVE  LiveInv' /\ MediaInv'
  <2>1. [LiveNext]_liveVars /\ (MediaNext \/ UNCHANGED mediaVars)
    BY <1>2 DEF CaptionsNext, Captioned, Spoken, Bridging, captionVars
  <2> QED
    BY <1>2, <2>1, LiveKeeps, MediaKeeps
<1>3. LiveInv /\ MediaInv => CaptionsSafe
  BY LiveInvIsSafe, MediaInvIsSafe DEF CaptionsSafe
<1> QED
  BY <1>1, <1>2, <1>3, PTL DEF CaptionsSpec

=============================================================================

---------------------------- MODULE SpeechSession ----------------------------
(***************************************************************************)
(* A streaming session of the worker with a speech provider: the session   *)
(* (its bounded audio queue, its sender task and its event task), the      *)
(* WebSocket provider below it, and the remote task as the provider sees   *)
(* it.  TranscriptionSession over BailianSpeechRecognitionProvider is the  *)
(* instance with a start retry, TranslationSession over                    *)
(* BailianLiveTranslateProvider the one without.                           *)
(***************************************************************************)
EXTENDS Naturals, Sequences

CONSTANTS
  StartupRetries,  \* startup_retries: 1 for the transcription, 0 for the translation
  QueueMax,        \* queue_max_chunks
  MaxChunks,       \* bound: audio chunks of the caller
  MaxResults       \* bound: results of the remote task

VARIABLES
  ss,        \* the session's _state
  tries,     \* start attempts that failed
  audioQueue,     \* _queue: chunk numbers and the stop mark
  sender,    \* the sender task: "off", "idle", a chunk is "sending", "ok", "failed", "cancelled"
  reader,    \* the event task: "off", "on", "ok", "failed", "cancelled"
  fpc,       \* finish: "none", "draining", "asking", "waiting", "reading", "raised"
  ps,        \* the provider's _state
  open,      \* the transport is open and its receiver task runs
  signal,    \* _finish_signal: "none", "ok", "error"
  events,    \* _events
  log,       \* history: every event put on _events by this provider
  wire,      \* server messages not yet received
  srv,       \* the remote task: "none", "asked", "up", "finishing", "ended"
  accepted,  \* chunks the queue has taken
  sent,      \* chunks the transport has taken
  said,      \* results of the remote task
  handled    \* results the event handler has had

speechVars == <<ss, tries, audioQueue, sender, reader, fpc, ps, open, signal, events, log, wire, srv,
                accepted, sent, said, handled>>

sessionSide == <<ss, tries, audioQueue, sender, reader, fpc, accepted, sent, handled>>

providerSide == <<ps, open, signal, events, log, wire, srv, said>>

Stop == 0

FreshProvider ==
  /\ ps' = "connecting" /\ open' = FALSE /\ signal' = "none" /\ events' = <<>> /\ log' = <<>>
  /\ wire' = <<>> /\ srv' = "none" /\ said' = 0

SpeechInit ==
  /\ ss = "idle" /\ tries = 0 /\ audioQueue = <<>> /\ sender = "off" /\ reader = "off" /\ fpc = "none"
  /\ ps = "idle" /\ open = FALSE /\ signal = "none" /\ events = <<>> /\ log = <<>>
  /\ wire = <<>> /\ srv = "none" /\ accepted = 0 /\ sent = 0 /\ said = 0 /\ handled = 0

-----------------------------------------------------------------------------
\* _publish_event and _close_events: nothing follows the end of the events.
TerminalEvents == {"completed", "error"}

Emitted == \E i \in DOMAIN log : log[i] \in TerminalEvents

Publish1(e) ==
  IF Emitted THEN UNCHANGED <<events, log>>
  ELSE /\ log' = Append(log, e)
       /\ events' = events \o IF e \in TerminalEvents THEN <<e, "closed">> ELSE <<e>>

\* _publish_failure, which counts once.
PublishFailure ==
  IF Emitted THEN UNCHANGED <<ps, signal, events, log>>
  ELSE /\ ps' = "failed"
       /\ signal' = IF signal = "none" THEN "error" ELSE signal
       /\ Publish1("error")

\* TranscriptionSession.start and the provider's start up to its connection.
SpeechStart ==
  /\ ss = "idle"
  /\ ss' = "starting"
  /\ FreshProvider
  /\ UNCHANGED <<tries, audioQueue, sender, reader, fpc, accepted, sent, handled>>

\* The socket is open: the receiver task runs and the task (or session) is requested.
Connected ==
  /\ ss = "starting" /\ ps = "connecting"
  /\ ps' = "starting" /\ open' = TRUE /\ srv' = "asked"
  /\ UNCHANGED <<sessionSide, signal, events, log, wire, said>>

\* start returns: task-started has been received and nothing has failed since.
Started ==
  /\ ss = "starting" /\ ps = "started"
  /\ ss' = "started" /\ sender' = "idle" /\ reader' = "on"
  /\ UNCHANGED <<tries, audioQueue, fpc, accepted, sent, handled, providerSide>>

\* start raises (refused, timed out, task-failed): another provider, or the end.
StartAttemptFails ==
  /\ ss = "starting" /\ ps \in {"connecting", "starting", "failed", "completed"}
  /\ IF tries < StartupRetries
     THEN tries' = tries + 1 /\ FreshProvider /\ UNCHANGED ss
     ELSE /\ ss' = "failed" /\ ps' = "failed" /\ open' = FALSE
          /\ UNCHANGED <<tries, signal, events, log, wire, srv, said>>
  /\ UNCHANGED <<audioQueue, sender, reader, fpc, accepted, sent, handled>>

-----------------------------------------------------------------------------
\* The remote task: external.
Says(message, next) ==
  /\ wire' = Append(wire, message) /\ srv' = next
  /\ UNCHANGED <<sessionSide, ps, open, signal, events, log>>

ServerStarts == srv = "asked" /\ Says("started", "up") /\ UNCHANGED said

ServerResult ==
  /\ srv \in {"up", "finishing"} /\ said < MaxResults
  /\ said' = said + 1
  /\ Says("result", srv)

ServerFinishes == srv = "finishing" /\ Says("finished", "ended") /\ UNCHANGED said

\* task-failed, the close of the socket, or an end nobody asked for.
ServerEnds ==
  /\ srv \in {"asked", "up", "finishing"}
  /\ \E m \in {"failed", "eof"} \cup (IF srv = "up" THEN {"finished"} ELSE {}) : Says(m, "ended")
  /\ UNCHANGED said

\* _receive_messages and _handle_server_message: the cases of one message.
Receive(message) == open /\ wire # <<>> /\ Head(wire) = message /\ wire' = Tail(wire)

ReceiveStarted ==
  /\ Receive("started")
  /\ IF ps = "starting"
     THEN ps' = "started" /\ Publish1("started") /\ UNCHANGED signal
     ELSE PublishFailure
  /\ UNCHANGED <<sessionSide, open, srv, said>>

ReceiveResult ==
  /\ Receive("result")
  /\ IF ps \in {"started", "finishing"}
     THEN Publish1("result") /\ UNCHANGED <<ps, signal>>
     ELSE PublishFailure
  /\ UNCHANGED <<sessionSide, open, srv, said>>

ReceiveFinished ==
  /\ Receive("finished")
  /\ ps' = "completed" /\ open' = FALSE
  /\ signal' = IF signal = "none" THEN "ok" ELSE signal
  /\ Publish1("completed")
  /\ UNCHANGED <<sessionSide, srv, said>>

ReceiveFailure ==
  /\ Receive("failed") \/ Receive("eof")
  /\ PublishFailure
  /\ open' = FALSE
  /\ UNCHANGED <<sessionSide, srv, said>>

-----------------------------------------------------------------------------
\* send_frame: refused when the sender has died or the queue is full; the
\* caller then closes the session.
SendFrame ==
  /\ ss = "started" /\ fpc = "none" /\ accepted < MaxChunks
  /\ IF sender \in {"idle", "sending"} /\ Len(audioQueue) < QueueMax
     THEN /\ accepted' = accepted + 1 /\ audioQueue' = Append(audioQueue, accepted + 1)
          /\ UNCHANGED fpc
     ELSE fpc' = "raised" /\ UNCHANGED <<accepted, audioQueue>>
  /\ UNCHANGED <<ss, tries, sender, reader, sent, handled, providerSide>>

\* _send_chunks: the next item.
SenderTakes ==
  /\ sender = "idle" /\ audioQueue # <<>>
  /\ audioQueue' = Tail(audioQueue)
  /\ sender' = IF Head(audioQueue) = Stop THEN "ok" ELSE "sending"
  /\ UNCHANGED <<ss, tries, reader, fpc, accepted, sent, handled, providerSide>>

\* send_audio: into the socket, or refused in the provider's state.
SenderSends ==
  /\ sender = "sending"
  /\ IF ps \in {"started", "finishing"}
     THEN sender' = "idle" /\ sent' = sent + 1
     ELSE sender' = "failed" /\ UNCHANGED sent
  /\ UNCHANGED <<ss, tries, audioQueue, reader, fpc, accepted, handled, providerSide>>

SendBreaks ==
  /\ sender = "sending" /\ ps \in {"started", "finishing"}
  /\ sender' = "failed"
  /\ PublishFailure
  /\ open' = FALSE
  /\ UNCHANGED <<ss, tries, audioQueue, reader, fpc, accepted, sent, handled, wire, srv, said>>

\* _consume_events and the handler it calls.
ReadEvent ==
  /\ reader = "on" /\ events # <<>>
  /\ events' = Tail(events)
  /\ handled' = IF Head(events) = "result" THEN handled + 1 ELSE handled
  /\ reader' = IF Head(events) = "closed" THEN "ok" ELSE "on"
  /\ UNCHANGED <<ss, tries, audioQueue, sender, fpc, accepted, sent, ps, open, signal, log, wire, srv, said>>

HandlerRaises ==
  /\ reader = "on" /\ events # <<>> /\ Head(events) # "closed"
  /\ events' = Tail(events)
  /\ reader' = "failed"
  /\ UNCHANGED <<ss, tries, audioQueue, sender, fpc, accepted, sent, handled, ps, open, signal, log,
                 wire, srv, said>>

-----------------------------------------------------------------------------
\* finish: the tail of the chunker first, which may find the queue full.
FinishBegins ==
  /\ ss = "started" /\ fpc = "none"
  /\ ss' = "finishing"
  /\ \/ fpc' = "draining" /\ UNCHANGED <<audioQueue, accepted>>
     \/ IF Len(audioQueue) < QueueMax
        THEN /\ accepted' = accepted + 1 /\ audioQueue' = Append(audioQueue, accepted + 1)
             /\ fpc' = "draining"
        ELSE fpc' = "raised" /\ UNCHANGED <<audioQueue, accepted>>
  /\ UNCHANGED <<tries, sender, reader, sent, handled, providerSide>>

\* _finish_sender: the stop mark waits for room in the queue.
PutStop ==
  /\ fpc = "draining" /\ sender \in {"idle", "sending"} /\ Len(audioQueue) < QueueMax
  /\ \A i \in DOMAIN audioQueue : audioQueue[i] # Stop
  /\ audioQueue' = Append(audioQueue, Stop)
  /\ UNCHANGED <<ss, tries, sender, reader, fpc, accepted, sent, handled, providerSide>>

FinishRaises ==
  /\ ss' = "failed" /\ fpc' = "raised"
  /\ UNCHANGED <<tries, audioQueue, sender, reader, accepted, sent, handled>>

\* Mutants: the provider is asked to finish while the sender works; a sender that has
\* failed is waited for.
SenderNotAwaited ==
  /\ fpc = "draining" /\ fpc' = "asking"
  /\ UNCHANGED <<ss, tries, audioQueue, sender, reader, accepted, sent, handled, providerSide>>

SenderAwaited ==
  /\ fpc = "draining" /\ sender = "ok" /\ fpc' = "asking"
  /\ UNCHANGED <<ss, tries, audioQueue, sender, reader, accepted, sent, handled, providerSide>>

SenderDrained ==
  /\ fpc = "draining" /\ sender \in {"ok", "failed"}
  /\ IF sender = "ok"
     THEN fpc' = "asking" /\ UNCHANGED <<ss, tries, audioQueue, sender, reader, accepted, sent, handled>>
     ELSE FinishRaises
  /\ UNCHANGED providerSide

\* The provider's finish.
AskFinish ==
  /\ fpc = "asking"
  /\ CASE ps = "started" ->
            /\ ps' = "finishing" /\ srv' = IF srv = "up" THEN "finishing" ELSE srv
            /\ fpc' = "waiting"
            /\ UNCHANGED <<ss, tries, audioQueue, sender, reader, accepted, sent, handled>>
       [] ps = "completed" ->
            /\ fpc' = "reading"
            /\ UNCHANGED <<ss, tries, audioQueue, sender, reader, accepted, sent, handled, ps, srv>>
       [] OTHER -> FinishRaises /\ UNCHANGED <<ps, srv>>
  /\ UNCHANGED <<open, signal, events, log, wire, said>>

FinishSignalled ==
  /\ fpc = "waiting" /\ signal # "none"
  /\ IF signal = "ok"
     THEN fpc' = "reading" /\ UNCHANGED <<ss, tries, audioQueue, sender, reader, accepted, sent, handled>>
     ELSE FinishRaises
  /\ open' = FALSE
  /\ UNCHANGED <<ps, signal, events, log, wire, srv, said>>

FinishTimesOut ==
  /\ fpc = "waiting" /\ signal = "none"
  /\ FinishRaises /\ PublishFailure
  /\ open' = FALSE
  /\ UNCHANGED <<wire, srv, said>>

EventsRead ==
  /\ fpc = "reading" /\ reader \in {"ok", "failed"}
  /\ IF reader = "ok"
     THEN /\ ss' = "completed" /\ fpc' = "none"
          /\ UNCHANGED <<tries, audioQueue, sender, reader, accepted, sent, handled>>
     ELSE FinishRaises
  /\ UNCHANGED providerSide

\* aclose, after an error or at any moment of a cancelled caller.
SpeechClose ==
  /\ ss \notin {"idle", "starting", "closed"}
  /\ sender' = IF sender \in {"idle", "sending"} THEN "cancelled" ELSE sender
  /\ reader' = IF reader = "on" THEN "cancelled" ELSE reader
  /\ ss' = IF ss = "completed" THEN ss ELSE "closed"
  /\ ps' = IF ps \in {"completed", "failed"} THEN ps ELSE "closed"
  /\ fpc' = IF fpc = "none" THEN "none" ELSE "raised"
  /\ open' = FALSE
  /\ UNCHANGED <<tries, audioQueue, accepted, sent, handled, signal, events, log, wire, srv, said>>

SpeechStep ==
  \/ SpeechStart \/ Connected \/ Started \/ ReceiveStarted \/ ReceiveResult \/ ReceiveFinished
  \/ ReceiveFailure \/ SenderTakes \/ SenderSends \/ ReadEvent \/ PutStop \/ SenderDrained
  \/ AskFinish \/ FinishSignalled \/ FinishTimesOut \/ EventsRead

SpeechNext ==
  \/ SpeechStep
  \/ StartAttemptFails \/ ServerStarts \/ ServerResult \/ ServerFinishes \/ ServerEnds
  \/ SendFrame \/ SendBreaks \/ HandlerRaises \/ FinishBegins \/ SpeechClose

\* The tasks of the session run and its waits time out; the remote task owes nothing.
SpeechFairness == WF_speechVars(SpeechStep)

SpeechSpec == SpeechInit /\ [][SpeechNext]_speechVars /\ SpeechFairness

-----------------------------------------------------------------------------
\* A session that completed lost nothing: every chunk the queue accepted went into
\* the socket before the remote task was asked to finish, every result the remote task
\* gave was handled, and the stream's end was seen as its completion.
CompletedMeansAll ==
  ss = "completed" => /\ sent = accepted /\ handled = said
                      /\ log # <<>> /\ log[Len(log)] = "completed"

\* finish always comes back, whatever the remote task does.
FinishReturns == (fpc = "draining") ~> (fpc \in {"none", "raised"})

=============================================================================

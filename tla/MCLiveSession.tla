---------------------------- MODULE MCLiveSession ----------------------------
(***************************************************************************)
(* The way of the captions: the session with its worker and its input, the *)
(* provider session inside the worker and the projection of the captions   *)
(* to media events.  They are checked in one run; a behaviour follows one  *)
(* of them.                                                                *)
(***************************************************************************)
EXTENDS LiveSession, SpeechSession, MediaBridge

VARIABLE part

captionVars == <<part, liveVars, speechVars, mediaVars>>

CaptionsInit ==
  /\ part \in {"live", "speech", "media"}
  /\ LiveInit /\ SpeechInit /\ MediaInit
  /\ part # "live" => kind = CHOOSE k \in Kinds : TRUE
  /\ part # "media" => older = 0

Captioned(A) == part = "live" /\ A /\ UNCHANGED <<part, speechVars, mediaVars>>

Spoken(A) == part = "speech" /\ A /\ UNCHANGED <<part, liveVars, mediaVars>>

Bridging(A) == part = "media" /\ A /\ UNCHANGED <<part, liveVars, speechVars>>

CaptionsNext == Captioned(LiveNext) \/ Spoken(SpeechNext) \/ Bridging(MediaNext)

\* As a behaviour follows one component, the condition of each can be joined.
CaptionsSpec ==
  /\ CaptionsInit /\ [][CaptionsNext]_captionVars
  /\ WF_captionVars(Captioned(LiveMoves) \/ Spoken(SpeechStep) \/ Bridging(Projecting))

\* On the way of the captions nothing is lost to another writer or another failure: the
\* session is settled as LiveSafe says, and the bridge projects every revision it reads
\* once, with its offsets behind its events, although it commits them apart.
CaptionsSafe == LiveSafe /\ ProjectedOnce /\ OffsetsBehindEvents

\* An HLS input with translation, and a browser's track in the transport-only mode.
mcKinds ==
  {[hls |-> TRUE, translated |-> TRUE, transport |-> FALSE],
   [hls |-> FALSE, translated |-> FALSE, transport |-> TRUE]}

\* One segment; its last revision competes with the end of the session for a batch.
mcCaptions == <<"s1">>

=============================================================================

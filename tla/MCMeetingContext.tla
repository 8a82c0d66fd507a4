------------------------- MODULE MCMeetingContext -------------------------
(***************************************************************************)
(* MeetingContext with two captions, the second of which is analysed late. *)
(***************************************************************************)
EXTENDS MeetingContext

mcTextSize == <<<<1, 3>>, <<1>>>>
mcOverlap == <<1, 0>>
mcRevisions == <<2, 1>>

=============================================================================

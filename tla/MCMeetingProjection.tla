------------------------ MODULE MCMeetingProjection ------------------------
(***************************************************************************)
(* MeetingProjection with one or two sessions and one or two captions.     *)
(***************************************************************************)
EXTENDS MeetingProjection

CONSTANTS s1, s2, g1, g2, w1, w2

NothingInvalid == {}
SecondInvalid == {<<g1, 2>>}
=============================================================================

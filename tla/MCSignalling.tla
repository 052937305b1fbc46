---------------------------- MODULE MCSignalling ----------------------------
(* Two browsers, one of which the media server calls from the conference;  *)
(* or a single one that it calls from the conference and from the group.   *)
EXTENDS Signalling

CalledInConference == {<<"p1", "peer">>}
CalledInBoth == Services
=============================================================================

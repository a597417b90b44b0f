---------------------------- MODULE MCParticipant ----------------------------
(* Two keys, two values and two transaction ids: a DEL may meet one present and
   one absent key, a SET may insert or overwrite, and a message may carry the
   participant's id or another one. *)
EXTENDS Participant

CONSTANTS k1, k2, v1, v2

MCKeys == {k1, k2}
MCValues == {v1, v2}
MCIds == {1, 2}
=============================================================================

---------------------------- MODULE MCMeasurement ----------------------------
(* A small shop for TLC: each tick is a release that changes the panel, to
   one that repeats its query, and then to one that is truncated. *)
EXTENDS UpliftVerifier

CONSTANTS us, rival

ThreeReleases == <<<<"q1">>, <<"q2", "q2">>, <<"q2", "q1", "q3">>>>

TwoAnswers == {{us}, {rival}}

\* The extractor names everybody, whatever the answer says.
Everyone == {{us, rival}}

=============================================================================

---------------------------- MODULE MCFieldWork ----------------------------
(* TLC model of the field workflow: two areas, and handlers that no        *)
(* operator tells apart.                                                   *)
EXTENDS FieldWork, TLC

TwoAreas == <<"hall", "bath">>
HandlerSymmetry == Permutations(Handlers)
============================================================================

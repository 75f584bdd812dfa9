---------------------------- MODULE MCLlmBreaker ----------------------------
(* Instances of LlmBreaker for TLC.                                        *)
EXTENDS LlmBreaker

CONSTANTS c1, c2

OneCall == {c1}
TwoCalls == {c1, c2}
=============================================================================

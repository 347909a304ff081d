----------------------------- MODULE MCFAQSync ------------------------------
(***************************************************************************)
(* Two questions. The files: both questions; one of them, with another     *)
(* answer; the other one twice; nothing.                                   *)
(***************************************************************************)
EXTENDS FAQSync

Ask(q, r) == [question |-> q, response |-> r]
MCFiles == {<<>>, <<Ask("a", 1), Ask("b", 1)>>, <<Ask("b", 2)>>, <<Ask("a", 1), Ask("a", 2)>>}

=============================================================================

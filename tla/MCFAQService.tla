---------------------------- MODULE MCFAQService ----------------------------
(***************************************************************************)
(* A question of a viewer's, which one entry matches, and one of the bot's *)
(* own, which HandleChat does not fork and two entries match.              *)
(***************************************************************************)
EXTENDS FAQService

MCLines == {[user |-> "viewer", matches |-> <<"discord">>, forked |-> TRUE],
            [user |-> "Pedro_el_asistente", matches |-> <<"discord", "social">>, forked |-> FALSE]}

=============================================================================

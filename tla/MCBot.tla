------------------------------- MODULE MCBot --------------------------------
(***************************************************************************)
(* Chat and FAQ, everything, and moderation with Mem Palace where there is *)
(* no TWITCH_ID, which leaves Mem Palace without a client of Helix.        *)
(***************************************************************************)
EXTENDS Bot

MCFlags == {[moderation |-> FALSE, faq |-> TRUE, palace |-> FALSE, twitchID |-> TRUE],
            [moderation |-> TRUE, faq |-> TRUE, palace |-> TRUE, twitchID |-> TRUE],
            [moderation |-> TRUE, faq |-> FALSE, palace |-> TRUE, twitchID |-> FALSE]}

=============================================================================

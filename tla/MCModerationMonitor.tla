------------------------ MODULE MCModerationMonitor -------------------------
(***************************************************************************)
(* A viewer whose messages may be suspect or not, the streamer, who is     *)
(* exempt, and three configurations: no whitelist, one that excludes what  *)
(* the LLM may answer with, and a dry run.                                 *)
(***************************************************************************)
EXTENDS ModerationMonitor

MCChat == {[user |-> "viewer", suspect |-> TRUE],
           [user |-> "viewer", suspect |-> FALSE],
           [user |-> "soypetetech", suspect |-> TRUE]}

MCConfigs == {[allowed |-> {}, dryRun |-> FALSE],
              [allowed |-> {"no_action", "warn_user"}, dryRun |-> FALSE],
              [allowed |-> {}, dryRun |-> TRUE]}

=============================================================================

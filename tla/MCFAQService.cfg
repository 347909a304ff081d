CONSTANTS
  Faqs = {"discord", "social"}
  NoFaq = NoFaq
  Users = {"viewer", "Pedro_el_asistente"}
  Lines <- MCLines
  Cooldown = 1
  ResponseCap = 1
  MaxConnections = 2
  MaxMessages = 2
  MaxTime = 2
SPECIFICATION FairSpec
INVARIANTS TypeOK TriggersAgree
PROPERTIES CooldownOutsideOverlap MatchedIsAnswered
CHECK_DEADLOCK FALSE

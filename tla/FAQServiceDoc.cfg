CONSTANTS
  Faqs = {"discord", "social"}
  NoFaq = NoFaq
  Users = {"viewer", "Pedro_el_asistente"}
  Lines <- MCLines
  Cooldown = 1
  ResponseCap = 1
  MaxConnections = 1
  MaxMessages = 1
  MaxTime = 1
SPECIFICATION FairSpec
PROPERTY OneTriggerPerCooldown
CHECK_DEADLOCK FALSE

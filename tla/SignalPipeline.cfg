CONSTANTS
  Loop = "loop"
  Desk = "desk"
  Docs = {d1, d2}
  Tiers = {"low", "high"}
  Cooldown <- MCCooldown
  Interval = 2
  Prices = {p1, p2}
SPECIFICATION FairSpec
PROPERTIES CooldownKept Settles
CHECK_DEADLOCK FALSE

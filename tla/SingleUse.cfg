CONSTANTS
  Procs = {p1, p2}
  Attempts = {a1, a2, a3}
  Intents = {"x"}
  Nonces = {n1}
  Nobody = Nobody
  NoToken = NoToken
  BadToken = BadToken
  Unread = Unread
  AllowReview = FALSE
  MaxTtl = 2
  Skew = 1
  TtlChoices = {2}
  AheadChoices = {0}
  MaxTime = 0
SYMMETRY Symmetry
SPECIFICATION Spec
PROPERTY SpentTokenIsNeverSent

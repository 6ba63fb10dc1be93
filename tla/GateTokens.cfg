CONSTANTS
  Procs = {p1, p2}
  Attempts = {a1, a2}
  Intents = {"x", "y"}
  Nonces = {n1}
  Nobody = Nobody
  NoToken = NoToken
  BadToken = BadToken
  Unread = Unread
  AllowReview = FALSE
  MaxTtl = 2
  Skew = 1
  TtlChoices = {2, 3}
  AheadChoices = {0, 2}
  MaxTime = 2
SYMMETRY Symmetry
SPECIFICATION Spec
INVARIANTS TypeOK OnlyApprovedIsSent LogMatchesOutcomes
PROPERTIES NoReplayByProcess

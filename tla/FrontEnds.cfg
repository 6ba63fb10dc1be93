CONSTANTS
  Procs = {srv, cmd}
  Servers = {srv}
  Attempts = {a1, a2}
  Intents = {"x"}
  Nonces = {n1}
  Nobody = Nobody
  NoToken = NoToken
  BadToken = BadToken
  Unread = Unread
  AllowReview = FALSE
  MaxTtl = 1
  Skew = 0
  TtlChoices = {1}
  AheadChoices = {0}
  MaxTime = 0
  srv = srv
  cmd = cmd
  a1 = a1
  a2 = a2
  Requests <- MCRequests
  Secrets = {"s1", "s2"}
  ApproverSecret = "s1"
  Setups <- MCSetups
SPECIFICATION FairFrontSpec
INVARIANTS AnswersAreTrue OnlySharedSecretPays
PROPERTIES LaunchForgetsNothing EveryRequestAnswered
CHECK_DEADLOCK FALSE

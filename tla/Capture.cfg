\* Two people, a terminal that is released, revoked and released again.
CONSTANTS
  p1 = p1
  p2 = p2
  Null = Null
  People = {p1, p2}
  LivenessFrames = 2
  MatchFrames = 2
  MissingFrames = 2
  MaxTimers = 1
  Regimes = {"calm", "free"}
SPECIFICATION FairSpec
PROPERTY ProvenBeforeSent
PROPERTY SentIsAnswered
PROPERTY OutcomePasses
PROPERTY CameraGoesOff

SPECIFICATION Spec
CONSTANTS
  Users = {1, 2, 3}
  Machines = {m1, m2}
  None = None
  MinVoters = 1
  MaxVotes = 2
  MaxVotesPerVoter = 1
  Bias <- NoBias
  StartDecay = 0
  Timeout = 0
  TimeoutPerVoter = 0
  MaxPolls = 2
  MaxLogins = 3
  MaxAge = 1
INVARIANTS TypeOK OneVoteEach VotersArePresent AcceptedByMajority
PROPERTIES ImplementsPolls
SYMMETRY Symmetry
CONSTRAINT OneSpectator

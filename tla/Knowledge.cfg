\* A service over the fleet, or over the catalog of an engine, and a client that declares.
SPECIFICATION Spec
CONSTANTS
  IllFormed = {"agent.My_Agent"}
  Alphabetical <- MCAlphabetical
  Agents = {"agent.email", "agent.mystery", "agent.My_Agent"}
  Curated = {"agent.email"}
  Disks <- MCDisks
  Candidates <- MCCandidates
  Scorable = {"agent.email", "m.model", "m.tools", "m.cache"}
  MaxEntries = 3
  MaxChanges = 1
  MaxScore = 2
CHECK_DEADLOCK FALSE
INVARIANTS
  FleetIsServed
  RulesAreKept
  EveryValueIsUsable
  MatchesAreTheBest
PROPERTIES
  WithdrawalsOnlyUnmeet

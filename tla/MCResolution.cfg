SPECIFICATION FairSpec
CHECK_DEADLOCK FALSE
CONSTANTS
  Clients = {"c1", "c2"}
  Names <- MCNames
  Resolvers <- MCResolvers
  Globs <- MCGlobs
  Matches <- MCMatches
  Extended <- MCExtended
  Leaves <- MCLeaves
  Local = {"hosts", "zone"}
  Zones = {"zone"}
  Records <- MCRecords
  ZoneRecord <- MCZoneRecord
  Knows <- MCKnows
  Alias <- MCAlias
  NoName = NoName
  Settings <- MCSettings
 
INVARIANT AnswersOwnQuestion
INVARIANT NoForeignAnswer
 
PROPERTY EveryRequestEnds

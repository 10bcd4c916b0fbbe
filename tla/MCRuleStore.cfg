CONSTANTS
  Lists <- MCLists
  AllowLists = {"a1"}
  Domains <- MCDomains
  DomainList <- MCDomainList
  ComplexRules = {"*y"}
  IsMatch <- MCIsMatch
  ToLower <- MCToLower
  Rank <- MCRank
  Bits <- MCBits
  Settings <- MCSettings
SPECIFICATION FairSpec
CHECK_DEADLOCK FALSE
INVARIANTS  UnaffectedExact 
 

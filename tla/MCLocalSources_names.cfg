SPECIFICATION Spec
CONSTANTS
  Names <- MCNames
  Lower <- MCLower
  Fqdn <- MCFqdn
  Patterns <- MCPatterns
  Globs <- MCGlobs
  Addresses <- MCAddresses
  IPv4 = {"v4"}
  Reverse <- MCReverse
  Servers = {"s1", "s2", "lo"}
  LocalServers = {"lo"}
  Knows <- MCKnows
  Missing = Missing
  Broken = Broken
  Nothing = Nothing
  Settings <- ZoneSettings
INVARIANT RepliesNameTheQuestion

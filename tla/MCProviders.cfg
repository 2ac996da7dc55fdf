SPECIFICATION FairSpec
CONSTANTS
  h1 = h1
  h2 = h2
  h3 = h3
  p = p
  q = q
  Hosts <- AllHosts
  Paths = {p, q}
  URLs <- Names
  Unsendable <- Bad
  Versions = {1, 2}
  DomainsOf <- Domains
  Kinds = {"fastly", "fastly_all", "cloudfront"}
  Concurrency = 2
  MaxPurges = 2
  MaxChanges = 1
INVARIANTS
  TypeOK
  ServedHostsArePurged
  TerminalMeansRefused
PROPERTIES
  ImplementsContract
  PurgeReturns

\* One site, two members, two alerts at most, two attempts per email, one crash or
\* one refused mark.
SPECIFICATION MCSpec
CONSTANTS
  hsts = hsts
  env = env
  wordpress = wordpress
  plugin = plugin
  cve1 = cve1
  cve2 = cve2
  Members <- MCMembers
  News = {hsts, env, cve1, cve2}
  MaxAttempts = 2
  Batch = 1
  MaxEmails = 4
  MaxCrashes = 1
  MaxFaults = 1
  Issues = {hsts, env}
  CheckOf <- MCCheckOf
  Top = 2
  Products = {wordpress, plugin}
  Cves = {cve1, cve2}
  Named <- MCNamed
  CpeMatches <- MCCpeMatches
  Version <- MCVersion
INVARIANTS
  DeliveriesBounded
  AlertCoversSnapshot
  AlertedOnce
  CveAccounted
  RangesAgree
PROPERTY EmailSettles
\* The bounded slices end: no attempt, crash or change is left.
CHECK_DEADLOCK FALSE

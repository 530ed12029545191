\* One site that does not change, two members, no crash.
SPECIFICATION QuietSpec
CONSTANTS
  hsts = hsts
  env = env
  wordpress = wordpress
  plugin = plugin
  cve1 = cve1
  cve2 = cve2
  Members <- MCMembers
  News = {hsts, env, cve1, cve2}
  MaxAttempts = 2
  Batch = 1
  MaxEmails = 4
  MaxCrashes = 0
  MaxFaults = 0
  Issues = {hsts, env}
  CheckOf <- MCCheckOf
  Top = 2
  Products = {wordpress, plugin}
  Cves = {cve1, cve2}
  Named <- MCNamed
  CpeMatches <- MCCpeMatches
  Version <- MCVersion
INVARIANT AlertsAreNews

\* One organisation, three webhooks, one crash; one site with its scan, or two sites.
SPECIFICATION MCSpec
CONSTANTS
  org1 = org1
  s1 = s1
  s2 = s2
  alice = alice
  Orgs = {org1}
  Sites = {s1, s2}
  SiteOrg <- MCSiteOrg
  Payloads <- MCPayloads
  Usernames = {alice, bob}
  Paths = {logout}
  MaxCrashes = 1
  None = None
INVARIANTS
  ScanTypeOK
  JobsFollowPlan
  WebhookAppliedOnce
PROPERTIES
  RemovalTakesCredentials
  LoginIsCurrent
  ExclusionsKept

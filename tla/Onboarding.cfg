SPECIFICATION OnboardingSpec
CONSTANTS
  Keys = {1, 2}
  Files <- MCFiles
  Uploaders = {1, 2}
  MaxMediaFaults = 1
  Scans <- MCScans
  Docs = {1, 2}
  Reviewers = {v1, v2}
  MaxDecisions = 3
  Accounts = {1, 2}
  Connectors = {c1, c2}
  MaxChanges = 2
  MaxConnectFaults = 1
  Tenants = {1, 2}
  Rows = {r1, r2}
  Visitors = {w1, w2}
  Limit = 3
  MaxDocuments = 6
  MaxVisits = 3
CHECK_DEADLOCK FALSE
INVARIANTS FilesAndTypes ReviewsHold AccountHolds TenantsApart LeadReaches
PROPERTIES VerifiedAfterReviews RowsKeepTenant

SPECIFICATION FairSpec
CONSTANTS
  Threads = {t1, t2}
  Scrapers = {c1, c2}
  Operations = {"submit"}
  MaxRequests = 3
  MaxCrashes = 1
INVARIANTS
  TypeOK
  GatewayBrackets
  ScrapeAccounts
PROPERTIES
  ScrapesServed

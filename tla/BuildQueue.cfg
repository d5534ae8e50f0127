CONSTANTS
  r1 = r1
  r2 = r2
  site = site
  app = app
  preview = preview
  Nobody = Nobody
  Replicas = {r1, r2}
  Sites = {site}
  Apps = {app}
  Previews = {preview}
  SiteOf <- TheSite
  Slots = 2
  SiteCap = 2
  PreviewCap = 1
  AppCap = 1
  MaxSpoolRequeues = 1
  MaxAttempts = 2
  LateReplica = FALSE
  MaxBuilds = 2
  MaxCommits = 1
  MaxFaults = 1
SPECIFICATION FairSpec
INVARIANTS TypeOK OneWaiting
PROPERTIES BuildEnds NewerStands OutcomeStands
CHECK_DEADLOCK FALSE

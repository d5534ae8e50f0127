CONSTANTS
  r1 = r1
  site = site
  Nobody = Nobody
  Replicas = {r1}
  Sites = {site}
  Apps = {}
  Previews = {}
  SiteOf <- TheSite
  Slots = 1
  SiteCap = 1
  PreviewCap = 1
  AppCap = 1
  MaxSpoolRequeues = 1
  MaxAttempts = 1
  LateReplica = FALSE
  MaxBuilds = 2
  MaxCommits = 2
  MaxFaults = 0
SPECIFICATION Spec
PROPERTIES SupersededByNewer
CHECK_DEADLOCK FALSE

SPECIFICATION Spec
CONSTANTS
  Routes <- SiteRoutes
  Dirs <- SiteDirs
  ReadOnly <- SiteReadOnly
  Locked <- SiteLocked
  Requests <- MCRequests
  Sites <- MCSites
  Sessions = {1}
  ErrorPages <- MCErrorPages
  GeneratedNames = {"new"}
  Listing = Listing
  ScriptOutput = ScriptOutput
INVARIANTS HeadersFitThePage ErrorPagesHaveARoot
PROPERTIES AnswersStandAlone ConnectionIsAsAnnounced DiskFollowsTheAnswer FormIsStored UploadIsServed

\* docsctl is not told the module: the links between pages keep the placeholder.
SPECIFICATION Spec
CONSTANTS
  r1 = r1
  None = none
  Slug <- MCSlug
  MountSlug <- MCMountSlug
  Dotted <- MCDotted
  MaxChunks = 4
  Repos <- MCUntoldRepos
  Modules <- MCUntoldModules
  Version <- MCVersion
  MaxDeploys = 1
  Read = {r1}
  ReadDoc <- MCReadDoc
  Durations = {1}
  Requests <- MCRequests
  Answers <- MCAnswers
  TopK = {0, 2}
  ChunkSettings <- MCChunkSettings
PROPERTY LinksResolve
CHECK_DEADLOCK FALSE

\* Seven repositories, both mounts, two versions, one read whose page is replaced.
SPECIFICATION Spec
CONSTANTS
  r1 = r1
  None = none
  Slug <- MCSlug
  MountSlug <- MCMountSlug
  Dotted <- MCDotted
  MaxChunks = 4
  Repos <- MCRepos
  Modules <- MCModules
  Version <- MCVersion
  MaxDeploys = 2
  Read = {r1}
  ReadDoc <- MCReadDoc
  Durations = {1, 2}
  Requests <- MCRequests
  Answers <- MCAnswers
  TopK = {0, 2}
  ChunkSettings <- MCChunkSettings
INVARIANTS CountedOnce 
PROPERTIES ReferencesLead FoundOnce ChunksCover ReadsKept
CHECK_DEADLOCK FALSE

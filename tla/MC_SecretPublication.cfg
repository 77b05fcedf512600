SPECIFICATION Spec
CONSTANTS
  Targets <- MCTargets
  FilesOf <- MCFilesOf
  MaxVersion = 2
INVARIANTS
  OneVersion
  OkMeansPublished

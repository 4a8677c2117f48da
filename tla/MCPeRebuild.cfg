SPECIFICATION RebuildSpec
CONSTANTS
  Files <- MCFiles
  MaxCandidates = 3
INVARIANTS
  OutputIsPlain
  RightCandidateIsFound
  HeaderMatchesImage

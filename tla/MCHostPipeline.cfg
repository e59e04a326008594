SPECIFICATION PipelineSpec
CONSTANTS
  Count <- ContentCount
  HasTerms <- ContentHasTerms
  Attempts <- MCAttempts
  Raises = Raises
  RaisesError = Raises
  Requests <- MCRequests
  Builtin <- BuiltinIds
  t = t
  custom = custom
  miscounting = miscounting
  unknown = unknown
  Custom = {custom, miscounting}
  Honest = {custom}
  Unknown = {unknown}
  Lossless <- LosslessIds
  MaxSteps = 3
  Item <- MCItem
  NoGroup = NoGroup
  SimilarItems <- MCSimilarItems
  Protected = {1}
  Overrides <- MCOverrides
  SummarySizes = {2, 5}
  ReferenceSize = 3
INVARIANTS
  ResultSound
  NothingLostSilently
  BoundaryMeetsTarget
CHECK_DEADLOCK FALSE

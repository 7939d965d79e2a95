SPECIFICATION Spec
CONSTANTS
  Events <- MCEvents
  MaxRecoVertices = 2
  MaxHpcLayers = 3
  Kinds = {"absent", "neutral", "charged", "forward", "degenerate", "untracked"}
  FewKinds = {"absent", "neutral", "charged"}
INVARIANTS
  TypeOK
  MapsAgree
  ColumnsAlign
  TracksCarryTheirOwn
  RowsNameTheirParticle
  VerticesOwnTheirs
  ClustersCarryTheirOwn
  TagsReachTheirState
  FrameIsConsistent

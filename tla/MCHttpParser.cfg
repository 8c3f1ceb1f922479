CONSTANTS
  Words <- MCWords
  Inputs <- MCInputs
  BufferSize = 15
  BodyLength = 3
SPECIFICATION FairSpec
INVARIANTS
  TypeOK
  ScanOrder
  ChunkingIrrelevant
PROPERTY RequestAnswered

CONSTANTS
  Words <- MCWords
  Inputs <- MCInputs
  BufferSize = 15
  BodyLength = 3
SPECIFICATION Spec
INVARIANT BodyFromItsStart

SPECIFICATION ReleaseSpec
CONSTANTS
  Releases = {r1}
  None = None
  MaxText = 2
  MaxElsewhere = 1
PROPERTY WithdrawnKeepsBlock
CHECK_DEADLOCK FALSE

SPECIFICATION Spec
CONSTANTS
  Top = 4
  ImageSize = 2
  MaxSources = 2
  MaxFlows = 1
  MaxRanges = 3
  MaxLabels = 1
  Sizes = {0, 1, 2}
PROPERTY ImplementsLabels

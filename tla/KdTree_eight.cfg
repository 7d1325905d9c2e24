\* Every point of the sphere is clicked once.
SPECIFICATION KdTreeSpec
CONSTANTS
  Markers <- EightMarkers
  Counts = {8}
  Targets <- Globe
  Limits = {}
  Infinity = 1000
INVARIANT NearestFound
\* A search ends.
CHECK_DEADLOCK FALSE

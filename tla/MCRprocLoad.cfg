SPECIFICATION Spec
CONSTANTS
  SEGMENTS = 4
  Images <- MCImages
  Windows = {0, 1, 2, 7}
  FetchResults = {"ok", "short", "negative"}
  TableResults = {"table", "nomem"}
INVARIANTS SegmentsOnce TableFound 
PROPERTIES LoadEnds

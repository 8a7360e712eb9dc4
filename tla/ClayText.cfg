SPECIFICATION Spec
CONSTANTS
  WordCap = 7
  ItemCap = 6
  LineCap = 5
  Buckets = {0, 1}
  BucketOf <- MCBucket
  Glyph = 1200
  Spacing = 400
  Line = 1600
  Eps = 4
  Huge = 100000000
  Programs <- MCPrograms
INVARIANTS CacheSpells PlacesKept RoomShared SharedLevel LinesTile HeightHolds LayoutEnds
CHECK_DEADLOCK FALSE

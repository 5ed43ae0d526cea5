SPECIFICATION Spec
CONSTANTS
  first = first
  second = second
  new = new
  newer = newer
  up1 = up1
  up2 = up2
  away = away
  gone = gone
  Images = {first, second, new, newer}
  Present = {first, second}
  Uploads = {up1, up2}
  Removals = {away, gone}
  Reorderings = {ro}
  ImageOf <- MCImageOf
  MaxRequests = 4
  MaxLost = 1
CHECK_DEADLOCK FALSE
INVARIANTS
  GalleryIsConsistent
  AssetsFollowRows

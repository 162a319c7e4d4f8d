SPECIFICATION Spec
CONSTANTS
  Uploads = {u1, u2, u3, u4}
  Exts = {jpg, png}
  MaxPhotos = 2
  MaxClock = 2
INVARIANTS
  PhotosBounded
  RowsHavePhotos
  PreviewsShowTheirPhoto
SYMMETRY Interchangeable
CHECK_DEADLOCK FALSE

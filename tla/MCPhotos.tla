-------------------------------- MODULE MCPhotos -------------------------------
EXTENDS Photos, TLC

\* The uploads are interchangeable: no property tells them apart.
Interchangeable == Permutations(Uploads)
=============================================================================

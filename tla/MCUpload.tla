------------------------------ MODULE MCUpload ------------------------------
(* Upload for TLC: content below the threshold, of one chunk, of two chunks *)
(* and of three chunks of which the last is short.                          *)
EXTENDS Upload
ContentSizes == {1, 2, 4, 5}
=============================================================================

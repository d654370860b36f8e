--------------------------- MODULE MCCaptureUpload ---------------------------
(* Small instances of CaptureUpload for TLC.                               *)
EXTENDS CaptureUpload, TLC

\* Requests are interchangeable, and so are the kinds and the images, which are
\* only compared.
Symmetry == Permutations(Requests) \cup Permutations(Kinds) \cup Permutations(Images)

=============================================================================

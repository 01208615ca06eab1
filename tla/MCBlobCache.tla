----------------------------- MODULE MCBlobCache -----------------------------
(* Three elements: two files with one blob, and a symbolic link with       *)
(* another.                                                                *)
EXTENDS BlobCache, TLC

CONSTANTS f1, f2, ln, b1, b2

MCElements == {f1, f2, ln}
MCBlobs == {b1, b2}
MCSymlinks == {ln}
MCSha == f1 :> b1 @@ f2 :> b1 @@ ln :> b2
NoElements == {}
MCNoBlobs == {}
MCEmptyThird == {b2}
=============================================================================

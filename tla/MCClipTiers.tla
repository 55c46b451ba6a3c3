---------------------------- MODULE MCClipTiers ----------------------------
(* ClipTiers with the clips of one camera, for checking with TLC.          *)
EXTENDS ClipTiers

OneCamera == [c \in Clip |-> 1]
=============================================================================

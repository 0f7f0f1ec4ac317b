----------------------------- MODULE MCOverlay -----------------------------
(* The overlay under TLC: one frame size fits the video, the others are    *)
(* shorter, longer, narrower or wider.                                     *)
EXTENDS OverlayProperties
MCGeometries == {<<4, 2>>, <<3, 1>>, <<4, 3>>, <<6, 2>>}
=============================================================================

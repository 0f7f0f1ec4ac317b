----------------------------- MODULE MCPicture -----------------------------
(* Pictures under TLC: a row of two sliding layers and two static layers.  *)
EXTENDS PictureProperties
MCHeightOf == [w \in {8, 12} |-> 4]
MCChars == <<1, 2, 1>>
MCInk == <<{<<0, 0>>, <<1, 1>>, <<2, 3>>}, {<<0, 2>>, <<1, 4>>, <<1, 0>>}, {<<1, 1>>, <<0, 3>>}>>
MCTexts == [id : 0 .. MaxTexts, width : TextWidths \cup {0}]
=============================================================================

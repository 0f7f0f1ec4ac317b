----------------------------- MODULE MCDanmaku -----------------------------
(* Model values for TLC: the texts that MaxTexts and TextWidths allow. *)
EXTENDS DanmakuProperties

MCTexts == [id : 0 .. MaxTexts, width : TextWidths \cup {0}]
=============================================================================

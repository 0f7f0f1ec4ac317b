------------------------------ MODULE MCMemory ------------------------------
(* The memory under TLC: once with sizes so small that it fills up and     *)
(* addresses wrap around, once with those of the program.                  *)
EXTENDS MemoryProperties
MCSmall == {<<8, 8>>, <<12, 4>>, <<12, 8>>, <<10, 8>>, <<16, 4>>, <<4, 12>>}
MCStarts == {0, 6, 90, 240, 1000}
MCVideos == {<<1280, 720>>, <<1920, 1080>>, <<1366, 768>>, <<1920, 1200>>}
MCZero == {0}
=============================================================================

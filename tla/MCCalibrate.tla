----------------------------- MODULE MCCalibrate -----------------------------
(* Argument lists for Calibrate: none, options alone, and options with words. *)
EXTENDS Calibrate
ArgLists == {<<>>, <<"-h">>, <<"-t">>, <<"-t", "word">>, <<"-c", "-t", "word">>}
==============================================================================

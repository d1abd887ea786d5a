--------------------------- MODULE MCAcquisition ---------------------------
(* One logger with two log files, the second of two columns, sent together *)
(* or the first once more while that request is still at work, and a       *)
(* configuration file for the meter of the first column.                   *)
EXTENDS Acquisition

CONSTANTS f1, f2, c1, s1, r1, r2

MCWidth(f) == IF f = f2 THEN 2 ELSE 1
MCDescribed(c) == {<<s1, 0>>}
MCSerial(f) == s1
MCBundles(s) == IF s = r1 THEN {<<f1, f2>>} ELSE {<<f1>>}
MCMessages == Blames
=============================================================================

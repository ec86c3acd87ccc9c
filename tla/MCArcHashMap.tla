---------------------------- MODULE MCArcHashMap ----------------------------
(* Model-checking instance of ArcHashMap: three threads contending on two  *)
(* keys, with three allocation Ids so that a freed Id is reused while a    *)
(* live one still exists.                                                  *)
EXTENDS ArcHashMap, TLC

CONSTANTS t1, t2, t3, k1, k2, i1, i2, i3

MCThreads == {t1, t2, t3}
MCKeys == {k1, k2}
MCIds == {i1, i2, i3}


=============================================================================

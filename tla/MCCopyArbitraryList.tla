------------------------- MODULE MCCopyArbitraryList -------------------------
(* Model-checking instance of CopyArbitraryList: lists of up to MaxLen     *)
(* nodes over two data values, every arbiNode choice, built by any mix of *)
(* insert and append.                                                     *)
EXTENDS CopyArbitraryList

CONSTANTS d1, d2
MCValues == {d1, d2}
=============================================================================

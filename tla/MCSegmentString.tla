---------------------------- MODULE MCSegmentString ----------------------------
(* Model-checking instance of SegmentString: strings of up to four        *)
(* characters over two letters, every dictionary of words of one or two *)
(* characters, so three-word strings exist.                               *)
EXTENDS SegmentString

CONSTANTS a, b
MCAlphabet == {a, b}
=============================================================================

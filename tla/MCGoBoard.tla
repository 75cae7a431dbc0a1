------------------------------ MODULE MCGoBoard ------------------------------
(***************************************************************************)
(* TLC instances of GoBoard.                                               *)
(*                                                                         *)
(* MCInner is a part of a 7x7 board with columns A, B and the last one     *)
(* left empty.  It touches the bottom edge, and has room for captures of   *)
(* several stones, for suicide and for a capture by a stone without        *)
(* liberties of its own.  MCWhole is the whole board, column A included.   *)
(* The rules do not tell the colours apart.                                *)
(***************************************************************************)
EXTENDS GoBoard, TLC

MCInner == (3 .. Size - 1) \X (1 .. 3)
MCWhole == Goban

MCSymmetry == Permutations(Colors)
=============================================================================

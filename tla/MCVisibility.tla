---------------------------- MODULE MCVisibility ----------------------------
(* A small instance of Visibility.                                         *)
EXTENDS Visibility
CONSTANTS u1, o1
=============================================================================

---------------------------- MODULE MCMobileChat ----------------------------
(* The instance of MobileChat for TLC: its constants are model values and  *)
(* numbers, given by the configurations.                                   *)
EXTENDS MobileChat
=============================================================================

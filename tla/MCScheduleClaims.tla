---------------------------- MODULE MCScheduleClaims ----------------------------
(***************************************************************************)
(* Instances of ScheduleClaims for TLC.                                    *)
(***************************************************************************)
EXTENDS ScheduleClaims

CONSTANTS e1, e2

=============================================================================

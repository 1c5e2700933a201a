---------------------------- MODULE MCAuthService ----------------------------
(***************************************************************************)
(* AuthService for TLC.  Processes are interchangeable in every action and *)
(* property, and so are users and devices; the runs that check safety only *)
(* use that.                                                               *)
(***************************************************************************)
EXTENDS AuthService, TLC

Symmetry == Permutations(Process) \cup Permutations(User) \cup Permutations(Device)

==============================================================================

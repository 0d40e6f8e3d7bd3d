---------------------------- MODULE MCRefreshToken ----------------------------
(***************************************************************************)
(* Small instances of RefreshToken for TLC.                                *)
(***************************************************************************)
EXTENDS RefreshToken, TLC

(* ann signs in locally and stays signed in; bob comes from a provider, with a
   second factor, for the session of his browser. *)
MCUsers == {[profile |-> "ann", session |-> FALSE, mfa |-> FALSE],
            [profile |-> "bob", session |-> TRUE, mfa |-> TRUE]}
Symmetry == Permutations(Requests)
===============================================================================

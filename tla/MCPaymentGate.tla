---------------------------- MODULE MCPaymentGate ----------------------------
(***************************************************************************)
(* Small instances of PaymentGate: two processes and one token, with two   *)
(* calls for one of two intents each, or three calls for one intent.  A     *)
(* unit of time stands for about the skew the agent tolerates; tokens are   *)
(* minted with a lifetime it accepts and one it does not, on time and too   *)
(* far ahead.                                                               *)
(***************************************************************************)
EXTENDS PaymentGate, TLC

Symmetry == Permutations(Attempts) \cup Permutations(Procs) \cup Permutations(Nonces)
=============================================================================

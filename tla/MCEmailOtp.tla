---------------------------- MODULE MCEmailOtp ----------------------------
(* EmailOtp for TLC: logins are interchangeable, and so are senders. *)
EXTENDS EmailOtp, TLC

Symmetry == Permutations(Logins) \cup Permutations(Senders)
=============================================================================

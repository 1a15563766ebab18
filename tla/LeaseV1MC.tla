----------------------------- MODULE LeaseV1MC -----------------------------
(* Model values for the checks of LeaseV1. *)
EXTENDS LeaseV1, TLC

CONSTANTS w1, w2

Before1(t, u) == t < u
=============================================================================

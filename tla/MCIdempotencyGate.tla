-------------------------- MODULE MCIdempotencyGate --------------------------
(* Instances of IdempotencyGate for TLC. *)
EXTENDS IdempotencyGate, TLC

CONSTANTS i1, i2, i3, b1, b2, u1, u2, k1, k2, k3, k4, ck, r1, r2

\* The same body by two users, and another body.
SharedBody == (i1 :> b1) @@ (i2 :> b1) @@ (i3 :> b2)
TwoUsers == (i1 :> u1) @@ (i2 :> u2) @@ (i3 :> u1)

OneBody == (i1 :> b1) @@ (i2 :> b1)
BothUsers == (i1 :> u1) @@ (i2 :> u2)

OwnBody == (i1 :> b1) @@ (i2 :> b2)
OneUser == (i1 :> u1) @@ (i2 :> u1)

===============================================================================

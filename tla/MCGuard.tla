------------------------------ MODULE MCGuard -------------------------------
(***************************************************************************)
(* Guard with two limited requests, one of them without a body, and one    *)
(* that passes through.                                                    *)
(***************************************************************************)
EXTENDS Guard, TLC

CONSTANTS a, b, c

MCRequest == {a, b, c}
MCLimited == {a, b}
MCWeight == (a :> 1) @@ (b :> 0) @@ (c :> 2)

=============================================================================

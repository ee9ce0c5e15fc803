------------------------------ MODULE MCAccounts ------------------------------
(* Two tabs of one Google user, one of another, and two guests who ask for one *)
(* name, for TLC.                                                              *)
EXTENDS Accounts, TLC

CONSTANTS t1, t2, t3, g1, g2, ann, eve, bot, q1, q2

MCGoogleOf == (t1 :> g1) @@ (t2 :> g1) @@ (t3 :> g2)
MCGuestName == (q1 :> ann) @@ (q2 :> ann)
=============================================================================

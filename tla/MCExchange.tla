----------------------------- MODULE MCExchange ------------------------------
(* Small instances of Exchange for TLC.                                    *)
EXTENDS Exchange, TLC

CONSTANTS c1, c2, k1, k2

\* c1 administers and sends with the first key, c2 sends with either.
Keys == c1 :> {k1} @@ c2 :> {k1, k2}
=============================================================================

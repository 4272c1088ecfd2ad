-------------------------- MODULE MCPointerRedirect --------------------------
EXTENDS PointerRedirect

(* Three writes on two pages: the first two share one.                     *)
CONSTANTS p1, p2
MCPage   == {p1, p2}
MCPageOf == <<p1, p1, p2>>
=============================================================================

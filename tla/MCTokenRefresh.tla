--------------------------- MODULE MCTokenRefresh ---------------------------
(* TLC instance of TokenRefresh.                                           *)
EXTENDS TokenRefresh
=============================================================================

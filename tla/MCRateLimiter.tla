--------------------------- MODULE MCRateLimiter ---------------------------
(* TLC instance of RateLimiter.                                            *)
EXTENDS RateLimiter
=============================================================================

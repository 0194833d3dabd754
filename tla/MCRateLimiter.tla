---------------------------- MODULE MCRateLimiter ----------------------------
(* RateLimiter on a small instance.                                          *)
EXTENDS RateLimiter, TLC

CONSTANTS Busy, Other

\* One client asks often, another now and then.
Bounds == Busy :> 6 @@ Other :> 1
=============================================================================

----------------------- MODULE MCSlidingWindowLimiter -----------------------
(* The limiter with three interchangeable keys, two of which may be        *)
(* tracked, two requests per window of two ticks and a clock of four.      *)
EXTENDS SlidingWindowLimiter, TLC

KeySymmetry == Permutations(Keys)
=============================================================================

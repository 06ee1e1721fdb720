------------------------- MODULE MCRateLimitCooldown -------------------------
EXTENDS RateLimitCooldown, TLC

Interchangeable == Permutations(Request)

=============================================================================

-------------------------- MODULE MCCircuitBreaker --------------------------
\* Instances of CircuitBreaker for TLC: three accounts compete for two slots of
\* the Map, and the cap is not a power of two of the base cooldown, so that both
\* the doubling and the cap decide a backoff.
EXTENDS CircuitBreaker
=============================================================================

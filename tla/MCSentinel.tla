----------------------------- MODULE MCSentinel -----------------------------
EXTENDS Sentinel, TLC
CONSTANTS s1, s2, s3, sm, k1, k2
SnSymm == Permutations({s1, s2, s3})
=============================================================================

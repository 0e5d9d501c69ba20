---------------------------- MODULE MCOnboarding ----------------------------
EXTENDS Onboarding, TLC

Symmetry == Permutations(Invites) \cup Permutations(Windows)
=============================================================================

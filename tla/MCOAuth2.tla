------------------------------- MODULE MCOAuth2 -------------------------------
EXTENDS OAuth2, TLC

\* Any two requests are alike.
Symmetry == Permutations(Process)

==============================================================================

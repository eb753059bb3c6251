------------------------------- MODULE JwksMC -------------------------------
EXTENDS Jwks
=============================================================================

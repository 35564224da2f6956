---------------------------- MODULE MCAuthStore ----------------------------
EXTENDS AuthStore
=============================================================================

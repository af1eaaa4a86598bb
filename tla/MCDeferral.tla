------------------------------ MODULE MCDeferral ------------------------------
EXTENDS DeferralInv
===============================================================================

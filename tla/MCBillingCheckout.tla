-------------------------- MODULE MCBillingCheckout -------------------------
EXTENDS BillingCheckout
=============================================================================

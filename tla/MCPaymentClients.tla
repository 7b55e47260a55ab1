--------------------------- MODULE MCPaymentClients ---------------------------
EXTENDS PaymentClients
=============================================================================

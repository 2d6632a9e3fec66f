-------------------------- MODULE MCOnlinePayment --------------------------
\* One order, the invoice of its reference and a paid one of another order.
EXTENDS OnlinePayment

CONSTANTS a1, x1
=============================================================================

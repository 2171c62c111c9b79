----------------------- MODULE MCSubscriptionRefresh -----------------------
EXTENDS SubscriptionRefresh
=============================================================================

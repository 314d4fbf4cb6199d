-------------------------- MODULE MCChannelBroker --------------------------
(* Four sessions compete for three channels, the second one the drum's.    *)
EXTENDS ChannelBroker

CONSTANTS t1, t2, t3, t4

MCThreads == {t1, t2, t3, t4}
=============================================================================

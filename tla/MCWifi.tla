------------------------------- MODULE MCWifi -------------------------------
EXTENDS Wifi
=============================================================================

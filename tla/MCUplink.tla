------------------------------ MODULE MCUplink ------------------------------
EXTENDS Uplink
UplinkImages == {{"mqtt"}, {"sntp"}, {"mdns"}}
=============================================================================

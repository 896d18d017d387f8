----------------------------- MODULE MC_WsServer -----------------------------
EXTENDS WsServer
=============================================================================

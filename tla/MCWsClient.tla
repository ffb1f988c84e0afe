----------------------------- MODULE MCWsClient -----------------------------
EXTENDS WsClient

FromTail == {AtTail}
=============================================================================

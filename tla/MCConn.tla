------------------------------- MODULE MCConn -------------------------------
EXTENDS Conn
=============================================================================

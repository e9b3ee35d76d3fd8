-------------------------------- MODULE MCConn --------------------------------
EXTENDS Conn
=============================================================================

---------------------------- MODULE MCRemoteConn ----------------------------
(* Two goroutines share a connection; data below, at and above chunkSize.  *)
EXTENDS RemoteConn

CONSTANTS owner, reader
MCDataLen == {NoData, 0, 1, chunkSize, chunkSize + 1}
=============================================================================

--------------------------- MODULE MCIceThreadPool ---------------------------
(* Small instances of IceThreadPool: the requests pool, whose commands belong *)
(* to jobs, and the pools whose commands have the time as id.                 *)
EXTENDS IceThreadPool

MCPools == {Jobs \ {Timed}, {Timed}}
RequestsPool == {Jobs \ {Timed}}
=============================================================================

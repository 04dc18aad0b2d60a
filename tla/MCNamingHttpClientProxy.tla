----------------------- MODULE MCNamingHttpClientProxy -----------------------
(* An instance of NamingHttpClientProxy for TLC.                           *)
EXTENDS NamingHttpClientProxy

ThreeInfos == 1 .. 3
=============================================================================

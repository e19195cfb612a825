------------------------------ MODULE MCServer ------------------------------
(* Model checking of the proxy: the mixes of clients the runs use.         *)
EXTENDS Server

Anyone == AllKinds
SocksOnly == {"socks5"}
=============================================================================

------------------------ MODULE MCHandoverRequests ------------------------
(* TLC instances of HandoverRequests.                                      *)
EXTENDS HandoverRequests
=============================================================================

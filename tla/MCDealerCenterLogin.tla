------------------------ MODULE MCDealerCenterLogin -------------------------
(* Small instances of DealerCenterLogin for TLC.                            *)
EXTENDS DealerCenterLogin, TLC

CONSTANTS r1, r2
=============================================================================

----------------------------- MODULE MCLogDownload -----------------------------
(* A drone with a long and a short log.                                    *)
EXTENDS LogDownload, TLC

CONSTANTS long, short

TwoLogs == {long, short}
Sizes == long :> MaxBlocks @@ short :> 1
=============================================================================

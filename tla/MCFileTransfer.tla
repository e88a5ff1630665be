----------------------------- MODULE MCFileTransfer -----------------------------
(* An upload, and another one or a download, of one file; the sequence     *)
(* numbers of the first wrap, and those of both may meet at its end.       *)
EXTENDS FileTransfer, TLC

CONSTANTS show, t1, t2

Put == [kind |-> "put", path |-> show, check |-> TRUE]
Get == [kind |-> "get", path |-> show, check |-> FALSE]

OnePath == {show}
TwoTransfers == {t1, t2}
OperationsOf == t1 :> {Put} @@ t2 :> {Put, Get}
StartsOf == t1 :> {15} @@ t2 :> {7}
=============================================================================

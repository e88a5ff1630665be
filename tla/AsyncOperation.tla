--------------------------- MODULE AsyncOperation ---------------------------
(***************************************************************************)
(* What the server promises to a client about one asynchronous command: a  *)
(* receipt is issued once, the client may learn it, and the command then   *)
(* gets at most one verdict.  An answer (ASYNC-RESP) only follows a        *)
(* receipt the client has, a timeout (ASYNC-TIMEOUT) may come without it,  *)
(* and a command the user cancelled is never heard of again.               *)
(*                                                                         *)
(* CommandExecution is shown to implement this specification.              *)
(***************************************************************************)
CONSTANT Receipts   \* identifiers of asynchronous commands

VARIABLES
    known,    \* whether the client has been sent the receipt
    verdict   \* what became of the command

vars == <<known, verdict>>

Verdicts == {"unused", "pending", "answered", "timedOut", "cancelled"}

Init ==
    /\ known = [r \in Receipts |-> FALSE]
    /\ verdict = [r \in Receipts |-> "unused"]

\* One request may start several commands.
Issue(R) ==
    /\ \A r \in R : verdict[r] = "unused"
    /\ verdict' = [r \in Receipts |-> IF r \in R THEN "pending" ELSE verdict[r]]
    /\ UNCHANGED known

\* One response may carry the receipts of several commands.
Learn(R) ==
    /\ \A r \in R : verdict[r] # "unused"
    /\ known' = [r \in Receipts |-> known[r] \/ r \in R]
    /\ UNCHANGED verdict

Answer(r) ==
    /\ verdict[r] = "pending"
    /\ known[r]
    /\ verdict' = [verdict EXCEPT ![r] = "answered"]
    /\ UNCHANGED known

Cancel(r) ==
    /\ verdict[r] = "pending"
    /\ verdict' = [verdict EXCEPT ![r] = "cancelled"]
    /\ UNCHANGED known

\* One message may report the timeout of several commands.
TimeOut(R) ==
    /\ \A r \in R : verdict[r] = "pending"
    /\ verdict' = [r \in Receipts |-> IF r \in R THEN "timedOut" ELSE verdict[r]]
    /\ UNCHANGED known

Next ==
    \/ \E R \in SUBSET Receipts : Issue(R) \/ Learn(R) \/ TimeOut(R)
    \/ \E r \in Receipts : Answer(r) \/ Cancel(r)

Spec == Init /\ [][Next]_vars
=============================================================================

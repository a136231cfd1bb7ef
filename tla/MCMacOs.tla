------------------------------ MODULE MCMacOs ------------------------------
(* Instances of MacOs for TLC.                                             *)
EXTENDS MacOs

CONSTANTS t1, t2

\* Each thread is a process of its own.
MCProcOf == [t \in Thread |-> IF t = t1 THEN "zenmaster" ELSE "other"]

\* The mailboxes of a desktop.
Table    == INSTANCE Mailboxes
MCBox    == [m \in Mailbox |-> IF m = "MP1" THEN Table!MP1("Raphael")
                              ELSE Table!RSMU("Raphael")]
MCMsgAt  == [m \in Mailbox |-> MCBox[m].msg]
MCRspAt  == [m \in Mailbox |-> MCBox[m].rsp]
MCArgsAt == [m \in Mailbox |-> MCBox[m].args]

=============================================================================

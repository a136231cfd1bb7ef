--------------------------- MODULE MCLinuxMailbox ---------------------------
(* Instances of LinuxMailbox for TLC.                                      *)
EXTENDS LinuxMailbox

CONSTANTS t1, t2, t3

\* Two threads of one process and one of another.
MCProcOf == [t \in Thread |-> IF t = t3 THEN "other" ELSE "zenmaster"]

\* The mailboxes of Summit Ridge, which share argument registers.
Table   == INSTANCE Mailboxes
MCBox   == [m \in Mailbox |-> IF m = "MP1" THEN Table!MP1("SummitRidge")
                             ELSE Table!RSMU("SummitRidge")]
MCMsgAt  == [m \in Mailbox |-> MCBox[m].msg]
MCRspAt  == [m \in Mailbox |-> MCBox[m].rsp]
MCArgsAt == [m \in Mailbox |-> MCBox[m].args]

\* What the tables say of ApartAssumption: MP1 and RSMU of every family
\* satisfy it, and so do MP1 and HSMP; the default RSMU, to which a family
\* with HSMP sends the queries of its power table, and HSMP do not.
ASSUME MailboxesApart ==
    /\ \A f \in Table!Families : Table!Separate({Table!MP1(f), Table!RSMU(f)})
    /\ \A f \in Table!HsmpFamilies : /\ Table!Separate({Table!MP1(f), Table!HSMP})
                                    /\ ~ Table!Separate({Table!RSMU(f), Table!HSMP})

=============================================================================

------------------------------ MODULE Mailboxes ------------------------------
(***************************************************************************)
(* zenmaster/mailbox.py: where the registers of each mailbox lie, by       *)
(* processor family, and whether the mailboxes a family uses keep out of   *)
(* each other's message and response registers.                            *)
(***************************************************************************)
EXTENDS Integers

\* NARGS of the code, which the instances of the mailbox models reduce.
ArgumentRegisters == 6

Box(msg, rsp, args) == [msg |-> msg, rsp |-> rsp, args |-> args]

Zen1Desktop  == {"SummitRidge", "PinnacleRidge"}
Desktop      == {"Matisse", "Vermeer", "Raphael", "DragonRange", "GraniteRidge", "FireRange"}
Mobile       == {"VanGogh", "Mendocino", "Rembrandt", "PhoenixPoint", "PhoenixPoint2",
                 "HawkPoint", "HawkPoint2", "SonomaValley"}
Zen5Mobile   == {"StrixPoint", "KrackanPoint", "KrackanPoint2", "StrixHalo"}
HsmpFamilies == {"Medusa1", "OlympicRidge", "Medusa2"}

\* Any family the tables do not list gets the defaults.
Unlisted == "a family of no table"
Families == Zen1Desktop \cup Desktop \cup Mobile \cup Zen5Mobile \cup HsmpFamilies \cup {Unlisted}

MP1(family) ==
    IF family \in Zen1Desktop THEN Box(\h3B10528, \h3B10564, \h3B10598)
    ELSE IF family \in Desktop THEN Box(\h3B10530, \h3B1057C, \h3B109C4)
    ELSE IF family \in Mobile THEN Box(\h3B10528, \h3B10578, \h3B10998)
    ELSE IF family \in Zen5Mobile THEN Box(\h3B10928, \h3B10978, \h3B10998)
    ELSE Box(\h3B10528, \h3B10564, \h3B10998)

RSMU(family) ==
    IF family \in Zen1Desktop THEN Box(\h3B1051C, \h3B10568, \h3B10590)
    ELSE IF family \in Desktop THEN Box(\h3B10524, \h3B10570, \h3B10A40)
    ELSE Box(\h3B10A20, \h3B10A80, \h3B10A88)

\* HSMP is used on the families that list it.
HSMP == Box(\h3B10A8C, \h3B10A90, \h3B10A94)

Arguments(box) == {box.args + 4 * i : i \in 0..ArgumentRegisters-1}

\* A message or response register has no other use; argument registers may
\* be shared, which those of MP1 and RSMU of the Zen 1 desktops are.
Separate(boxes) ==
    /\ \A b, c \in boxes : /\ b.rsp # c.msg
                           /\ {b.msg, b.rsp} \cap Arguments(c) = {}
    /\ \A b, c \in boxes : b # c => b.msg # c.msg /\ b.rsp # c.rsp

=============================================================================

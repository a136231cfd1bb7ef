------------------------------ MODULE MCReadout ------------------------------
(* Instances of Readout for TLC.                                           *)
EXTENDS Readout

CONSTANTS
    MCDies,     \* the places of CCDs
    MCVersions  \* the PM table versions

Cpu(family, model, marks) == [family |-> family, model |-> model, marks |-> marks]

\* Every pair of numbers, with no mark in the name, one, or all but "Intel".
AllCpus == [family : 22..27, model : 0..255,
            marks : {{}, Mark \ {"Intel"}} \cup {{a} : a \in Mark}]

Vermeer     == Cpu(25, 33, {})
DragonRange == Cpu(25, 97, {"hx"})
Medusa1     == Cpu(26, 128, {})
Unnamed     == Cpu(25, 200, {})

\* The processor, with 0 CCDs and a table of no interest.
Plain(p, cpu) ==
    [program |-> p, cpu |-> cpu, present |-> {}, disabled |-> {},
     ver |-> \h00540004, load |-> "light", parked |-> {}, ccds |-> 1,
     wide |-> FALSE]

Resolving == {Plain(<<"resolve">>, cpu) : cpu \in AllCpus}

Facade == {[Plain(p, cpu) EXCEPT !.wide = w] :
              p \in {<<"read_smn">>, <<"write_smn">>, <<"bios">>, <<"version">>, <<"send">>, Info},
              cpu \in {Vermeer, DragonRange, Medusa1, Unnamed}, w \in BOOLEAN}

Counting == UNION {{[Plain(p, Vermeer) EXCEPT !.present = dies, !.disabled = off] :
                       p \in {<<"ccd">>, Info}, off \in SUBSET dies} :
                   dies \in SUBSET MCDies}

Decoding == {[Plain(p, Vermeer) EXCEPT !.ver = v, !.load = l, !.parked = off, !.ccds = n] :
                p \in {<<"decode">>, Sensors}, v \in MCVersions, l \in Load,
                off \in {{}, {0}, {3, 9}, 8..15}, n \in {1, 2, 3}}

MCJobs  == Resolving \cup Facade \cup Counting \cup Decoding
MCCores == {[Plain(<<"cores">>, Vermeer) EXCEPT !.ver = v] : v \in MCVersions}

MCAllVersions == DOMAIN TableSize

\* One of Picasso, of Matisse with 16 cores, of Phoenix.
MCSuspects == {\h001e0004, \h00240802, \h005d0008}
=============================================================================

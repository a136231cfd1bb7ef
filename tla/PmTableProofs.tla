--------------------------- MODULE PmTableProofs ---------------------------
(***************************************************************************)
(* Proofs about PmTable, for any number of threads and calls and any       *)
(* backend: what a call returns was transferred during the call.           *)
(***************************************************************************)
EXTENDS PmTable, TLAPS

\* The places of a call whose caller is waited for.
Waiting == {"cached", "vfile", "vquery"} \cup Sequence

\* No old table is in hand: memory is read after a transfer of the call only.
FreshOK(t) ==
    /\ pc[t] = "read" => current[t]
    /\ kept[t] # "stale"
    /\ result[t].data # "stale"
    /\ pc[t] \in Waiting => caller[t] # None

IInv == TypeOK /\ \A t \in Thread : FreshOK(t)

\* What SequenceReturns and EnterSequence leave behind.
Placed(t) ==
    \E l \in {"idle", "ver", "cached"}, c \in Callers :
        /\ l # "idle" => c # None
        /\ pc' = Set(pc, t, l) /\ caller' = Set(caller, t, c)
HandOK(t) ==
    \/ kept' = kept
    \/ \E d \in {NoData, "fresh"} : kept' = Set(kept, t, d)
ResultOK(t) ==
    \/ result' = result
    \/ \E r \in Result : r.data # "stale" /\ result' = Set(result, t, r)
Left(t) == Placed(t) /\ HandOK(t) /\ ResultOK(t)

-----------------------------------------------------------------------------
LEMMA EndLeft ==
    ASSUME NEW t \in Thread, NEW r \in Result, r.data # "stale", End(t, r)
    PROVE  Left(t)
<1>1. Placed(t)
    <2>1. pc' = Set(pc, t, "idle") /\ caller' = Set(caller, t, None)  BY DEF End, Goto
    <2>2. None \in Callers  BY DEF Callers
    <2> QED  BY <2>1, <2>2 DEF Placed
<1>2. HandOK(t)  BY DEF End, HandOK
<1>3. ResultOK(t)  BY DEF End, ResultOK
<1> QED  BY <1>1, <1>2, <1>3 DEF Left

LEMMA FinishLeft ==
    ASSUME NEW t \in Thread, NEW d \in {NoData, "fresh"}, NEW v \in BOOLEAN, Finish(t, d, v)
    PROVE  Left(t)
<1> DEFINE r == [data |-> d, ver |-> v, raised |-> FALSE]
<1>1. r \in Result /\ r.data # "stale"  BY DEF Result, Data, NoData
<1>2. End(t, r)  BY DEF Finish
<1> HIDE DEF r
<1> QED  BY <1>1, <1>2, EndLeft

\* What an exception shows.
LEMMA Raised ==
    ASSUME NEW t, Raise(t)
    PROVE  \E r \in Result : r.data = NoData /\ r.raised /\ End(t, r)
<1> DEFINE r == [Nothing EXCEPT !.raised = TRUE]
<1>1. r \in Result /\ r.data = NoData /\ r.raised  BY DEF Nothing, Result, Data
<1>2. End(t, r)  BY DEF Raise
<1> HIDE DEF r
<1> QED  BY <1>1, <1>2

LEMMA RaiseLeft ==
    ASSUME NEW t \in Thread, Raise(t)
    PROVE  Left(t)
<1>1. PICK r \in Result : r.data = NoData /\ End(t, r)  BY Raised
<1> QED  BY <1>1, EndLeft DEF NoData

\* The sequence returns to each of its callers a table of this call, or none.
LEMMA SequenceLeft ==
    ASSUME NEW t \in Thread, NEW who \in Callers \ {None},
           NEW d \in {NoData, "fresh"}, NEW v \in BOOLEAN,
           kept[t] \in {NoData, "fresh"}, SequenceReturns(t, who, d, v)
    PROVE  Left(t)
<1>1. CASE who \in {"full", "again"}
    <2>1. Finish(t, d, v)  BY <1>1 DEF SequenceReturns
    <2> QED  BY <2>1, FinishLeft
<1>2. CASE who = "table"
    <2>1. Finish(t, d, FALSE)  BY <1>2 DEF SequenceReturns
    <2> QED  BY <2>1, FinishLeft
<1>3. CASE who = "version"
    <2>1. Finish(t, NoData, v)  BY <1>3 DEF SequenceReturns
    <2> QED  BY <2>1, FinishLeft
<1>4. CASE who = "fullversion"
    <2>1. Finish(t, kept[t], v)  BY <1>4 DEF SequenceReturns
    <2> QED  BY <2>1, FinishLeft
<1>5. CASE who = "fulltable"
    <2>1. /\ kept' = Set(kept, t, d)
          /\ caller' = Set(caller, t, IF d = NoData THEN "again" ELSE "fullversion")
          /\ Goto(t, IF d = NoData THEN "ver" ELSE "cached")
          /\ UNCHANGED result
        BY <1>5 DEF SequenceReturns
    <2>2. Placed(t)
        <3>1. {"again", "fullversion"} \subseteq Callers \ {None}  BY DEF Callers, None
        <3> QED  BY <2>1, <3>1 DEF Placed, Goto
    <2> QED  BY <2>1, <2>2 DEF Left, HandOK, ResultOK
<1> QED  BY <1>1, <1>2, <1>3, <1>4, <1>5 DEF Callers

LEMMA EnterLeft ==
    ASSUME NEW t \in Thread, NEW who \in Callers \ {None},
           kept[t] \in {NoData, "fresh"}, EnterSequence(t, who)
    PROVE  Left(t)
<1>1. CASE HasSequence
    <2>1. /\ caller' = Set(caller, t, who) /\ Goto(t, "ver")
          /\ UNCHANGED <<kept, result>>
        BY <1>1 DEF EnterSequence
    <2> QED  BY <2>1 DEF Left, Placed, HandOK, ResultOK, Goto
<1>2. CASE ~HasSequence
    <2> DEFINE w == IF who = "fulltable" THEN "again" ELSE who
    <2>1. w \in Callers \ {None}  BY DEF Callers, None
    <2>2. SequenceReturns(t, w, NoData, FALSE)  BY <1>2 DEF EnterSequence
    <2> HIDE DEF w
    <2> QED  BY <2>1, <2>2, SequenceLeft
<1> QED  BY <1>1, <1>2

-----------------------------------------------------------------------------
\* A step that leaves a call in one of these ways keeps the invariant, if
\* nothing but the memory and the caches changes besides.
LEMMA LeftKeeps ==
    ASSUME IInv, NEW t \in Thread, Left(t),
           UNCHANGED <<machine, backend, op, ops>>,
           cached' \in BOOLEAN,
           current' = current \/ Transfer,
           tries' = tries \/ tries' = Set(tries, t, 0),
           pc[t] # "transfer" \/ tries' = Set(tries, t, 0)
    PROVE  IInv'
<1>0. TypeOK /\ \A u \in Thread : FreshOK(u)  BY DEF IInv
<1>1. PICK l \in {"idle", "ver", "cached"}, c \in Callers :
          /\ l # "idle" => c # None
          /\ pc' = Set(pc, t, l) /\ caller' = Set(caller, t, c)
    BY DEF Left, Placed
<1>2. current' \in [Thread -> BOOLEAN] /\ \A u \in Thread : current[u] => current'[u]
    <2>1. CASE current' = current  BY <1>0, <2>1 DEF TypeOK
    <2>2. CASE Transfer  BY <2>2 DEF Transfer
    <2> QED  BY <2>1, <2>2
<1>3. pc' \in [Thread -> Labels] /\ caller' \in [Thread -> Callers]
    <2>1. pc' \in [Thread -> Labels]
        <3>1. l \in Labels  BY DEF Labels, Sequence
        <3> QED  BY <1>0, <1>1, <3>1 DEF TypeOK, Set
    <2>2. caller' \in [Thread -> Callers]  BY <1>0, <1>1 DEF TypeOK, Set
    <2> QED  BY <2>1, <2>2
<1>4. /\ tries' \in [Thread -> 0..2]
      /\ \A u \in Thread : tries'[u] > 0 => pc'[u] = "transfer"
    <2>1. tries' \in [Thread -> 0..2]  BY <1>0 DEF TypeOK, Set
    <2>2. ASSUME NEW u \in Thread, tries'[u] > 0 PROVE pc'[u] = "transfer"
        <3>1. tries[u] > 0 /\ u # t  BY <1>0, <2>2 DEF TypeOK, Set
        <3> QED  BY <1>0, <1>1, <3>1 DEF TypeOK, Set
    <2> QED  BY <2>1, <2>2
<1>5. kept' \in [Thread -> Data] /\ \A u \in Thread : kept'[u] # "stale"
    <2>1. CASE kept' = kept  BY <1>0, <2>1 DEF TypeOK, FreshOK
    <2>2. CASE \E d \in {NoData, "fresh"} : kept' = Set(kept, t, d)
        BY <1>0, <2>2 DEF TypeOK, FreshOK, Set, Data, NoData
    <2> QED  BY <2>1, <2>2 DEF Left, HandOK
<1>6. /\ result' \in [Thread -> Result]
      /\ \A u \in Thread : result'[u].data # "stale"
    <2>1. CASE result' = result  BY <1>0, <2>1 DEF TypeOK, FreshOK
    <2>2. ASSUME NEW r \in Result, r.data # "stale", result' = Set(result, t, r)
          PROVE  /\ result' \in [Thread -> Result]
                 /\ \A u \in Thread : result'[u].data # "stale"
        <3>1. result' \in [Thread -> Result]  BY <1>0, <2>2 DEF TypeOK, Set
        <3>2. ASSUME NEW u \in Thread PROVE result'[u].data # "stale"
            <4>1. CASE u = t
                <5>1. result'[u] = r  BY <1>0, <2>2, <4>1 DEF TypeOK, Set
                <5> QED  BY <2>2, <5>1
            <4>2. CASE u # t
                <5>1. result'[u] = result[u]  BY <1>0, <2>2, <4>2 DEF TypeOK, Set
                <5> QED  BY <1>0, <5>1 DEF FreshOK
            <4> QED  BY <4>1, <4>2
        <3> QED  BY <3>1, <3>2
    <2> QED  BY <2>1, <2>2 DEF Left, ResultOK
<1>7. TypeOK'  BY <1>0, <1>2, <1>3, <1>4, <1>5, <1>6 DEF TypeOK, machine
<1>8. ASSUME NEW u \in Thread PROVE FreshOK(u)'
    <2>1. pc'[u] = "read" => current'[u]
        BY <1>0, <1>1, <1>2 DEF TypeOK, FreshOK, Set
    <2>2. pc'[u] \in Waiting => caller'[u] # None
        BY <1>0, <1>1 DEF TypeOK, FreshOK, Set, Waiting, Sequence
    <2> QED  BY <2>1, <2>2, <1>5, <1>6 DEF FreshOK
<1> QED  BY <1>7, <1>8 DEF IInv

LEMMA IInvInit == Init => IInv
<1> SUFFICES ASSUME Init PROVE IInv
    OBVIOUS
<1> USE DEF Init
<1>1. /\ kind \in Kinds /\ known \in BOOLEAN
      /\ backend \in {None, kind} /\ cached \in BOOLEAN
    OBVIOUS
<1>2. /\ current \in [Thread -> BOOLEAN]
      /\ pc \in [Thread -> Labels] /\ op \in [Thread -> Ops]
      /\ caller \in [Thread -> Callers] /\ kept \in [Thread -> Data]
    BY DEF Labels, Ops, Callers, Data
<1>3. /\ ops \in [Thread -> 0..MaxOps] /\ tries \in [Thread -> 0..2]
      /\ \A t \in Thread : tries[t] > 0 => pc[t] = "transfer"
    BY BoundAssumption
<1>4. result \in [Thread -> Result]
    BY DEF Nothing, Result, Data
<1>5. TypeOK  BY <1>1, <1>2, <1>3, <1>4 DEF TypeOK
<1>6. ASSUME NEW t \in Thread PROVE FreshOK(t)
    <2>1. result[t].data = NoData  BY DEF Nothing
    <2>2. pc[t] = "idle" /\ kept[t] = NoData  OBVIOUS
    <2> QED  BY <2>1, <2>2 DEF FreshOK, NoData, Waiting, Sequence
<1> QED  BY <1>5, <1>6 DEF IInv

\* A step within a call that only moves on.
LEMMA MoveKeeps ==
    ASSUME IInv, NEW t \in Thread, NEW l \in Labels, Goto(t, l),
           l = "read" => Transfer,
           l \in Waiting => pc[t] \in Waiting,
           tries' \in [Thread -> 0..2],
           \A u \in Thread : tries'[u] > 0 => pc'[u] = "transfer",
           UNCHANGED <<machine, backend, op, ops, caller, kept, result>>,
           cached' \in BOOLEAN,
           current' = current \/ Transfer
    PROVE  IInv'
<1>0. TypeOK /\ \A u \in Thread : FreshOK(u)  BY DEF IInv
<1>1. current' \in [Thread -> BOOLEAN] /\ \A u \in Thread : current[u] => current'[u]
    <2>1. CASE current' = current  BY <1>0, <2>1 DEF TypeOK
    <2>2. CASE Transfer  BY <2>2 DEF Transfer
    <2> QED  BY <2>1, <2>2
<1>2. pc' \in [Thread -> Labels]  BY <1>0 DEF TypeOK, Goto, Set
<1>3. TypeOK'  BY <1>0, <1>1, <1>2 DEF TypeOK, machine
<1>4. ASSUME NEW u \in Thread PROVE FreshOK(u)'
    <2>1. CASE u = t
        <3>1. pc'[u] = l  BY <1>0, <2>1 DEF TypeOK, Goto, Set
        <3>2. l = "read" => current'[u]  BY DEF Transfer
        <3> QED  BY <1>0, <2>1, <3>1, <3>2 DEF FreshOK
    <2>2. CASE u # t
        <3>1. pc'[u] = pc[u]  BY <1>0, <2>2 DEF TypeOK, Goto, Set
        <3> QED  BY <1>0, <1>1, <3>1 DEF FreshOK
    <2> QED  BY <2>1, <2>2
<1> QED  BY <1>3, <1>4 DEF IInv

-----------------------------------------------------------------------------
\* Facts about the thread whose turn it is.
LEMMA HandIsFresh ==
    ASSUME IInv, NEW t \in Thread
    PROVE  /\ kept[t] \in {NoData, "fresh"}
           /\ pc[t] \in Waiting => caller[t] \in Callers \ {None}
           /\ pc[t] = "read" => current[t]
           /\ tries \in [Thread -> 0..2] /\ cached \in BOOLEAN
           /\ \A u \in Thread : tries[u] > 0 => pc[u] = "transfer"
           /\ pc \in [Thread -> Labels]
BY DEF IInv, FreshOK, TypeOK, Data

\* Everything but the memory and the tries stays, in all steps of a call.
LEMMA IInvNext == IInv /\ [Next]_vars => IInv'
<1> SUFFICES ASSUME IInv, [Next]_vars PROVE IInv'
    OBVIOUS
<1>0. TypeOK /\ \A u \in Thread : FreshOK(u)  BY DEF IInv
<1>1. CASE Close
    <2>1. TypeOK'  BY <1>0, <1>1 DEF Close, TypeOK, machine
    <2>2. \A u \in Thread : FreshOK(u)'  BY <1>0, <1>1 DEF Close, FreshOK
    <2> QED  BY <2>1, <2>2 DEF IInv
<1>2. CASE OtherTransfers
    <2>1. TypeOK'  BY <1>0, <1>2 DEF OtherTransfers, Transfer, TypeOK, machine
    <2>2. \A u \in Thread : FreshOK(u)'
        BY <1>0, <1>2 DEF OtherTransfers, Transfer, FreshOK
    <2> QED  BY <2>1, <2>2 DEF IInv
<1>3. CASE UNCHANGED vars
    <2>1. TypeOK'  BY <1>0, <1>3 DEF vars, TypeOK, machine
    <2>2. \A u \in Thread : FreshOK(u)'  BY <1>0, <1>3 DEF vars, FreshOK
    <2> QED  BY <2>1, <2>2 DEF IInv
<1>4. ASSUME NEW t \in Thread, Start(t) PROVE IInv'
    <2> USE DEF Start
    <2>1. TypeOK'
        <3>1. backend' \in {None, kind'} /\ UNCHANGED <<machine, cached, caller, tries, kept>>
            BY <1>0, <1>4 DEF TypeOK, machine
        <3>2. pc' \in [Thread -> Labels]  BY <1>0, <1>4 DEF TypeOK, Goto, Set, Labels
        <3>3. op' \in [Thread -> Ops]  BY <1>0, <1>4 DEF TypeOK, Set
        <3>4. ops' \in [Thread -> 0..MaxOps]
            BY <1>0, <1>4, BoundAssumption DEF TypeOK, Set
        <3>5. current' \in [Thread -> BOOLEAN]  BY <1>0, <1>4 DEF TypeOK, Set
        <3>6. result' \in [Thread -> Result]
            <4>1. Nothing \in Result  BY DEF Nothing, Result, Data
            <4> QED  BY <1>0, <1>4, <4>1 DEF TypeOK, Set
        <3>7. \A u \in Thread : tries'[u] > 0 => pc'[u] = "transfer"
            <4>1. tries[t] = 0  BY <1>0, <1>4 DEF TypeOK
            <4> QED  BY <1>0, <1>4, <4>1 DEF TypeOK, Goto, Set
        <3> QED  BY <1>0, <3>1, <3>2, <3>3, <3>4, <3>5, <3>6, <3>7 DEF TypeOK, machine
    <2>2. ASSUME NEW u \in Thread PROVE FreshOK(u)'
        <3>1. CASE u = t
            <4>1. pc'[u] = "start" /\ kept'[u] = kept[u] /\ result'[u] = Nothing
                BY <1>0, <1>4, <3>1 DEF TypeOK, Goto, Set
            <4>2. Nothing.data = NoData  BY DEF Nothing
            <4> QED  BY <1>0, <4>1, <4>2 DEF FreshOK, NoData, Waiting, Sequence
        <3>2. CASE u # t
            <4>1. /\ pc'[u] = pc[u] /\ kept'[u] = kept[u] /\ result'[u] = result[u]
                  /\ caller'[u] = caller[u] /\ current'[u] = current[u]
                BY <1>0, <1>4, <3>2 DEF TypeOK, Goto, Set
            <4> QED  BY <1>0, <4>1 DEF FreshOK
        <3> QED  BY <3>1, <3>2
    <2> QED  BY <2>1, <2>2 DEF IInv
<1>5. ASSUME NEW t \in Thread, Enter(t) PROVE IInv'
    <2> USE HandIsFresh DEF Enter
    <2>1. CASE op[t] = "version"
        <3>1. Goto(t, "cached") /\ caller' = Set(caller, t, "version") /\ UNCHANGED <<kept, result>>
            BY <1>5, <2>1
        <3>2. "version" \in Callers \ {None}  BY DEF Callers, None
        <3>3. Left(t)  BY <3>1, <3>2 DEF Left, Placed, HandOK, ResultOK, Goto
        <3> QED  BY <1>5, <3>3, LeftKeeps
    <2>2. CASE op[t] # "version" /\ (OnMacOs \/ backend = "pci")
        <3>1. EnterSequence(t, op[t]) /\ op[t] \in Callers \ {None}
            BY <1>5, <2>2 DEF Callers, None
        <3>2. Left(t)  BY <3>1, EnterLeft
        <3> QED  BY <1>5, <3>2, LeftKeeps
    <2>3. CASE op[t] # "version" /\ ~(OnMacOs \/ backend = "pci")
        <3>1. Goto(t, "sysfs") /\ UNCHANGED <<caller, kept, result>>  BY <1>5, <2>3
        <3>2. "sysfs" \in Labels /\ "sysfs" \notin Waiting /\ "sysfs" # "read"
            BY DEF Labels, Waiting, Sequence
        <3>3. \A u \in Thread : tries[u] > 0 => pc'[u] = "transfer"
            BY <1>5, <3>1 DEF Goto, Set
        <3> QED  BY <1>5, <3>1, <3>2, <3>3, MoveKeeps
    <2> QED  BY <2>1, <2>2, <2>3
<1>6. ASSUME NEW t \in Thread, SysfsRead(t) PROVE IInv'
    <2> USE HandIsFresh DEF SysfsRead
    <2>1. Left(t)
        <3>1. CASE op[t] = "table"
            <4>1. Finish(t, "fresh", FALSE)  BY <1>6, <3>1
            <4> QED  BY <4>1, FinishLeft
        <3>2. CASE op[t] # "table"
            <4>1. /\ kept' = Set(kept, t, "fresh") /\ caller' = Set(caller, t, "fullversion")
                  /\ Goto(t, "cached") /\ UNCHANGED result
                BY <1>6, <3>2
            <4>2. "fullversion" \in Callers \ {None}  BY DEF Callers, None
            <4> QED  BY <4>1, <4>2 DEF Left, Placed, HandOK, ResultOK, Goto
        <3> QED  BY <3>1, <3>2
    <2> QED  BY <1>6, <2>1, LeftKeeps
<1>7. ASSUME NEW t \in Thread, SysfsEmpty(t) PROVE IInv'
    <2> USE HandIsFresh DEF SysfsEmpty
    <2>1. Left(t)
        <3>1. CASE op[t] = "table"
            <4>1. Finish(t, NoData, FALSE)  BY <1>7, <3>1
            <4> QED  BY <4>1, FinishLeft
        <3>2. CASE op[t] # "table"
            <4>1. EnterSequence(t, "again")  BY <1>7, <3>2
            <4>2. "again" \in Callers \ {None}  BY DEF Callers, None
            <4> QED  BY <4>1, <4>2, EnterLeft
        <3> QED  BY <3>1, <3>2
    <2> QED  BY <1>7, <2>1, LeftKeeps
<1>8. ASSUME NEW t \in Thread, SysfsFails(t) PROVE IInv'
    <2> USE HandIsFresh DEF SysfsFails
    <2> DEFINE who == IF op[t] = "table" THEN "table" ELSE "fulltable"
    <2>1. who \in Callers \ {None} /\ EnterSequence(t, who)  BY <1>8 DEF Callers, None
    <2> HIDE DEF who
    <2>2. Left(t)  BY <2>1, EnterLeft
    <2> QED  BY <1>8, <2>2, LeftKeeps
<1>9. ASSUME NEW t \in Thread, VersionCached(t) PROVE IInv'
    <2> USE HandIsFresh DEF VersionCached
    <2>0. caller[t] \in Callers \ {None}  BY <1>9 DEF Waiting
    <2>1. CASE cached
        <3>1. SequenceReturns(t, caller[t], NoData, TRUE)  BY <1>9, <2>1
        <3>2. Left(t)  BY <2>0, <3>1, SequenceLeft
        <3> QED  BY <1>9, <3>2, LeftKeeps
    <2>2. CASE ~cached
        <3>1. PICK l \in {"vquery", "vfile"} : Goto(t, l) /\ UNCHANGED <<caller, kept, result>>
            BY <1>9, <2>2
        <3>2. l \in Labels /\ l # "read" /\ pc[t] \in Waiting  BY <1>9 DEF Labels, Waiting
        <3>9. \A u \in Thread : tries[u] > 0 => pc'[u] = "transfer"
            BY <1>9, <3>1 DEF Goto, Set
        <3> QED  BY <1>9, <3>1, <3>2, <3>9, MoveKeeps
    <2> QED  BY <2>1, <2>2
<1>10. ASSUME NEW t \in Thread, VersionFile(t) PROVE IInv'
    <2> USE HandIsFresh DEF VersionFile
    <2>0. caller[t] \in Callers \ {None}  BY <1>10 DEF Waiting
    <2>1. CASE cached' = TRUE /\ SequenceReturns(t, caller[t], NoData, TRUE)
        <3>1. Left(t)  BY <2>0, <2>1, SequenceLeft
        <3> QED  BY <1>10, <2>1, <3>1, LeftKeeps
    <2>2. CASE Goto(t, "vquery") /\ UNCHANGED <<cached, caller, kept, result>>
        <3>1. Goto(t, "vquery")  BY <2>2
        <3>2. "vquery" \in Labels /\ pc[t] \in Waiting  BY <1>10 DEF Labels, Waiting
        <3>9. \A u \in Thread : tries[u] > 0 => pc'[u] = "transfer"
            BY <1>10, <3>1 DEF Goto, Set
        <3> QED  BY <1>10, <2>2, <3>1, <3>2, <3>9, MoveKeeps
    <2> QED  BY <1>10, <2>1, <2>2
<1>11. ASSUME NEW t \in Thread, VersionQuery(t) PROVE IInv'
    <2> USE HandIsFresh DEF VersionQuery
    <2>0. caller[t] \in Callers \ {None}  BY <1>11 DEF Waiting
    <2>1. Left(t) /\ cached' \in BOOLEAN
        <3>1. CASE cached' = TRUE /\ SequenceReturns(t, caller[t], NoData, TRUE)
            BY <2>0, <3>1, SequenceLeft
        <3>2. CASE EnterSequence(t, caller[t]) /\ UNCHANGED cached
            BY <2>0, <3>2, EnterLeft
        <3> QED  BY <1>11, <3>1, <3>2
    <2> QED  BY <1>11, <2>1, LeftKeeps
<1>12. ASSUME NEW t \in Thread, CommandRaises(t) PROVE IInv'
    <2> USE DEF CommandRaises
    <2>1. Left(t)  BY <1>12, RaiseLeft
    <2>2. cached' \in BOOLEAN  BY <1>12, HandIsFresh
    <2> QED  BY <1>12, <2>1, <2>2, LeftKeeps
<1>13. ASSUME NEW t \in Thread, SequenceVersion(t) PROVE IInv'
    <2> USE HandIsFresh DEF SequenceVersion, Commands
    <2>0. caller[t] \in Callers \ {None}  BY <1>13 DEF Waiting, Sequence
    <2>1. CASE Gives(t) /\ UNCHANGED cached
        <3>1. Left(t)  BY <2>0, <2>1, SequenceLeft DEF Gives
        <3> QED  BY <1>13, <2>1, <3>1, LeftKeeps
    <2>2. CASE cached' = TRUE /\ Goto(t, "addr") /\ UNCHANGED <<caller, kept, result>>
        <3>1. Goto(t, "addr")  BY <2>2
        <3>2. "addr" \in Labels /\ pc[t] \in Waiting  BY <1>13 DEF Labels, Waiting, Sequence
        <3>9. \A u \in Thread : tries[u] > 0 => pc'[u] = "transfer"
            BY <1>13, <3>1 DEF Goto, Set
        <3> QED  BY <1>13, <2>2, <3>1, <3>2, <3>9, MoveKeeps
    <2> QED  BY <1>13, <2>1, <2>2
<1>14. ASSUME NEW t \in Thread, SequenceAddress(t) PROVE IInv'
    <2> USE HandIsFresh DEF SequenceAddress, Commands
    <2>0. caller[t] \in Callers \ {None}  BY <1>14 DEF Waiting, Sequence
    <2>1. CASE Gives(t)
        <3>1. Left(t)  BY <2>0, <2>1, SequenceLeft DEF Gives
        <3> QED  BY <1>14, <3>1, LeftKeeps
    <2>2. CASE Goto(t, "transfer") /\ UNCHANGED <<caller, kept, result>>
        <3>1. Goto(t, "transfer")  BY <2>2
        <3>2. "transfer" \in Labels /\ pc[t] \in Waiting  BY <1>14 DEF Labels, Waiting, Sequence
        <3>9. \A u \in Thread : tries[u] > 0 => pc'[u] = "transfer"
            BY <1>14, <3>1 DEF Goto, Set
        <3> QED  BY <1>14, <2>2, <3>1, <3>2, <3>9, MoveKeeps
    <2> QED  BY <1>14, <2>1, <2>2
<1>15. ASSUME NEW t \in Thread, SequenceTransfer(t) PROVE IInv'
    <2> USE HandIsFresh DEF SequenceTransfer, Commands
    <2>0. caller[t] \in Callers \ {None} /\ "transfer" \in Labels /\ "read" \in Labels
          /\ pc[t] = "transfer" /\ pc[t] \in Waiting
        BY <1>15 DEF Waiting, Sequence, Labels
    <2>1. CASE /\ tries' = Set(tries, t, (tries[t] + 1) % 3)
               /\ UNCHANGED <<current, pc, caller, kept, result>>
        <3>1. Goto(t, "transfer")  BY <2>0, <2>1 DEF Goto, Set
        <3>2. tries' \in [Thread -> 0..2]
            <4>1. (tries[t] + 1) % 3 \in 0..2  OBVIOUS
            <4> QED  BY <2>1, <4>1 DEF Set
        <3>3. \A u \in Thread : tries'[u] > 0 => pc'[u] = "transfer"
            BY <2>0, <2>1 DEF Set
        <3> QED  BY <1>15, <2>0, <2>1, <3>1, <3>2, <3>3, MoveKeeps
    <2>2. CASE tries' = Set(tries, t, 0) /\ Transferred(t) /\ UNCHANGED <<caller, kept, result>>
        <3>1. Goto(t, "read") /\ Transfer  BY <2>2 DEF Transferred
        <3>2. tries' \in [Thread -> 0..2]  BY <2>2 DEF Set
        <3>3. \A u \in Thread : tries'[u] > 0 => pc'[u] = "transfer"
            BY <2>2, <3>1 DEF Goto, Set
        <3> QED  BY <1>15, <2>0, <2>2, <3>1, <3>2, <3>3, MoveKeeps
    <2>3. CASE tries' = Set(tries, t, 0) /\ Gives(t) /\ UNCHANGED current
        <3>1. Left(t)  BY <2>0, <2>3, SequenceLeft DEF Gives
        <3> QED  BY <1>15, <2>3, <3>1, LeftKeeps
    <2> QED  BY <1>15, <2>1, <2>2, <2>3
<1>16. ASSUME NEW t \in Thread, SequenceRead(t) PROVE IInv'
    <2> USE HandIsFresh DEF SequenceRead
    <2>0. caller[t] \in Callers \ {None} /\ current[t]  BY <1>16 DEF Waiting, Sequence
    <2>1. CASE Gives(t) /\ UNCHANGED cached
        <3>1. Left(t)  BY <2>0, <2>1, SequenceLeft DEF Gives
        <3> QED  BY <1>16, <2>1, <3>1, LeftKeeps
    <2>2. CASE /\ SequenceReturns(t, caller[t], IF current[t] THEN "fresh" ELSE "stale", TRUE)
               /\ cached' = (cached \/ caller[t] \in {"version", "fullversion"})
        <3>1. SequenceReturns(t, caller[t], "fresh", TRUE)  BY <2>0, <2>2
        <3>2. Left(t)  BY <2>0, <3>1, SequenceLeft
        <3>3. cached' \in BOOLEAN  BY <2>2
        <3> QED  BY <1>16, <3>2, <3>3, LeftKeeps
    <2> QED  BY <1>16, <2>1, <2>2
<1> QED
    BY <1>1, <1>2, <1>3, <1>4, <1>5, <1>6, <1>7, <1>8, <1>9, <1>10, <1>11, <1>12,
       <1>13, <1>14, <1>15, <1>16 DEF Next, Step, Finished

LEMMA IInvAlways == Spec => []IInv
BY IInvInit, IInvNext, PTL DEF Spec

\* The variables keep their types, and tries are counted within a transfer.
THEOREM TypeCorrect == Spec => []TypeOK
<1>1. IInv => TypeOK  BY DEF IInv
<1> QED  BY <1>1, IInvAlways, PTL

\* read_pm_table_full and read_pm_table return no table that was not
\* transferred during the call, whatever fails or is closed meanwhile.
THEOREM DataAreFresh == Spec => []FreshData
<1>1. IInv => FreshData  BY DEF IInv, FreshOK, FreshData
<1> QED  BY <1>1, IInvAlways, PTL

-----------------------------------------------------------------------------
\* A table in hand waits for its version: the caller of read_pm_table_version
\* returns it whatever that finds.
KeptOK(t) == kept[t] # NoData => pc[t] \in Waiting /\ caller[t] = "fullversion"

KInv == IInv /\ \A t \in Thread : KeptOK(t)

\* A step of a call that keeps the table in hand for its caller, or returns it.
Handed(t) ==
    \E l, c, d, r :
        /\ pc' = Set(pc, t, l) /\ caller' = Set(caller, t, c)
        /\ kept' = Set(kept, t, d) /\ result' = Set(result, t, r)
        /\ d # NoData => l \in Waiting /\ c = "fullversion"
        /\ kept[t] # NoData /\ d = NoData =>
              r.data = kept[t] \/ (r.raised /\ AtCommand(t))

Returned(t) ==
    kept[t] # NoData /\ kept'[t] = NoData =>
        result'[t].data = kept[t] \/ (result'[t].raised /\ AtCommand(t))

LEMMA HandedKeeps ==
    ASSUME KInv, NEW t \in Thread, Handed(t), NEW u \in Thread
    PROVE  KeptOK(u)' /\ Returned(u)
<1>1. PICK l, c, d, r :
        /\ pc' = Set(pc, t, l) /\ caller' = Set(caller, t, c)
        /\ kept' = Set(kept, t, d) /\ result' = Set(result, t, r)
        /\ d # NoData => l \in Waiting /\ c = "fullversion"
        /\ kept[t] # NoData /\ d = NoData =>
              r.data = kept[t] \/ (r.raised /\ AtCommand(t))
    BY DEF Handed
<1>2. /\ DOMAIN pc = Thread /\ DOMAIN caller = Thread
      /\ DOMAIN kept = Thread /\ DOMAIN result = Thread
    BY DEF KInv, IInv, TypeOK
<1>3. CASE u = t
    <2>1. pc'[u] = l /\ caller'[u] = c /\ kept'[u] = d /\ result'[u] = r
        BY <1>1, <1>2, <1>3 DEF Set
    <2> QED  BY <1>1, <1>3, <2>1 DEF KeptOK, Returned
<1>4. CASE u # t
    <2>1. pc'[u] = pc[u] /\ caller'[u] = caller[u] /\ kept'[u] = kept[u]
        BY <1>1, <1>2, <1>4 DEF Set
    <2>2. KeptOK(u)  BY DEF KInv
    <2> QED  BY <2>1, <2>2 DEF KeptOK, Returned
<1> QED  BY <1>3, <1>4

\* A call that ends with the table in hand, or with none in hand, loses none.
LEMMA FinishHands ==
    ASSUME NEW t \in Thread, NEW d, NEW v, Finish(t, d, v),
           kept[t] # NoData => d = kept[t]
    PROVE  Handed(t)
<1> DEFINE r == [data |-> d, ver |-> v, raised |-> FALSE]
<1>1. r.data = d  OBVIOUS
<1>2. End(t, r)  BY DEF Finish
<1> HIDE DEF r
<1>3. /\ pc' = Set(pc, t, "idle") /\ caller' = Set(caller, t, None)
      /\ kept' = Set(kept, t, NoData) /\ result' = Set(result, t, r)
    BY <1>2 DEF End, Goto
<1> QED  BY <1>1, <1>3 DEF Handed

\* An exception of a command.
LEMMA RaiseHands ==
    ASSUME NEW t \in Thread, Raise(t), AtCommand(t)
    PROVE  Handed(t)
<1>1. PICK r \in Result : r.raised /\ End(t, r)  BY Raised
<1>2. /\ pc' = Set(pc, t, "idle") /\ caller' = Set(caller, t, None)
      /\ kept' = Set(kept, t, NoData) /\ result' = Set(result, t, r)
    BY <1>1 DEF End, Goto
<1> QED  BY <1>1, <1>2 DEF Handed

\* Moving on within read_pm_table_version, or without a table in hand.
LEMMA MoveHands ==
    ASSUME KInv, NEW t \in Thread, NEW l, NEW c, Goto(t, l), caller' = Set(caller, t, c),
           UNCHANGED <<kept, result>>,
           kept[t] # NoData => l \in Waiting /\ c = "fullversion"
    PROVE  Handed(t)
<1>1. kept' = Set(kept, t, kept[t]) /\ result' = Set(result, t, result[t])
    BY DEF KInv, IInv, TypeOK, Set
<1>2. pc' = Set(pc, t, l)  BY DEF Goto
<1> QED  BY <1>1, <1>2 DEF Handed

LEMMA StayHands ==
    ASSUME KInv, NEW t \in Thread, NEW l, Goto(t, l), l \in Waiting, pc[t] \in Waiting,
           UNCHANGED <<caller, kept, result>>
    PROVE  Handed(t)
<1>1. caller' = Set(caller, t, caller[t])  BY DEF KInv, IInv, TypeOK, Set
<1>2. kept[t] # NoData => caller[t] = "fullversion"  BY DEF KInv, KeptOK
<1> QED  BY <1>1, <1>2, MoveHands

LEMMA SequenceHands ==
    ASSUME KInv, NEW t \in Thread, NEW who \in Callers \ {None}, NEW d, NEW v,
           SequenceReturns(t, who, d, v),
           kept[t] # NoData => who = "fullversion"
    PROVE  Handed(t)
<1>1. CASE who = "fullversion"
    <2>1. Finish(t, kept[t], v)  BY <1>1 DEF SequenceReturns
    <2> QED  BY <2>1, FinishHands
<1>2. CASE who = "fulltable"
    <2> DEFINE c == IF d = NoData THEN "again" ELSE "fullversion"
               l == IF d = NoData THEN "ver" ELSE "cached"
    <2>1. /\ kept' = Set(kept, t, d) /\ caller' = Set(caller, t, c)
          /\ pc' = Set(pc, t, l) /\ result' = result
        BY <1>2 DEF SequenceReturns, Goto
    <2>2. result' = Set(result, t, result[t])  BY <2>1 DEF KInv, IInv, TypeOK, Set
    <2>3. d # NoData => l \in Waiting /\ c = "fullversion"  BY DEF Waiting
    <2>4. kept[t] = NoData  BY <1>2
    <2> HIDE DEF c, l
    <2> QED  BY <2>1, <2>2, <2>3, <2>4 DEF Handed
<1>3. CASE who \in {"full", "again", "table", "version"}
    <2>1. \E e, w : Finish(t, e, w)  BY <1>3 DEF SequenceReturns
    <2>2. kept[t] = NoData  BY <1>3
    <2> QED  BY <2>1, <2>2, FinishHands
<1> QED  BY <1>1, <1>2, <1>3 DEF Callers

LEMMA EnterHands ==
    ASSUME KInv, NEW t \in Thread, NEW who \in Callers \ {None}, EnterSequence(t, who),
           kept[t] # NoData => who = "fullversion"
    PROVE  Handed(t)
<1>1. CASE HasSequence
    <2>1. caller' = Set(caller, t, who) /\ Goto(t, "ver") /\ UNCHANGED <<kept, result>>
        BY <1>1 DEF EnterSequence
    <2>2. "ver" \in Waiting  BY DEF Waiting, Sequence
    <2> QED  BY <2>1, <2>2, MoveHands
<1>2. CASE ~HasSequence
    <2> DEFINE w == IF who = "fulltable" THEN "again" ELSE who
    <2>1. w \in Callers \ {None}  BY DEF Callers, None
    <2>2. SequenceReturns(t, w, NoData, FALSE)  BY <1>2 DEF EnterSequence
    <2>3. kept[t] # NoData => w = "fullversion"  OBVIOUS
    <2> HIDE DEF w
    <2> QED  BY <2>1, <2>2, <2>3, SequenceHands
<1> QED  BY <1>1, <1>2

\* Nothing is in hand outside read_pm_table_version and the sequences.
LEMMA HandOf ==
    ASSUME KInv, NEW t \in Thread
    PROVE  /\ pc[t] \notin Waiting => kept[t] = NoData
           /\ kept[t] # NoData => caller[t] = "fullversion"
           /\ pc[t] \in Waiting => caller[t] \in Callers \ {None}
BY HandIsFresh DEF KInv, KeptOK

\* The tables in hand survive a step in which no call moves.
LEMMA StillHands ==
    ASSUME KInv, UNCHANGED <<pc, caller, kept>>
    PROVE  \A u \in Thread : KeptOK(u)' /\ Returned(u)
BY DEF KInv, KeptOK, Returned

LEMMA StepHands ==
    ASSUME KInv, NEW t \in Thread, Start(t) \/ Step(t)
    PROVE  Handed(t) \/ UNCHANGED <<pc, caller, kept>>
<1> USE HandOf
<1>0. {"cached", "vfile", "vquery", "ver", "addr", "transfer", "read"} \subseteq Waiting
      /\ "idle" \notin Waiting /\ "start" \notin Waiting /\ "sysfs" \notin Waiting
    BY DEF Waiting, Sequence
<1>1. CASE Start(t)
    <2>1. kept[t] = NoData  BY <1>1, <1>0 DEF Start
    <2>2. /\ pc' = Set(pc, t, "start") /\ caller' = Set(caller, t, caller[t])
          /\ kept' = Set(kept, t, kept[t]) /\ result' = Set(result, t, Nothing)
        BY <1>1 DEF Start, Goto, KInv, IInv, TypeOK, Set
    <2> QED  BY <2>1, <2>2 DEF Handed
<1>2. CASE Enter(t)
    <2>1. kept[t] = NoData  BY <1>2, <1>0 DEF Enter
    <2>2. CASE Goto(t, "cached") /\ caller' = Set(caller, t, "version") /\ UNCHANGED <<kept, result>>
        BY <2>1, <2>2, MoveHands
    <2>3. CASE op[t] \in {"full", "table"} /\ EnterSequence(t, op[t])
        <3>1. op[t] \in Callers \ {None}  BY <2>3 DEF Callers, None
        <3> QED  BY <2>1, <2>3, <3>1, EnterHands
    <2>4. CASE Goto(t, "sysfs") /\ UNCHANGED <<caller, kept, result>>
        <3>1. caller' = Set(caller, t, caller[t])  BY <2>4 DEF KInv, IInv, TypeOK, Set
        <3> QED  BY <2>1, <2>4, <3>1, MoveHands
    <2> QED  BY <1>2, <2>2, <2>3, <2>4 DEF Enter
<1>3. CASE SysfsRead(t)
    <2>1. kept[t] = NoData  BY <1>3, <1>0 DEF SysfsRead
    <2>2. CASE Finish(t, "fresh", FALSE)  BY <2>1, <2>2, FinishHands
    <2>3. CASE /\ kept' = Set(kept, t, "fresh") /\ caller' = Set(caller, t, "fullversion")
               /\ Goto(t, "cached") /\ UNCHANGED result
        <3>1. result' = Set(result, t, result[t])  BY <2>3 DEF KInv, IInv, TypeOK, Set
        <3>2. pc' = Set(pc, t, "cached")  BY <2>3 DEF Goto
        <3> QED  BY <1>0, <2>1, <2>3, <3>1, <3>2 DEF Handed
    <2> QED  BY <1>3, <2>2, <2>3 DEF SysfsRead
<1>4. CASE SysfsEmpty(t)
    <2>1. kept[t] = NoData  BY <1>4, <1>0 DEF SysfsEmpty
    <2>2. CASE Finish(t, NoData, FALSE)  BY <2>1, <2>2, FinishHands
    <2>3. CASE EnterSequence(t, "again")
        <3>1. "again" \in Callers \ {None}  BY DEF Callers, None
        <3> QED  BY <2>1, <2>3, <3>1, EnterHands
    <2> QED  BY <1>4, <2>2, <2>3 DEF SysfsEmpty
<1>5. CASE SysfsFails(t)
    <2>1. kept[t] = NoData  BY <1>5, <1>0 DEF SysfsFails
    <2> DEFINE who == IF op[t] = "table" THEN "table" ELSE "fulltable"
    <2>2. who \in Callers \ {None} /\ EnterSequence(t, who)
        BY <1>5 DEF SysfsFails, Callers, None
    <2> HIDE DEF who
    <2> QED  BY <2>1, <2>2, EnterHands
<1>6. CASE VersionCached(t)
    <2>1. caller[t] \in Callers \ {None} /\ pc[t] \in Waiting  BY <1>6, <1>0 DEF VersionCached
    <2>2. CASE SequenceReturns(t, caller[t], NoData, TRUE)  BY <2>1, <2>2, SequenceHands
    <2>3. CASE \E l \in {"vquery", "vfile"} : Goto(t, l) /\ UNCHANGED <<caller, kept, result>>
        BY <1>0, <2>1, <2>3, StayHands
    <2> QED  BY <1>6, <2>2, <2>3 DEF VersionCached
<1>7. CASE VersionFile(t)
    <2>1. caller[t] \in Callers \ {None} /\ pc[t] \in Waiting  BY <1>7, <1>0 DEF VersionFile
    <2>2. CASE SequenceReturns(t, caller[t], NoData, TRUE)  BY <2>1, <2>2, SequenceHands
    <2>3. CASE Goto(t, "vquery") /\ UNCHANGED <<caller, kept, result>>
        BY <1>0, <2>1, <2>3, StayHands
    <2> QED  BY <1>7, <2>2, <2>3 DEF VersionFile
<1>8. CASE VersionQuery(t)
    <2>1. caller[t] \in Callers \ {None} /\ pc[t] \in Waiting  BY <1>8, <1>0 DEF VersionQuery
    <2>2. CASE SequenceReturns(t, caller[t], NoData, TRUE)  BY <2>1, <2>2, SequenceHands
    <2>3. CASE EnterSequence(t, caller[t])  BY <2>1, <2>3, EnterHands
    <2> QED  BY <1>8, <2>2, <2>3 DEF VersionQuery
<1>9. CASE CommandRaises(t)
    <2>1. Raise(t) /\ AtCommand(t)  BY <1>9 DEF CommandRaises
    <2> QED  BY <2>1, RaiseHands
<1>10. CASE SequenceVersion(t) \/ SequenceAddress(t) \/ SequenceTransfer(t)
    <2>1. caller[t] \in Callers \ {None} /\ pc[t] \in Waiting
        BY <1>10, <1>0 DEF SequenceVersion, SequenceAddress, SequenceTransfer, Commands
    <2>2. CASE Gives(t)  BY <2>1, <2>2, SequenceHands DEF Gives
    <2>3. CASE \E l \in {"addr", "transfer", "read"} :
                  Goto(t, l) /\ UNCHANGED <<caller, kept, result>>
        BY <1>0, <2>1, <2>3, StayHands
    <2>4. Gives(t) \/ UNCHANGED <<pc, caller, kept>>
          \/ \E l \in {"addr", "transfer", "read"} :
                Goto(t, l) /\ UNCHANGED <<caller, kept, result>>
        BY <1>10 DEF SequenceVersion, SequenceAddress, SequenceTransfer, Transferred
    <2> QED  BY <2>2, <2>3, <2>4
<1>11. CASE SequenceRead(t)
    <2>1. caller[t] \in Callers \ {None} /\ pc[t] \in Waiting  BY <1>11, <1>0 DEF SequenceRead
    <2>2. \E d, v : SequenceReturns(t, caller[t], d, v)  BY <1>11 DEF SequenceRead, Gives
    <2> QED  BY <2>1, <2>2, SequenceHands
<1> QED
    BY <1>1, <1>2, <1>3, <1>4, <1>5, <1>6, <1>7, <1>8, <1>9, <1>10, <1>11 DEF Step

LEMMA KInvNext == KInv /\ [Next]_vars => KInv' /\ \A t \in Thread : Returned(t)
<1> SUFFICES ASSUME KInv, [Next]_vars PROVE KInv' /\ \A t \in Thread : Returned(t)
    OBVIOUS
<1>1. IInv'  BY IInvNext DEF KInv
<1>2. \A u \in Thread : KeptOK(u)' /\ Returned(u)
    <2>1. CASE UNCHANGED <<pc, caller, kept>>  BY <2>1, StillHands
    <2>2. CASE \E t \in Thread : Start(t) \/ Step(t)
        <3>1. PICK t \in Thread : Start(t) \/ Step(t)  BY <2>2
        <3>2. Handed(t) \/ UNCHANGED <<pc, caller, kept>>  BY <3>1, StepHands
        <3> QED  BY <2>1, <3>2, HandedKeeps
    <2>3. CASE Close \/ OtherTransfers \/ Finished \/ UNCHANGED vars
        BY <2>1, <2>3 DEF Close, OtherTransfers, Finished, vars
    <2> QED  BY <2>2, <2>3 DEF Next
<1> QED  BY <1>1, <1>2 DEF KInv

LEMMA KInvInit == Init => KInv
<1>1. Init => \A t \in Thread : KeptOK(t)  BY DEF Init, KeptOK
<1> QED  BY <1>1, IInvInit DEF KInv

\* A table read from the module's files is returned with or without its
\* version, by any number of threads and through every fallback; only an
\* exception of a command can cost it, and the caller sees that exception.
THEOREM TableIsReturned == Spec => ReadIsReturned
<1> DEFINE A == \A t \in Thread :
          kept[t] # NoData /\ kept'[t] = NoData =>
             result'[t].data = kept[t] \/ (result'[t].raised /\ AtCommand(t))
<1>1. KInv /\ [Next]_vars => KInv' /\ [A]_vars  BY KInvNext DEF Returned
<1> HIDE DEF A
<1>2. Spec => [][A]_vars  BY <1>1, KInvInit, PTL DEF Spec
<1> QED  BY <1>2 DEF ReadIsReturned, A

=============================================================================

----------------------- MODULE LinuxLifecycleProofs -----------------------
(***************************************************************************)
(* Proofs about LinuxLifecycle, for any number of threads, operations and  *)
(* descriptors.  As long as no close() has overlapped another operation,   *)
(* an access reaches its device and close() leaves no device open; as long *)
(* as no close() has overlapped another close(), nobody closes another     *)
(* thread's lock file.                                                     *)
(***************************************************************************)
EXTENDS LinuxLifecycle, WellFoundedInduction, TLAPS

\* The places of a call; with a device chosen; behind _lock; with _fd.
Calling == {"prims", "lock", "guard", "getfd", "openfd", "retfd", "unguard", "unlock"} \cup Io
Chosen  == {"lock", "guard", "getfd", "openfd", "retfd"} \cup Io
Held    == {"guard", "getfd", "openfd", "retfd", "unguard", "unlock"} \cup Io
HasFile == {"retfd", "unguard"} \cup Io
\* The places where the lock file may be open.
Guarded == {"probe", "probed", "getfd", "openfd", "retfd", "unguard"} \cup Io

\* What Secure Boot makes the backend, and its device: _backend never changes
\* to anything else.
Kind   == IF SecureBoot THEN "ryzen_smu" ELSE "pci"
MyFile == IF SecureBoot THEN "smn" ELSE "config"

\* close() meets nobody, and no two threads have opened the same number.
Apart(t, u) ==
    t # u => /\ Closing(t) => pc[u] = "idle"
             /\ guardfd[t] # NoFd => guardfd[t] # guardfd[u]
             /\ pc[t] = "probed" /\ pc[u] = "probed" /\ myfd[t] # NoFd => myfd[t] # myfd[u]

\* What a thread has in hand at each place of a call, ...
CallOK(t) ==
    /\ pc[t] \in Calling => backend # None
    /\ pc[t] \in Held => lock = t
    /\ pc[t] \in Chosen => prims[t] = MyFile
    /\ pc[t] = "openfd" => fd = NoFd
    /\ pc[t] \in HasFile => fd # NoFd
    /\ pc[t] \in Io \cup {"unguard"} => myfd[t] = fd

\* ... of the files it has opened, ...
FilesOK(t) ==
    /\ guardfd[t] # NoFd => table[guardfd[t]] = "lockfile" /\ pc[t] \in Guarded
    /\ myfd[t] # NoFd => pc[t] \in Io \cup {"unguard", "probed"}
    /\ pc[t] = "probed" /\ myfd[t] # NoFd => table[myfd[t]] = "config" /\ myfd[t] # fd

\* ... and of close().
CloseOK(t) ==
    /\ pc[t] = "close2" => fd # NoFd
    /\ pc[t] = "close3" => fd = NoFd \/ table[fd] = "free"
    /\ pc[t] = "close4" => fd = NoFd

ThreadOK(t) == CallOK(t) /\ FilesOK(t) /\ CloseOK(t)

\* _fd names the device of the backend, until close() is about to forget it.
BackendOK ==
    /\ backend \in {None, Kind}
    /\ fd # NoFd => backend # None
FdOK ==
    (\A t \in Thread : pc[t] # "close3") => fd = NoFd \/ table[fd] = MyFile

\* Whatever is open is _fd, or in the hand of a thread.
Kept(n) ==
    table[n] # "free" =>
        n = fd \/ \E t \in Thread : n = myfd[t] \/ n = guardfd[t]

\* What holds whatever close() meets.
TypeInv == TypeOK /\ \A t \in Thread : pc[t] \in Chosen => prims[t] \in Device

\* What holds as long as no close() has overlapped anything ("cut").
IInv == /\ TypeOK /\ BackendOK /\ FdOK
        /\ \A t, u \in Thread : Apart(t, u)
        /\ \A t \in Thread : ThreadOK(t)
        /\ \A n \in Fd : Kept(n)

-----------------------------------------------------------------------------
\* Every set of numbers has a least one, so that os.open finds it.
LEMMA Least ==
    ASSUME NEW S, S \subseteq Nat, S # {}
    PROVE  \E n \in S : \A i \in S : ~(i < n)
<1>1. PICK n \in S : \A i \in S : <<i, n>> \notin OpToRel(<, Nat)
    BY NatLessThanWellFounded, WFMin, Zenon
<1>2. n \in S  BY <1>1
<1>3. \A i \in S : ~(i < n)  BY <1>1 DEF OpToRel
<1> QED  BY <1>2, <1>3, Zenon

LEMMA LowestIsFree == Room => Lowest \in Fd /\ table[Lowest] = "free"
<1> SUFFICES ASSUME Room PROVE Lowest \in Fd /\ table[Lowest] = "free"
    OBVIOUS
<1> DEFINE S == {n \in Fd : table[n] = "free"}
<1>1. S \subseteq Nat /\ S # {}  BY DEF Fd, Room
<1>2. PICK n \in S : \A i \in S : ~(i < n)  BY <1>1, Least, Zenon
<1>3. n \in Fd /\ table[n] = "free" /\ \A i \in Fd : i < n => table[i] # "free"
    BY <1>2
<1> QED  BY <1>3 DEF Lowest

LEMMA TypeInit == Init => TypeOK
<1> SUFFICES ASSUME Init PROVE TypeOK
    OBVIOUS
<1> USE DEF Init, Labels
<1>1. SecureBoot \in BOOLEAN /\ driver \in BOOLEAN
    OBVIOUS
<1>2. /\ backend = None /\ fd = NoFd /\ lock = NoThread
      /\ table \in [Fd -> {"free", "lockfile"} \cup Device]
    OBVIOUS
<1>3. pc \in [Thread -> Labels] /\ ops \in [Thread -> 0..MaxOps]
    BY SizeAssumption
<1>4. /\ prims \in [Thread -> {None} \cup Device]
      /\ myfd \in [Thread -> Fd \cup {NoFd}]
      /\ guardfd \in [Thread -> Fd \cup {NoFd}]
    OBVIOUS
<1> QED  BY <1>1, <1>2, <1>3, <1>4 DEF TypeOK

\* What a start leaves of the other variables.
LEMMA Starts ==
    ASSUME NEW t \in Thread, Start(t)
    PROVE  /\ pc' = pc \/ \E op \in {"init", "prims", "close1"} : pc' = [pc EXCEPT ![t] = op]
           /\ ops[t] < MaxOps /\ ops' = Set(ops, t, ops[t] + 1)
           /\ harm \subseteq harm' /\ harm' \subseteq harm \cup Harm
           /\ UNCHANGED <<machine, backend, fd, table, lock, prims, myfd, guardfd>>
<1>1. PICK op \in {"init", "prims", "close1"} :
        /\ IF op = "prims" /\ backend = None THEN UNCHANGED pc ELSE Goto(t, op)
        /\ harm' = harm \cup Met(t, op)
  BY DEF Start
<1>2. Met(t, op) \subseteq Harm  BY DEF Met, Harm
<1> QED  BY <1>1, <1>2 DEF Start, Goto

\* A call opens what it has chosen, and it has chosen a device.
LEMMA TypeNext == TypeInv /\ [Next]_vars => TypeOK'
<1> SUFFICES ASSUME TypeInv, [Next]_vars PROVE TypeOK'
    OBVIOUS
<1>0. TypeOK  BY DEF TypeInv
<1> USE SizeAssumption, ThreadAssumption, LowestIsFree, <1>0
    DEF TypeOK, Labels, Io, Set, Goto, Device
<1>1. CASE LoadDriver  BY <1>1 DEF LoadDriver, machine, local
<1>2. CASE UNCHANGED vars  BY <1>2 DEF vars, machine, local
<1>3. ASSUME NEW t \in Thread, Start(t) PROVE TypeOK'
    <2>1. pc' \in [Thread -> Labels]
        BY <1>3, Starts
    <2>2. ops' \in [Thread -> 0..MaxOps]
        <3>1. ops[t] < MaxOps /\ ops' = Set(ops, t, ops[t] + 1)  BY <1>3, Starts
        <3> QED  BY <3>1
    <2>3. UNCHANGED <<machine, backend, fd, table, lock, prims, myfd, guardfd>>
        BY <1>3, Starts
    <2>4. harm' \subseteq Harm
        <3>1. harm' \subseteq harm \cup Harm  BY <1>3, Starts
        <3> QED  BY <3>1
    <2> QED  BY <2>1, <2>2, <2>3, <2>4 DEF machine
<1>4. ASSUME NEW t \in Thread, InitCheck(t) PROVE TypeOK'
    BY <1>4 DEF InitCheck, machine, local, Opened, Closed
<1>5. ASSUME NEW t \in Thread, InitProbe(t) PROVE TypeOK'
    BY <1>5 DEF InitProbe, machine, local, Opened, Closed
<1>6. ASSUME NEW t \in Thread, InitProbed(t) PROVE TypeOK'
    BY <1>6 DEF InitProbed, machine, local, Opened, Closed
<1>7. ASSUME NEW t \in Thread, InitSet(t) PROVE TypeOK'
    BY <1>7 DEF InitSet, machine, local, Opened, Closed
<1>8. ASSUME NEW t \in Thread, ChoosePrims(t) PROVE TypeOK'
    BY <1>8 DEF ChoosePrims, machine, local, Opened, Closed
<1>9. ASSUME NEW t \in Thread, TakeLock(t) PROVE TypeOK'
    BY <1>9 DEF TakeLock, machine, local, Opened, Closed
<1>10. ASSUME NEW t \in Thread, EnterGuard(t) PROVE TypeOK'
    BY <1>10 DEF EnterGuard, machine, local, Opened, Closed
<1>11. ASSUME NEW t \in Thread, CheckFd(t) PROVE TypeOK'
    BY <1>11 DEF CheckFd, machine, local, Opened, Closed
<1>12. ASSUME NEW t \in Thread, OpenFd(t) PROVE TypeOK'
    <2>1. prims[t] \in Device  BY <1>12 DEF OpenFd, TypeInv, Chosen
    <2> QED  BY <1>12, <2>1 DEF OpenFd, Opened, machine
<1>13. ASSUME NEW t \in Thread, ReturnFd(t) PROVE TypeOK'
    BY <1>13 DEF ReturnFd, machine, local, Opened, Closed
<1>14. ASSUME NEW t \in Thread, Access(t) PROVE TypeOK'
    BY <1>14 DEF Access, machine, local, Opened, Closed
<1>15. ASSUME NEW t \in Thread, LeaveGuard(t) PROVE TypeOK'
    BY <1>15 DEF LeaveGuard, machine, local, Opened, Closed
<1>16. ASSUME NEW t \in Thread, Unlock(t) PROVE TypeOK'
    BY <1>16 DEF Unlock, machine, local, Opened, Closed
<1>17. ASSUME NEW t \in Thread, CloseCheck(t) PROVE TypeOK'
    BY <1>17 DEF CloseCheck, machine, local, Opened, Closed
<1>18. ASSUME NEW t \in Thread, CloseFd(t) PROVE TypeOK'
    BY <1>18 DEF CloseFd, machine, local, Opened, Closed
<1>19. ASSUME NEW t \in Thread, CloseForget(t) PROVE TypeOK'
    BY <1>19 DEF CloseForget, machine, local, Opened, Closed
<1>20. ASSUME NEW t \in Thread, CloseReset(t) PROVE TypeOK'
    BY <1>20 DEF CloseReset, machine, local, Opened, Closed
<1> QED
    BY <1>1, <1>2, <1>3, <1>4, <1>5, <1>6, <1>7, <1>8, <1>9, <1>10,
       <1>11, <1>12, <1>13, <1>14, <1>15, <1>16, <1>17, <1>18, <1>19, <1>20 DEF Next, Finished

LEMMA ChosenNext ==
    ASSUME TypeInv, [Next]_vars, NEW u \in Thread
    PROVE  pc'[u] \in Chosen => prims'[u] \in Device
<1>0. TypeOK /\ (pc[u] \in Chosen => prims[u] \in Device)  BY DEF TypeInv
<1> USE <1>0 DEF TypeOK, Chosen, Io, Set, Goto, Device
<1>1. CASE LoadDriver  BY <1>1 DEF LoadDriver, machine, local
<1>2. CASE UNCHANGED vars  BY <1>2 DEF vars, machine, local
<1>3. ASSUME NEW t \in Thread, Start(t) PROVE pc'[u] \in Chosen => prims'[u] \in Device
    BY <1>3, Starts
<1>4. ASSUME NEW t \in Thread, InitCheck(t) PROVE pc'[u] \in Chosen => prims'[u] \in Device
    BY <1>4 DEF InitCheck, machine, local, Opened, Closed
<1>5. ASSUME NEW t \in Thread, InitProbe(t) PROVE pc'[u] \in Chosen => prims'[u] \in Device
    BY <1>5 DEF InitProbe, machine, local, Opened, Closed
<1>6. ASSUME NEW t \in Thread, InitProbed(t) PROVE pc'[u] \in Chosen => prims'[u] \in Device
    BY <1>6 DEF InitProbed, machine, local, Opened, Closed
<1>7. ASSUME NEW t \in Thread, InitSet(t) PROVE pc'[u] \in Chosen => prims'[u] \in Device
    BY <1>7 DEF InitSet, machine, local, Opened, Closed
<1>8. ASSUME NEW t \in Thread, ChoosePrims(t) PROVE pc'[u] \in Chosen => prims'[u] \in Device
    BY <1>8 DEF ChoosePrims, machine, local, Opened, Closed
<1>9. ASSUME NEW t \in Thread, TakeLock(t) PROVE pc'[u] \in Chosen => prims'[u] \in Device
    BY <1>9 DEF TakeLock, machine, local, Opened, Closed
<1>10. ASSUME NEW t \in Thread, EnterGuard(t) PROVE pc'[u] \in Chosen => prims'[u] \in Device
    BY <1>10 DEF EnterGuard, machine, local, Opened, Closed
<1>11. ASSUME NEW t \in Thread, CheckFd(t) PROVE pc'[u] \in Chosen => prims'[u] \in Device
    BY <1>11 DEF CheckFd, machine, local, Opened, Closed
<1>12. ASSUME NEW t \in Thread, OpenFd(t) PROVE pc'[u] \in Chosen => prims'[u] \in Device
    BY <1>12 DEF OpenFd, machine, local, Opened, Closed
<1>13. ASSUME NEW t \in Thread, ReturnFd(t) PROVE pc'[u] \in Chosen => prims'[u] \in Device
    BY <1>13 DEF ReturnFd, machine, local, Opened, Closed
<1>14. ASSUME NEW t \in Thread, Access(t) PROVE pc'[u] \in Chosen => prims'[u] \in Device
    BY <1>14 DEF Access, machine, local, Opened, Closed
<1>15. ASSUME NEW t \in Thread, LeaveGuard(t) PROVE pc'[u] \in Chosen => prims'[u] \in Device
    BY <1>15 DEF LeaveGuard, machine, local, Opened, Closed
<1>16. ASSUME NEW t \in Thread, Unlock(t) PROVE pc'[u] \in Chosen => prims'[u] \in Device
    BY <1>16 DEF Unlock, machine, local, Opened, Closed
<1>17. ASSUME NEW t \in Thread, CloseCheck(t) PROVE pc'[u] \in Chosen => prims'[u] \in Device
    BY <1>17 DEF CloseCheck, machine, local, Opened, Closed
<1>18. ASSUME NEW t \in Thread, CloseFd(t) PROVE pc'[u] \in Chosen => prims'[u] \in Device
    BY <1>18 DEF CloseFd, machine, local, Opened, Closed
<1>19. ASSUME NEW t \in Thread, CloseForget(t) PROVE pc'[u] \in Chosen => prims'[u] \in Device
    BY <1>19 DEF CloseForget, machine, local, Opened, Closed
<1>20. ASSUME NEW t \in Thread, CloseReset(t) PROVE pc'[u] \in Chosen => prims'[u] \in Device
    BY <1>20 DEF CloseReset, machine, local, Opened, Closed
<1> QED
    BY <1>1, <1>2, <1>3, <1>4, <1>5, <1>6, <1>7, <1>8, <1>9, <1>10,
       <1>11, <1>12, <1>13, <1>14, <1>15, <1>16, <1>17, <1>18, <1>19, <1>20 DEF Next, Finished

LEMMA TypeInvNext == TypeInv /\ [Next]_vars => TypeInv'
BY TypeNext, ChosenNext DEF TypeInv

\* What has happened is not forgotten.
LEMMA HarmGrows == [Next]_vars => harm \subseteq harm'
<1> SUFFICES ASSUME [Next]_vars PROVE harm \subseteq harm'
    OBVIOUS
<1>1. CASE LoadDriver  BY <1>1 DEF LoadDriver, machine, local
<1>2. CASE UNCHANGED vars  BY <1>2 DEF vars, machine, local
<1>3. ASSUME NEW t \in Thread, Start(t) PROVE harm \subseteq harm'
    BY <1>3, Starts
<1>4. ASSUME NEW t \in Thread, InitCheck(t) PROVE harm \subseteq harm'
    BY <1>4 DEF InitCheck, machine, local, Opened, Closed
<1>5. ASSUME NEW t \in Thread, InitProbe(t) PROVE harm \subseteq harm'
    BY <1>5 DEF InitProbe, machine, local, Opened, Closed
<1>6. ASSUME NEW t \in Thread, InitProbed(t) PROVE harm \subseteq harm'
    BY <1>6 DEF InitProbed, machine, local, Opened, Closed
<1>7. ASSUME NEW t \in Thread, InitSet(t) PROVE harm \subseteq harm'
    BY <1>7 DEF InitSet, machine, local, Opened, Closed
<1>8. ASSUME NEW t \in Thread, ChoosePrims(t) PROVE harm \subseteq harm'
    BY <1>8 DEF ChoosePrims, machine, local, Opened, Closed
<1>9. ASSUME NEW t \in Thread, TakeLock(t) PROVE harm \subseteq harm'
    BY <1>9 DEF TakeLock, machine, local, Opened, Closed
<1>10. ASSUME NEW t \in Thread, EnterGuard(t) PROVE harm \subseteq harm'
    BY <1>10 DEF EnterGuard, machine, local, Opened, Closed
<1>11. ASSUME NEW t \in Thread, CheckFd(t) PROVE harm \subseteq harm'
    BY <1>11 DEF CheckFd, machine, local, Opened, Closed
<1>12. ASSUME NEW t \in Thread, OpenFd(t) PROVE harm \subseteq harm'
    BY <1>12 DEF OpenFd, machine, local, Opened, Closed
<1>13. ASSUME NEW t \in Thread, ReturnFd(t) PROVE harm \subseteq harm'
    BY <1>13 DEF ReturnFd, machine, local, Opened, Closed
<1>14. ASSUME NEW t \in Thread, Access(t) PROVE harm \subseteq harm'
    BY <1>14 DEF Access, machine, local, Opened, Closed
<1>15. ASSUME NEW t \in Thread, LeaveGuard(t) PROVE harm \subseteq harm'
    BY <1>15 DEF LeaveGuard, machine, local, Opened, Closed
<1>16. ASSUME NEW t \in Thread, Unlock(t) PROVE harm \subseteq harm'
    BY <1>16 DEF Unlock, machine, local, Opened, Closed
<1>17. ASSUME NEW t \in Thread, CloseCheck(t) PROVE harm \subseteq harm'
    BY <1>17 DEF CloseCheck, machine, local, Opened, Closed
<1>18. ASSUME NEW t \in Thread, CloseFd(t) PROVE harm \subseteq harm'
    BY <1>18 DEF CloseFd, machine, local, Opened, Closed
<1>19. ASSUME NEW t \in Thread, CloseForget(t) PROVE harm \subseteq harm'
    BY <1>19 DEF CloseForget, machine, local, Opened, Closed
<1>20. ASSUME NEW t \in Thread, CloseReset(t) PROVE harm \subseteq harm'
    BY <1>20 DEF CloseReset, machine, local, Opened, Closed
<1> QED
    BY <1>1, <1>2, <1>3, <1>4, <1>5, <1>6, <1>7, <1>8, <1>9, <1>10,
       <1>11, <1>12, <1>13, <1>14, <1>15, <1>16, <1>17, <1>18, <1>19, <1>20 DEF Next, Finished

\* Without "cut", close() starts when all are idle and nothing starts during
\* it; without "twice", no other close() does.
LEMMA StartsApart ==
    ASSUME NEW t \in Thread, Start(t), pc[t] = "idle", pc \in [Thread -> Labels]
    PROVE  /\ "cut" \notin harm' =>
                \A u \in Thread \ {t} : ~Closing(u) /\ (Closing(t)' => pc[u] = "idle")
           /\ "twice" \notin harm' =>
                \A u \in Thread \ {t} : Closing(t)' => ~Closing(u)
<1>1. PICK op \in {"init", "prims", "close1"} :
        /\ IF op = "prims" /\ backend = None THEN UNCHANGED pc ELSE Goto(t, op)
        /\ harm' = harm \cup Met(t, op)
  BY DEF Start
<1>2. Closing(t)' => op = "close1"
  BY <1>1 DEF Closing, Goto
<1> DEFINE closing == \E u \in Thread \ {t} : Closing(u)
           any     == \E u \in Thread \ {t} : pc[u] # "idle"
<1>3. Met(t, op) = (IF closing \/ (op = "close1" /\ any) THEN {"cut"} ELSE {})
                     \cup (IF closing /\ op = "close1" THEN {"twice"} ELSE {})
  BY DEF Met
<1>4. "cut" \notin harm' => ~closing /\ (op = "close1" => ~any)
  BY <1>1, <1>3
<1>5. "twice" \notin harm' /\ op = "close1" => ~closing
  BY <1>1, <1>3
<1> QED  BY <1>2, <1>4, <1>5

\* close() starts when all are idle, and nothing starts during it; a number
\* just opened was free, while all that are in hand name a file.
LEMMA ApartNext ==
    ASSUME "cut" \notin harm', IInv, [Next]_vars, NEW u \in Thread, NEW v \in Thread
    PROVE  Apart(u, v)'
<1>0. /\ TypeOK /\ Apart(u, v) /\ \A t \in Thread : Apart(t, u) /\ Apart(t, v)
      /\ \A t \in Thread : FilesOK(t)
    BY DEF IInv, ThreadOK
<1> USE <1>0, LowestIsFree DEF TypeOK, Apart, FilesOK, Closing, Guarded, Io, Set, Goto
<1>1. CASE LoadDriver  BY <1>1 DEF LoadDriver, machine, local
<1>2. CASE UNCHANGED vars  BY <1>2 DEF vars, machine, local
<1>3. ASSUME NEW t \in Thread, Start(t) PROVE Apart(u, v)'
    <2>1. \A w \in Thread \ {t} : ~Closing(w) /\ (Closing(t)' => pc[w] = "idle")
        BY <1>3, StartsApart DEF Start
    <2>2. /\ \A w \in Thread \ {t} : pc'[w] = pc[w]
          /\ pc[t] = "idle" /\ pc'[t] # "probed"
          /\ UNCHANGED <<guardfd, myfd>>
        BY <1>3, Starts DEF Start
    <2> HIDE <1>0
    <2>3. Apart(u, v)  BY <1>0
    <2> QED  BY <2>1, <2>2, <2>3
<1>4. ASSUME NEW t \in Thread, InitCheck(t) PROVE Apart(u, v)'
    BY <1>4 DEF InitCheck, machine, local, Opened, Closed
<1>5. ASSUME NEW t \in Thread, InitProbe(t) PROVE Apart(u, v)'
    BY <1>5 DEF InitProbe, machine, local, Opened, Closed
<1>6. ASSUME NEW t \in Thread, InitProbed(t) PROVE Apart(u, v)'
    BY <1>6 DEF InitProbed, machine, local, Opened, Closed
<1>7. ASSUME NEW t \in Thread, InitSet(t) PROVE Apart(u, v)'
    BY <1>7 DEF InitSet, machine, local, Opened, Closed
<1>8. ASSUME NEW t \in Thread, ChoosePrims(t) PROVE Apart(u, v)'
    BY <1>8 DEF ChoosePrims, machine, local, Opened, Closed
<1>9. ASSUME NEW t \in Thread, TakeLock(t) PROVE Apart(u, v)'
    BY <1>9 DEF TakeLock, machine, local, Opened, Closed
<1>10. ASSUME NEW t \in Thread, EnterGuard(t) PROVE Apart(u, v)'
    BY <1>10 DEF EnterGuard, machine, local, Opened, Closed
<1>11. ASSUME NEW t \in Thread, CheckFd(t) PROVE Apart(u, v)'
    BY <1>11 DEF CheckFd, machine, local, Opened, Closed
<1>12. ASSUME NEW t \in Thread, OpenFd(t) PROVE Apart(u, v)'
    BY <1>12 DEF OpenFd, machine, local, Opened, Closed
<1>13. ASSUME NEW t \in Thread, ReturnFd(t) PROVE Apart(u, v)'
    BY <1>13 DEF ReturnFd, machine, local, Opened, Closed
<1>14. ASSUME NEW t \in Thread, Access(t) PROVE Apart(u, v)'
    BY <1>14 DEF Access, machine, local, Opened, Closed
<1>15. ASSUME NEW t \in Thread, LeaveGuard(t) PROVE Apart(u, v)'
    BY <1>15 DEF LeaveGuard, machine, local, Opened, Closed
<1>16. ASSUME NEW t \in Thread, Unlock(t) PROVE Apart(u, v)'
    BY <1>16 DEF Unlock, machine, local, Opened, Closed
<1>17. ASSUME NEW t \in Thread, CloseCheck(t) PROVE Apart(u, v)'
    BY <1>17 DEF CloseCheck, machine, local, Opened, Closed
<1>18. ASSUME NEW t \in Thread, CloseFd(t) PROVE Apart(u, v)'
    BY <1>18 DEF CloseFd, machine, local, Opened, Closed
<1>19. ASSUME NEW t \in Thread, CloseForget(t) PROVE Apart(u, v)'
    BY <1>19 DEF CloseForget, machine, local, Opened, Closed
<1>20. ASSUME NEW t \in Thread, CloseReset(t) PROVE Apart(u, v)'
    BY <1>20 DEF CloseReset, machine, local, Opened, Closed
<1> QED
    BY <1>1, <1>2, <1>3, <1>4, <1>5, <1>6, <1>7, <1>8, <1>9, <1>10,
       <1>11, <1>12, <1>13, <1>14, <1>15, <1>16, <1>17, <1>18, <1>19, <1>20 DEF Next, Finished

\* Only who has _lock sets _fd, and nobody forgets it or the backend.
LEMMA CallNext ==
    ASSUME IInv, [Next]_vars, NEW u \in Thread PROVE CallOK(u)'
<1>0. /\ TypeOK /\ BackendOK /\ FdOK /\ ThreadOK(u)
      /\ \A t \in Thread : Apart(t, u) /\ Apart(u, t) /\ ThreadOK(t)
    BY DEF IInv
<1> USE <1>0, ThreadAssumption, LowestIsFree
    DEF TypeOK, Apart, ThreadOK, CallOK, Closing, Calling, Chosen, Held, HasFile, Guarded, Io, Set, Goto, BackendOK, MyFile, Kind, None
<1>1. CASE LoadDriver  BY <1>1 DEF LoadDriver, machine, local
<1>2. CASE UNCHANGED vars  BY <1>2 DEF vars, machine, local
<1>3. ASSUME NEW t \in Thread, Start(t) PROVE CallOK(u)'
    BY <1>3, Starts DEF Start, machine
<1>4. ASSUME NEW t \in Thread, InitCheck(t) PROVE CallOK(u)'
    BY <1>4 DEF InitCheck, machine, local, Opened, Closed
<1>5. ASSUME NEW t \in Thread, InitProbe(t) PROVE CallOK(u)'
    BY <1>5 DEF InitProbe, machine, local, Opened, Closed
<1>6. ASSUME NEW t \in Thread, InitProbed(t) PROVE CallOK(u)'
    BY <1>6 DEF InitProbed, machine, local, Opened, Closed
<1>7. ASSUME NEW t \in Thread, InitSet(t) PROVE CallOK(u)'
    BY <1>7 DEF InitSet, machine, local, Opened, Closed
<1>8. ASSUME NEW t \in Thread, ChoosePrims(t) PROVE CallOK(u)'
    BY <1>8 DEF ChoosePrims, machine, local, Opened, Closed
<1>9. ASSUME NEW t \in Thread, TakeLock(t) PROVE CallOK(u)'
    BY <1>9 DEF TakeLock, machine, local, Opened, Closed
<1>10. ASSUME NEW t \in Thread, EnterGuard(t) PROVE CallOK(u)'
    BY <1>10 DEF EnterGuard, machine, local, Opened, Closed
<1>11. ASSUME NEW t \in Thread, CheckFd(t) PROVE CallOK(u)'
    BY <1>11 DEF CheckFd, machine, local, Opened, Closed
<1>12. ASSUME NEW t \in Thread, OpenFd(t) PROVE CallOK(u)'
    <2>1. Lowest # NoFd /\ Lowest \in Fd
        <3>1. Lowest \in Fd  BY <1>12 DEF OpenFd
        <3> QED  BY <3>1 DEF Fd, NoFd
    <2>2. CASE u = t  BY <1>12, <2>1, <2>2 DEF OpenFd, machine
    <2>3. CASE u # t  BY <1>12, <2>3 DEF OpenFd, machine
    <2> QED  BY <2>2, <2>3
<1>13. ASSUME NEW t \in Thread, ReturnFd(t) PROVE CallOK(u)'
    BY <1>13 DEF ReturnFd, machine, local, Opened, Closed
<1>14. ASSUME NEW t \in Thread, Access(t) PROVE CallOK(u)'
    BY <1>14 DEF Access, machine, local, Opened, Closed
<1>15. ASSUME NEW t \in Thread, LeaveGuard(t) PROVE CallOK(u)'
    BY <1>15 DEF LeaveGuard, machine, local, Opened, Closed
<1>16. ASSUME NEW t \in Thread, Unlock(t) PROVE CallOK(u)'
    BY <1>16 DEF Unlock, machine, local, Opened, Closed
<1>17. ASSUME NEW t \in Thread, CloseCheck(t) PROVE CallOK(u)'
    BY <1>17 DEF CloseCheck, machine, local, Opened, Closed
<1>18. ASSUME NEW t \in Thread, CloseFd(t) PROVE CallOK(u)'
    BY <1>18 DEF CloseFd, machine, local, Opened, Closed
<1>19. ASSUME NEW t \in Thread, CloseForget(t) PROVE CallOK(u)'
    BY <1>19 DEF CloseForget, machine, local, Opened, Closed
<1>20. ASSUME NEW t \in Thread, CloseReset(t) PROVE CallOK(u)'
    BY <1>20 DEF CloseReset, machine, local, Opened, Closed
<1> QED
    BY <1>1, <1>2, <1>3, <1>4, <1>5, <1>6, <1>7, <1>8, <1>9, <1>10,
       <1>11, <1>12, <1>13, <1>14, <1>15, <1>16, <1>17, <1>18, <1>19, <1>20 DEF Next, Finished

\* Another thread closes no number but its own.
LEMMA FilesNext ==
    ASSUME IInv, [Next]_vars, NEW u \in Thread PROVE FilesOK(u)'
<1>0. /\ TypeOK /\ BackendOK /\ FdOK /\ ThreadOK(u)
      /\ \A t \in Thread : Apart(t, u) /\ Apart(u, t) /\ ThreadOK(t)
    BY DEF IInv
<1> USE <1>0, ThreadAssumption, LowestIsFree
    DEF TypeOK, Apart, ThreadOK, FilesOK, Closing, Calling, Chosen, Held, HasFile, Guarded, Io, Set, Goto, CallOK, FdOK, MyFile
<1>1. CASE LoadDriver  BY <1>1 DEF LoadDriver, machine, local
<1>2. CASE UNCHANGED vars  BY <1>2 DEF vars, machine, local
<1>3. ASSUME NEW t \in Thread, Start(t) PROVE FilesOK(u)'
    BY <1>3, Starts DEF Start, machine
<1>4. ASSUME NEW t \in Thread, InitCheck(t) PROVE FilesOK(u)'
    BY <1>4 DEF InitCheck, machine, local, Opened, Closed
<1>5. ASSUME NEW t \in Thread, InitProbe(t) PROVE FilesOK(u)'
    BY <1>5 DEF InitProbe, machine, local, Opened, Closed
<1>6. ASSUME NEW t \in Thread, InitProbed(t) PROVE FilesOK(u)'
    BY <1>6 DEF InitProbed, machine, local, Opened, Closed
<1>7. ASSUME NEW t \in Thread, InitSet(t) PROVE FilesOK(u)'
    BY <1>7 DEF InitSet, machine, local, Opened, Closed
<1>8. ASSUME NEW t \in Thread, ChoosePrims(t) PROVE FilesOK(u)'
    BY <1>8 DEF ChoosePrims, machine, local, Opened, Closed
<1>9. ASSUME NEW t \in Thread, TakeLock(t) PROVE FilesOK(u)'
    BY <1>9 DEF TakeLock, machine, local, Opened, Closed
<1>10. ASSUME NEW t \in Thread, EnterGuard(t) PROVE FilesOK(u)'
    BY <1>10 DEF EnterGuard, machine, local, Opened, Closed
<1>11. ASSUME NEW t \in Thread, CheckFd(t) PROVE FilesOK(u)'
    BY <1>11 DEF CheckFd, machine, local, Opened, Closed
<1>12. ASSUME NEW t \in Thread, OpenFd(t) PROVE FilesOK(u)'
    BY <1>12 DEF OpenFd, machine, local, Opened, Closed
<1>13. ASSUME NEW t \in Thread, ReturnFd(t) PROVE FilesOK(u)'
    BY <1>13 DEF ReturnFd, machine, local, Opened, Closed
<1>14. ASSUME NEW t \in Thread, Access(t) PROVE FilesOK(u)'
    BY <1>14 DEF Access, machine, local, Opened, Closed
<1>15. ASSUME NEW t \in Thread, LeaveGuard(t) PROVE FilesOK(u)'
    BY <1>15 DEF LeaveGuard, machine, local, Opened, Closed
<1>16. ASSUME NEW t \in Thread, Unlock(t) PROVE FilesOK(u)'
    BY <1>16 DEF Unlock, machine, local, Opened, Closed
<1>17. ASSUME NEW t \in Thread, CloseCheck(t) PROVE FilesOK(u)'
    BY <1>17 DEF CloseCheck, machine, local, Opened, Closed
<1>18. ASSUME NEW t \in Thread, CloseFd(t) PROVE FilesOK(u)'
    BY <1>18 DEF CloseFd, machine, local, Opened, Closed
<1>19. ASSUME NEW t \in Thread, CloseForget(t) PROVE FilesOK(u)'
    BY <1>19 DEF CloseForget, machine, local, Opened, Closed
<1>20. ASSUME NEW t \in Thread, CloseReset(t) PROVE FilesOK(u)'
    BY <1>20 DEF CloseReset, machine, local, Opened, Closed
<1> QED
    BY <1>1, <1>2, <1>3, <1>4, <1>5, <1>6, <1>7, <1>8, <1>9, <1>10,
       <1>11, <1>12, <1>13, <1>14, <1>15, <1>16, <1>17, <1>18, <1>19, <1>20 DEF Next, Finished

\* Nobody else opens or closes anything during close().
LEMMA CloseNext ==
    ASSUME IInv, [Next]_vars, NEW u \in Thread PROVE CloseOK(u)'
<1>0. /\ TypeOK /\ BackendOK /\ FdOK /\ ThreadOK(u)
      /\ \A t \in Thread : Apart(t, u) /\ Apart(u, t) /\ ThreadOK(t)
    BY DEF IInv
<1> USE <1>0, ThreadAssumption, LowestIsFree
    DEF TypeOK, Apart, ThreadOK, CloseOK, Closing, Calling, Chosen, Held, HasFile, Guarded, Io, Set, Goto, FilesOK
<1>1. CASE LoadDriver  BY <1>1 DEF LoadDriver, machine, local
<1>2. CASE UNCHANGED vars  BY <1>2 DEF vars, machine, local
<1>3. ASSUME NEW t \in Thread, Start(t) PROVE CloseOK(u)'
    BY <1>3, Starts DEF Start, machine
<1>4. ASSUME NEW t \in Thread, InitCheck(t) PROVE CloseOK(u)'
    BY <1>4 DEF InitCheck, machine, local, Opened, Closed
<1>5. ASSUME NEW t \in Thread, InitProbe(t) PROVE CloseOK(u)'
    BY <1>5 DEF InitProbe, machine, local, Opened, Closed
<1>6. ASSUME NEW t \in Thread, InitProbed(t) PROVE CloseOK(u)'
    BY <1>6 DEF InitProbed, machine, local, Opened, Closed
<1>7. ASSUME NEW t \in Thread, InitSet(t) PROVE CloseOK(u)'
    BY <1>7 DEF InitSet, machine, local, Opened, Closed
<1>8. ASSUME NEW t \in Thread, ChoosePrims(t) PROVE CloseOK(u)'
    BY <1>8 DEF ChoosePrims, machine, local, Opened, Closed
<1>9. ASSUME NEW t \in Thread, TakeLock(t) PROVE CloseOK(u)'
    BY <1>9 DEF TakeLock, machine, local, Opened, Closed
<1>10. ASSUME NEW t \in Thread, EnterGuard(t) PROVE CloseOK(u)'
    BY <1>10 DEF EnterGuard, machine, local, Opened, Closed
<1>11. ASSUME NEW t \in Thread, CheckFd(t) PROVE CloseOK(u)'
    BY <1>11 DEF CheckFd, machine, local, Opened, Closed
<1>12. ASSUME NEW t \in Thread, OpenFd(t) PROVE CloseOK(u)'
    BY <1>12 DEF OpenFd, machine, local, Opened, Closed
<1>13. ASSUME NEW t \in Thread, ReturnFd(t) PROVE CloseOK(u)'
    BY <1>13 DEF ReturnFd, machine, local, Opened, Closed
<1>14. ASSUME NEW t \in Thread, Access(t) PROVE CloseOK(u)'
    BY <1>14 DEF Access, machine, local, Opened, Closed
<1>15. ASSUME NEW t \in Thread, LeaveGuard(t) PROVE CloseOK(u)'
    BY <1>15 DEF LeaveGuard, machine, local, Opened, Closed
<1>16. ASSUME NEW t \in Thread, Unlock(t) PROVE CloseOK(u)'
    BY <1>16 DEF Unlock, machine, local, Opened, Closed
<1>17. ASSUME NEW t \in Thread, CloseCheck(t) PROVE CloseOK(u)'
    BY <1>17 DEF CloseCheck, machine, local, Opened, Closed
<1>18. ASSUME NEW t \in Thread, CloseFd(t) PROVE CloseOK(u)'
    BY <1>18 DEF CloseFd, machine, local, Opened, Closed
<1>19. ASSUME NEW t \in Thread, CloseForget(t) PROVE CloseOK(u)'
    BY <1>19 DEF CloseForget, machine, local, Opened, Closed
<1>20. ASSUME NEW t \in Thread, CloseReset(t) PROVE CloseOK(u)'
    BY <1>20 DEF CloseReset, machine, local, Opened, Closed
<1> QED
    BY <1>1, <1>2, <1>3, <1>4, <1>5, <1>6, <1>7, <1>8, <1>9, <1>10,
       <1>11, <1>12, <1>13, <1>14, <1>15, <1>16, <1>17, <1>18, <1>19, <1>20 DEF Next, Finished

\* init() chooses as before, and close() drops the backend after _fd.
LEMMA BackendNext == IInv /\ [Next]_vars => BackendOK'
<1> SUFFICES ASSUME IInv, [Next]_vars PROVE BackendOK'
    OBVIOUS
<1>0. /\ TypeOK /\ BackendOK /\ FdOK
      /\ \A t, u \in Thread : Apart(t, u)
      /\ \A t \in Thread : ThreadOK(t)
    BY DEF IInv
<1> USE <1>0, LowestIsFree
    DEF TypeOK, Apart, ThreadOK, CloseOK, BackendOK, Closing, Calling, Chosen, Held, HasFile, Guarded, Io, Set, Goto, CallOK, Kind, None
<1>1. CASE LoadDriver  BY <1>1 DEF LoadDriver, machine, local
<1>2. CASE UNCHANGED vars  BY <1>2 DEF vars, machine, local
<1>3. ASSUME NEW t \in Thread, Start(t) PROVE BackendOK'
    BY <1>3, Starts DEF Start, machine
<1>4. ASSUME NEW t \in Thread, InitCheck(t) PROVE BackendOK'
    BY <1>4 DEF InitCheck, machine, local, Opened, Closed
<1>5. ASSUME NEW t \in Thread, InitProbe(t) PROVE BackendOK'
    BY <1>5 DEF InitProbe, machine, local, Opened, Closed
<1>6. ASSUME NEW t \in Thread, InitProbed(t) PROVE BackendOK'
    BY <1>6 DEF InitProbed, machine, local, Opened, Closed
<1>7. ASSUME NEW t \in Thread, InitSet(t) PROVE BackendOK'
    BY <1>7 DEF InitSet, machine, local, Opened, Closed
<1>8. ASSUME NEW t \in Thread, ChoosePrims(t) PROVE BackendOK'
    BY <1>8 DEF ChoosePrims, machine, local, Opened, Closed
<1>9. ASSUME NEW t \in Thread, TakeLock(t) PROVE BackendOK'
    BY <1>9 DEF TakeLock, machine, local, Opened, Closed
<1>10. ASSUME NEW t \in Thread, EnterGuard(t) PROVE BackendOK'
    BY <1>10 DEF EnterGuard, machine, local, Opened, Closed
<1>11. ASSUME NEW t \in Thread, CheckFd(t) PROVE BackendOK'
    BY <1>11 DEF CheckFd, machine, local, Opened, Closed
<1>12. ASSUME NEW t \in Thread, OpenFd(t) PROVE BackendOK'
    BY <1>12 DEF OpenFd, machine, local, Opened, Closed
<1>13. ASSUME NEW t \in Thread, ReturnFd(t) PROVE BackendOK'
    BY <1>13 DEF ReturnFd, machine, local, Opened, Closed
<1>14. ASSUME NEW t \in Thread, Access(t) PROVE BackendOK'
    BY <1>14 DEF Access, machine, local, Opened, Closed
<1>15. ASSUME NEW t \in Thread, LeaveGuard(t) PROVE BackendOK'
    BY <1>15 DEF LeaveGuard, machine, local, Opened, Closed
<1>16. ASSUME NEW t \in Thread, Unlock(t) PROVE BackendOK'
    BY <1>16 DEF Unlock, machine, local, Opened, Closed
<1>17. ASSUME NEW t \in Thread, CloseCheck(t) PROVE BackendOK'
    BY <1>17 DEF CloseCheck, machine, local, Opened, Closed
<1>18. ASSUME NEW t \in Thread, CloseFd(t) PROVE BackendOK'
    BY <1>18 DEF CloseFd, machine, local, Opened, Closed
<1>19. ASSUME NEW t \in Thread, CloseForget(t) PROVE BackendOK'
    BY <1>19 DEF CloseForget, machine, local, Opened, Closed
<1>20. ASSUME NEW t \in Thread, CloseReset(t) PROVE BackendOK'
    BY <1>20 DEF CloseReset, machine, local, Opened, Closed
<1> QED
    BY <1>1, <1>2, <1>3, <1>4, <1>5, <1>6, <1>7, <1>8, <1>9, <1>10,
       <1>11, <1>12, <1>13, <1>14, <1>15, <1>16, <1>17, <1>18, <1>19, <1>20 DEF Next, Finished

\* Nobody closes _fd but close(), which forgets it next.
LEMMA FdNext == IInv /\ [Next]_vars => FdOK'
<1> SUFFICES ASSUME IInv, [Next]_vars PROVE FdOK'
    OBVIOUS
<1>0. /\ TypeOK /\ BackendOK /\ FdOK
      /\ \A t, u \in Thread : Apart(t, u)
      /\ \A t \in Thread : ThreadOK(t)
    BY DEF IInv
<1> USE <1>0, LowestIsFree
    DEF TypeOK, Apart, ThreadOK, CloseOK, FdOK, Closing, Calling, Chosen, Held, HasFile, Guarded, Io, Set, Goto, CallOK, FilesOK, MyFile
<1>1. CASE LoadDriver  BY <1>1 DEF LoadDriver, machine, local
<1>2. CASE UNCHANGED vars  BY <1>2 DEF vars, machine, local
<1>3. ASSUME NEW t \in Thread, Start(t) PROVE FdOK'
    BY <1>3, Starts DEF Start, machine
<1>4. ASSUME NEW t \in Thread, InitCheck(t) PROVE FdOK'
    BY <1>4 DEF InitCheck, machine, local, Opened, Closed
<1>5. ASSUME NEW t \in Thread, InitProbe(t) PROVE FdOK'
    BY <1>5 DEF InitProbe, machine, local, Opened, Closed
<1>6. ASSUME NEW t \in Thread, InitProbed(t) PROVE FdOK'
    BY <1>6 DEF InitProbed, machine, local, Opened, Closed
<1>7. ASSUME NEW t \in Thread, InitSet(t) PROVE FdOK'
    BY <1>7 DEF InitSet, machine, local, Opened, Closed
<1>8. ASSUME NEW t \in Thread, ChoosePrims(t) PROVE FdOK'
    BY <1>8 DEF ChoosePrims, machine, local, Opened, Closed
<1>9. ASSUME NEW t \in Thread, TakeLock(t) PROVE FdOK'
    BY <1>9 DEF TakeLock, machine, local, Opened, Closed
<1>10. ASSUME NEW t \in Thread, EnterGuard(t) PROVE FdOK'
    BY <1>10 DEF EnterGuard, machine, local, Opened, Closed
<1>11. ASSUME NEW t \in Thread, CheckFd(t) PROVE FdOK'
    BY <1>11 DEF CheckFd, machine, local, Opened, Closed
<1>12. ASSUME NEW t \in Thread, OpenFd(t) PROVE FdOK'
    BY <1>12 DEF OpenFd, machine, local, Opened, Closed
<1>13. ASSUME NEW t \in Thread, ReturnFd(t) PROVE FdOK'
    BY <1>13 DEF ReturnFd, machine, local, Opened, Closed
<1>14. ASSUME NEW t \in Thread, Access(t) PROVE FdOK'
    BY <1>14 DEF Access, machine, local, Opened, Closed
<1>15. ASSUME NEW t \in Thread, LeaveGuard(t) PROVE FdOK'
    BY <1>15 DEF LeaveGuard, machine, local, Opened, Closed
<1>16. ASSUME NEW t \in Thread, Unlock(t) PROVE FdOK'
    BY <1>16 DEF Unlock, machine, local, Opened, Closed
<1>17. ASSUME NEW t \in Thread, CloseCheck(t) PROVE FdOK'
    BY <1>17 DEF CloseCheck, machine, local, Opened, Closed
<1>18. ASSUME NEW t \in Thread, CloseFd(t) PROVE FdOK'
    BY <1>18 DEF CloseFd, machine, local, Opened, Closed
<1>19. ASSUME NEW t \in Thread, CloseForget(t) PROVE FdOK'
    BY <1>19 DEF CloseForget, machine, local, Opened, Closed
<1>20. ASSUME NEW t \in Thread, CloseReset(t) PROVE FdOK'
    BY <1>20 DEF CloseReset, machine, local, Opened, Closed
<1> QED
    BY <1>1, <1>2, <1>3, <1>4, <1>5, <1>6, <1>7, <1>8, <1>9, <1>10,
       <1>11, <1>12, <1>13, <1>14, <1>15, <1>16, <1>17, <1>18, <1>19, <1>20 DEF Next, Finished

\* What a thread closes was in its hand, and it lets go only of what it has
\* closed or what _fd keeps.
LEMMA KeptNext ==
    ASSUME IInv, [Next]_vars, NEW n \in Fd PROVE Kept(n)'
<1>0. /\ TypeOK /\ Kept(n)
      /\ \A t \in Thread : CallOK(t) /\ FilesOK(t) /\ CloseOK(t)
    BY DEF IInv, ThreadOK
<1>00. n # NoFd  BY DEF Fd, NoFd
<1> USE <1>0, <1>00, LowestIsFree
    DEF TypeOK, CallOK, FilesOK, CloseOK, Kept, Calling, Chosen, Held, HasFile, Guarded, Io, Set, Goto
<1>1. CASE LoadDriver  BY <1>1 DEF LoadDriver, machine, local
<1>2. CASE UNCHANGED vars  BY <1>2 DEF vars, machine, local
<1>3. ASSUME NEW t \in Thread, Start(t) PROVE Kept(n)'
    BY <1>3, Starts DEF Start, machine
<1>4. ASSUME NEW t \in Thread, InitCheck(t) PROVE Kept(n)'
    BY <1>4 DEF InitCheck, machine, local, Opened, Closed
<1>5. ASSUME NEW t \in Thread, InitProbe(t) PROVE Kept(n)'
    BY <1>5 DEF InitProbe, machine, local, Opened, Closed
<1>6. ASSUME NEW t \in Thread, InitProbed(t) PROVE Kept(n)'
    BY <1>6 DEF InitProbed, machine, local, Opened, Closed
<1>7. ASSUME NEW t \in Thread, InitSet(t) PROVE Kept(n)'
    BY <1>7 DEF InitSet, machine, local, Opened, Closed
<1>8. ASSUME NEW t \in Thread, ChoosePrims(t) PROVE Kept(n)'
    BY <1>8 DEF ChoosePrims, machine, local, Opened, Closed
<1>9. ASSUME NEW t \in Thread, TakeLock(t) PROVE Kept(n)'
    BY <1>9 DEF TakeLock, machine, local, Opened, Closed
<1>10. ASSUME NEW t \in Thread, EnterGuard(t) PROVE Kept(n)'
    BY <1>10 DEF EnterGuard, machine, local, Opened, Closed
<1>11. ASSUME NEW t \in Thread, CheckFd(t) PROVE Kept(n)'
    BY <1>11 DEF CheckFd, machine, local, Opened, Closed
<1>12. ASSUME NEW t \in Thread, OpenFd(t) PROVE Kept(n)'
    BY <1>12 DEF OpenFd, machine, local, Opened, Closed
<1>13. ASSUME NEW t \in Thread, ReturnFd(t) PROVE Kept(n)'
    BY <1>13 DEF ReturnFd, machine, local, Opened, Closed
<1>14. ASSUME NEW t \in Thread, Access(t) PROVE Kept(n)'
    BY <1>14 DEF Access, machine, local, Opened, Closed
<1>15. ASSUME NEW t \in Thread, LeaveGuard(t) PROVE Kept(n)'
    BY <1>15 DEF LeaveGuard, machine, local, Opened, Closed
<1>16. ASSUME NEW t \in Thread, Unlock(t) PROVE Kept(n)'
    BY <1>16 DEF Unlock, machine, local, Opened, Closed
<1>17. ASSUME NEW t \in Thread, CloseCheck(t) PROVE Kept(n)'
    BY <1>17 DEF CloseCheck, machine, local, Opened, Closed
<1>18. ASSUME NEW t \in Thread, CloseFd(t) PROVE Kept(n)'
    BY <1>18 DEF CloseFd, machine, local, Opened, Closed
<1>19. ASSUME NEW t \in Thread, CloseForget(t) PROVE Kept(n)'
    BY <1>19 DEF CloseForget, machine, local, Opened, Closed
<1>20. ASSUME NEW t \in Thread, CloseReset(t) PROVE Kept(n)'
    BY <1>20 DEF CloseReset, machine, local, Opened, Closed
<1> QED
    BY <1>1, <1>2, <1>3, <1>4, <1>5, <1>6, <1>7, <1>8, <1>9, <1>10,
       <1>11, <1>12, <1>13, <1>14, <1>15, <1>16, <1>17, <1>18, <1>19, <1>20 DEF Next, Finished

-----------------------------------------------------------------------------
LEMMA IInvInit == Init => IInv
<1> SUFFICES ASSUME Init PROVE IInv
    OBVIOUS
<1>1. TypeOK  BY TypeInit
<1>2. BackendOK /\ FdOK  BY DEF Init, BackendOK, FdOK
<1>3. \A t, u \in Thread : Apart(t, u)  BY DEF Init, Apart, Closing
<1>4. \A t \in Thread : ThreadOK(t)
    BY ThreadAssumption DEF Init, ThreadOK, CallOK, FilesOK, CloseOK, Calling, Chosen, Held, HasFile, Guarded, Io
<1>5. \A n \in Fd : Kept(n)  BY DEF Init, Kept
<1> QED  BY <1>1, <1>2, <1>3, <1>4, <1>5 DEF IInv

LEMMA IInvNext == "cut" \notin harm' /\ TypeInv /\ IInv /\ [Next]_vars => IInv'
<1> SUFFICES ASSUME "cut" \notin harm', TypeInv, IInv, [Next]_vars PROVE IInv'
    OBVIOUS
<1>1. TypeOK' /\ BackendOK' /\ FdOK'  BY TypeNext, BackendNext, FdNext
<1>2. \A t, u \in Thread : Apart(t, u)'  BY ApartNext
<1>3. \A t \in Thread : ThreadOK(t)'
    BY CallNext, FilesNext, CloseNext DEF ThreadOK
<1>4. \A n \in Fd : Kept(n)'  BY KeptNext
<1> QED  BY <1>1, <1>2, <1>3, <1>4 DEF IInv

LEMMA TypeInvAlways == Spec => []TypeInv
<1>1. Init => TypeInv  BY TypeInit DEF TypeInv, Init, Chosen, Io
<1> QED  BY <1>1, TypeInvNext, PTL DEF Spec

\* As long as nothing is cut, IInv holds.
Calm == "cut" \notin harm => IInv

LEMMA CalmAlways == Spec => []Calm
<1>1. Init => Calm  BY IInvInit DEF Calm
<1>2. TypeInv /\ Calm /\ [Next]_vars => Calm'
    <2> SUFFICES ASSUME TypeInv, Calm, [Next]_vars, "cut" \notin harm' PROVE IInv'
        BY DEF Calm
    <2>1. IInv  BY HarmGrows DEF Calm
    <2> QED  BY <2>1, IInvNext
<1> QED  BY <1>1, <1>2, TypeInvAlways, PTL DEF Spec

\* The variables keep their types.
THEOREM TypeCorrect == Spec => []TypeOK
<1>1. TypeInv => TypeOK  BY DEF TypeInv
<1> QED  BY <1>1, TypeInvAlways, PTL

\* An access reaches the device its access function was chosen for, although
\* _get_fd ignores its path and _io_primitives reads _backend before _lock.
THEOREM DeviceIsRight == Spec => []RightDevice
<1>1. Calm => RightDevice
    <2> SUFFICES ASSUME IInv, NEW t \in Thread, pc[t] \in Io
                 PROVE  myfd[t] # NoFd /\ table[myfd[t]] = prims[t]
        BY DEF RightDevice, Calm
    <2>1. CallOK(t) /\ Apart(t, t) /\ \A u \in Thread : Apart(u, t)
        BY DEF IInv, ThreadOK
    <2>2. myfd[t] = fd /\ fd # NoFd /\ prims[t] = MyFile
        BY <2>1 DEF CallOK, HasFile, Chosen
    <2>3. \A u \in Thread : pc[u] # "close3"
        BY <2>1 DEF Apart, Closing, Io
    <2>4. table[fd] = MyFile  BY <2>2, <2>3 DEF IInv, FdOK
    <2> QED  BY <2>2, <2>4
<1> QED  BY <1>1, CalmAlways, PTL

\* After close(), with nobody in a call, no device is open.
THEOREM CloseIsComplete == Spec => []CloseReleases
<1>1. Calm => CloseReleases
    <2> SUFFICES ASSUME IInv, backend = None, \A t \in Thread : pc[t] = "idle",
                        NEW n \in Fd
                 PROVE  table[n] \notin Device
        BY DEF CloseReleases, Calm
    <2>1. fd = NoFd  BY DEF IInv, BackendOK
    <2>2. \A t \in Thread : myfd[t] = NoFd /\ guardfd[t] = NoFd
        BY DEF IInv, ThreadOK, FilesOK, Guarded, Io
    <2>3. n # NoFd  BY DEF Fd, NoFd
    <2>4. table[n] = "free"  BY <2>1, <2>2, <2>3 DEF IInv, Kept
    <2> QED  BY <2>4 DEF Device
<1> QED  BY <1>1, CalmAlways, PTL

-----------------------------------------------------------------------------
(* The lock files, with close() at any point of the other operations.      *)

\* Only one thread is in close(), and what each has opened is its own ...
Alone(t, u) ==
    t # u => /\ ~(Closing(t) /\ Closing(u))
             /\ guardfd[t] # NoFd => guardfd[t] # guardfd[u]
             /\ pc[t] = "probed" /\ pc[u] = "probed" /\ myfd[t] # NoFd => myfd[t] # myfd[u]

\* ... and still names what was opened.
Opens(t) ==
    /\ guardfd[t] # NoFd => table[guardfd[t]] = "lockfile"
    /\ pc[t] = "probed" /\ myfd[t] # NoFd => table[myfd[t]] = "config"

\* Unless close() has closed it and is about to forget it, _fd names a device
\* which is nobody's probe.
Cached ==
    (\A t \in Thread : pc[t] # "close3") =>
       \/ fd = NoFd
       \/ /\ table[fd] \in Device
          /\ \A t \in Thread : pc[t] = "probed" => myfd[t] # fd

GInv == /\ \A t, u \in Thread : Alone(t, u)
        /\ \A t \in Thread : Opens(t)
        /\ Cached

LEMMA AloneNext ==
    ASSUME "twice" \notin harm', TypeInv, GInv, [Next]_vars, NEW u \in Thread, NEW v \in Thread
    PROVE  Alone(u, v)'
<1>0. /\ TypeOK /\ Alone(u, v) /\ \A t \in Thread : Alone(t, u) /\ Alone(t, v)
      /\ \A t \in Thread : Opens(t)
    BY DEF GInv, TypeInv
<1> USE <1>0, LowestIsFree DEF TypeOK, Alone, Opens, Closing, Io, Set, Goto
<1>1. CASE LoadDriver  BY <1>1 DEF LoadDriver, machine, local
<1>2. CASE UNCHANGED vars  BY <1>2 DEF vars, machine, local
<1>3. ASSUME NEW t \in Thread, Start(t) PROVE Alone(u, v)'
    <2>1. \A w \in Thread \ {t} : Closing(t)' => ~Closing(w)
        BY <1>3, StartsApart DEF Start
    <2>2. /\ \A w \in Thread \ {t} : pc'[w] = pc[w]
          /\ pc[t] = "idle" /\ pc'[t] # "probed"
          /\ UNCHANGED <<guardfd, myfd>>
        BY <1>3, Starts DEF Start
    <2> HIDE <1>0
    <2>3. Alone(u, v)  BY <1>0
    <2> QED  BY <2>1, <2>2, <2>3
<1>4. ASSUME NEW t \in Thread, InitCheck(t) PROVE Alone(u, v)'
    BY <1>4 DEF InitCheck, machine, local, Opened, Closed
<1>5. ASSUME NEW t \in Thread, InitProbe(t) PROVE Alone(u, v)'
    BY <1>5 DEF InitProbe, machine, local, Opened, Closed
<1>6. ASSUME NEW t \in Thread, InitProbed(t) PROVE Alone(u, v)'
    BY <1>6 DEF InitProbed, machine, local, Opened, Closed
<1>7. ASSUME NEW t \in Thread, InitSet(t) PROVE Alone(u, v)'
    BY <1>7 DEF InitSet, machine, local, Opened, Closed
<1>8. ASSUME NEW t \in Thread, ChoosePrims(t) PROVE Alone(u, v)'
    BY <1>8 DEF ChoosePrims, machine, local, Opened, Closed
<1>9. ASSUME NEW t \in Thread, TakeLock(t) PROVE Alone(u, v)'
    BY <1>9 DEF TakeLock, machine, local, Opened, Closed
<1>10. ASSUME NEW t \in Thread, EnterGuard(t) PROVE Alone(u, v)'
    BY <1>10 DEF EnterGuard, machine, local, Opened, Closed
<1>11. ASSUME NEW t \in Thread, CheckFd(t) PROVE Alone(u, v)'
    BY <1>11 DEF CheckFd, machine, local, Opened, Closed
<1>12. ASSUME NEW t \in Thread, OpenFd(t) PROVE Alone(u, v)'
    BY <1>12 DEF OpenFd, machine, local, Opened, Closed
<1>13. ASSUME NEW t \in Thread, ReturnFd(t) PROVE Alone(u, v)'
    BY <1>13 DEF ReturnFd, machine, local, Opened, Closed
<1>14. ASSUME NEW t \in Thread, Access(t) PROVE Alone(u, v)'
    BY <1>14 DEF Access, machine, local, Opened, Closed
<1>15. ASSUME NEW t \in Thread, LeaveGuard(t) PROVE Alone(u, v)'
    BY <1>15 DEF LeaveGuard, machine, local, Opened, Closed
<1>16. ASSUME NEW t \in Thread, Unlock(t) PROVE Alone(u, v)'
    BY <1>16 DEF Unlock, machine, local, Opened, Closed
<1>17. ASSUME NEW t \in Thread, CloseCheck(t) PROVE Alone(u, v)'
    BY <1>17 DEF CloseCheck, machine, local, Opened, Closed
<1>18. ASSUME NEW t \in Thread, CloseFd(t) PROVE Alone(u, v)'
    BY <1>18 DEF CloseFd, machine, local, Opened, Closed
<1>19. ASSUME NEW t \in Thread, CloseForget(t) PROVE Alone(u, v)'
    BY <1>19 DEF CloseForget, machine, local, Opened, Closed
<1>20. ASSUME NEW t \in Thread, CloseReset(t) PROVE Alone(u, v)'
    BY <1>20 DEF CloseReset, machine, local, Opened, Closed
<1> QED
    BY <1>1, <1>2, <1>3, <1>4, <1>5, <1>6, <1>7, <1>8, <1>9, <1>10,
       <1>11, <1>12, <1>13, <1>14, <1>15, <1>16, <1>17, <1>18, <1>19, <1>20 DEF Next, Finished

\* Another thread closes no number but its own, and _fd.
LEMMA OpensNext ==
    ASSUME TypeInv, GInv, [Next]_vars, NEW u \in Thread PROVE Opens(u)'
<1>0. /\ TypeOK /\ Cached /\ Opens(u)
      /\ \A t \in Thread : Alone(t, u) /\ Alone(u, t) /\ Opens(t)
    BY DEF GInv, TypeInv
<1>00. \A t \in Thread : pc[t] = "close2" => \A w \in Thread : pc[w] # "close3"
    BY DEF GInv, Alone, Closing
<1> USE <1>0, LowestIsFree DEF TypeOK, Alone, Opens, Closing, Io, Set, Goto, Device
<1>1. CASE LoadDriver  BY <1>1 DEF LoadDriver, machine, local
<1>2. CASE UNCHANGED vars  BY <1>2 DEF vars, machine, local
<1>3. ASSUME NEW t \in Thread, Start(t) PROVE Opens(u)'
    BY <1>3, Starts DEF Start
<1>4. ASSUME NEW t \in Thread, InitCheck(t) PROVE Opens(u)'
    BY <1>4 DEF InitCheck, machine, local, Opened, Closed
<1>5. ASSUME NEW t \in Thread, InitProbe(t) PROVE Opens(u)'
    BY <1>5 DEF InitProbe, machine, local, Opened, Closed
<1>6. ASSUME NEW t \in Thread, InitProbed(t) PROVE Opens(u)'
    BY <1>6 DEF InitProbed, machine, local, Opened, Closed
<1>7. ASSUME NEW t \in Thread, InitSet(t) PROVE Opens(u)'
    BY <1>7 DEF InitSet, machine, local, Opened, Closed
<1>8. ASSUME NEW t \in Thread, ChoosePrims(t) PROVE Opens(u)'
    BY <1>8 DEF ChoosePrims, machine, local, Opened, Closed
<1>9. ASSUME NEW t \in Thread, TakeLock(t) PROVE Opens(u)'
    BY <1>9 DEF TakeLock, machine, local, Opened, Closed
<1>10. ASSUME NEW t \in Thread, EnterGuard(t) PROVE Opens(u)'
    BY <1>10 DEF EnterGuard, machine, local, Opened, Closed
<1>11. ASSUME NEW t \in Thread, CheckFd(t) PROVE Opens(u)'
    BY <1>11 DEF CheckFd, machine, local, Opened, Closed
<1>12. ASSUME NEW t \in Thread, OpenFd(t) PROVE Opens(u)'
    BY <1>12 DEF OpenFd, machine, local, Opened, Closed
<1>13. ASSUME NEW t \in Thread, ReturnFd(t) PROVE Opens(u)'
    BY <1>13 DEF ReturnFd, machine, local, Opened, Closed
<1>14. ASSUME NEW t \in Thread, Access(t) PROVE Opens(u)'
    BY <1>14 DEF Access, machine, local, Opened, Closed
<1>15. ASSUME NEW t \in Thread, LeaveGuard(t) PROVE Opens(u)'
    BY <1>15 DEF LeaveGuard, machine, local, Opened, Closed
<1>16. ASSUME NEW t \in Thread, Unlock(t) PROVE Opens(u)'
    BY <1>16 DEF Unlock, machine, local, Opened, Closed
<1>17. ASSUME NEW t \in Thread, CloseCheck(t) PROVE Opens(u)'
    BY <1>17 DEF CloseCheck, machine, local, Opened, Closed
<1>18. ASSUME NEW t \in Thread, CloseFd(t) PROVE Opens(u)'
    BY <1>18, <1>00 DEF CloseFd, machine, local, Closed, Cached
<1>19. ASSUME NEW t \in Thread, CloseForget(t) PROVE Opens(u)'
    BY <1>19 DEF CloseForget, machine, local, Opened, Closed
<1>20. ASSUME NEW t \in Thread, CloseReset(t) PROVE Opens(u)'
    BY <1>20 DEF CloseReset, machine, local, Opened, Closed
<1> QED
    BY <1>1, <1>2, <1>3, <1>4, <1>5, <1>6, <1>7, <1>8, <1>9, <1>10,
       <1>11, <1>12, <1>13, <1>14, <1>15, <1>16, <1>17, <1>18, <1>19, <1>20 DEF Next, Finished

LEMMA CachedNext == TypeInv /\ GInv /\ [Next]_vars => Cached'
<1> SUFFICES ASSUME TypeInv, GInv, [Next]_vars PROVE Cached'
    OBVIOUS
<1>0. /\ TypeOK /\ Cached /\ \A t, u \in Thread : Alone(t, u)
      /\ \A t \in Thread : Opens(t)
    BY DEF GInv, TypeInv
<1>00. ASSUME (\A w \in Thread : pc'[w] # "close3") /\ fd' # NoFd
                  => /\ table'[fd'] \in Device
                     /\ \A w \in Thread : pc'[w] = "probed" => myfd'[w] # fd'
       PROVE  Cached'
    BY <1>00 DEF Cached, NoFd, Device
<1> USE <1>0, LowestIsFree DEF TypeOK, Alone, Opens, Cached, Closing, Io, Set, Goto, Device
<1>1. CASE LoadDriver  BY <1>1 DEF LoadDriver, machine, local
<1>2. CASE UNCHANGED vars  BY <1>2 DEF vars, machine, local
<1>3. ASSUME NEW t \in Thread, Start(t) PROVE Cached'
    BY <1>3, Starts DEF Start
<1>4. ASSUME NEW t \in Thread, InitCheck(t) PROVE Cached'
    BY <1>4 DEF InitCheck, machine, local, Opened, Closed
<1>5. ASSUME NEW t \in Thread, InitProbe(t) PROVE Cached'
    <2> SUFFICES ASSUME \A w \in Thread : pc'[w] # "close3", fd' # NoFd
                 PROVE  table'[fd'] \in Device
                        /\ \A w \in Thread : pc'[w] = "probed" => myfd'[w] # fd'
        BY <1>00
    <2>1. fd' = fd  BY <1>5 DEF InitProbe
    <2>2. \A w \in Thread : pc[w] # "close3"  BY <1>5 DEF InitProbe
    <2>3. table[fd] \in Device /\ \A w \in Thread : pc[w] = "probed" => myfd[w] # fd
        BY <2>1, <2>2
    <2>4. fd # Lowest /\ Lowest \in Fd  BY <1>5, <2>3 DEF InitProbe
    <2>5. table'[fd] = table[fd]  BY <1>5, <2>4 DEF InitProbe, Opened
    <2>6. \A w \in Thread : pc'[w] = "probed" => myfd'[w] # fd
        BY <1>5, <2>3, <2>4 DEF InitProbe
    <2> QED  BY <2>1, <2>3, <2>5, <2>6
<1>6. ASSUME NEW t \in Thread, InitProbed(t) PROVE Cached'
    <2> SUFFICES ASSUME \A w \in Thread : pc'[w] # "close3", fd' # NoFd
                 PROVE  table'[fd'] \in Device
                        /\ \A w \in Thread : pc'[w] = "probed" => myfd'[w] # fd'
        BY <1>00
    <2>1. fd' = fd  BY <1>6 DEF InitProbed
    <2>2. \A w \in Thread : pc[w] # "close3"  BY <1>6 DEF InitProbed
    <2>3. table[fd] \in Device /\ \A w \in Thread : pc[w] = "probed" => myfd[w] # fd
        BY <2>1, <2>2
    <2>4. myfd[t] # fd /\ (guardfd[t] # NoFd => guardfd[t] # fd)
        BY <1>6, <2>3 DEF InitProbed
    <2>5. table'[fd] = table[fd]
        <3>1. CASE myfd[t] # NoFd  BY <1>6, <2>1, <2>4, <3>1 DEF InitProbed, Closed, Fd, NoFd
        <3>2. CASE myfd[t] = NoFd
            <4>1. guardfd[t] # fd  BY <2>1, <2>4
            <4> QED  BY <1>6, <2>1, <4>1, <3>2 DEF InitProbed, Closed, Fd, NoFd
        <3> QED  BY <3>1, <3>2
    <2>6. \A w \in Thread : pc'[w] = "probed" => myfd'[w] # fd
        BY <1>6, <2>1, <2>3 DEF InitProbed
    <2> QED  BY <2>1, <2>3, <2>5, <2>6
<1>7. ASSUME NEW t \in Thread, InitSet(t) PROVE Cached'
    BY <1>7 DEF InitSet, machine, local, Opened, Closed
<1>8. ASSUME NEW t \in Thread, ChoosePrims(t) PROVE Cached'
    BY <1>8 DEF ChoosePrims, machine, local, Opened, Closed
<1>9. ASSUME NEW t \in Thread, TakeLock(t) PROVE Cached'
    BY <1>9 DEF TakeLock, machine, local, Opened, Closed
<1>10. ASSUME NEW t \in Thread, EnterGuard(t) PROVE Cached'
    BY <1>10 DEF EnterGuard, machine, local, Opened, Closed
<1>11. ASSUME NEW t \in Thread, CheckFd(t) PROVE Cached'
    BY <1>11 DEF CheckFd, machine, local, Opened, Closed
<1>12. ASSUME NEW t \in Thread, OpenFd(t) PROVE Cached'
    <2>1. prims[t] \in Device  BY <1>12 DEF OpenFd, TypeInv, Chosen
    <2>2. Lowest \in Fd /\ table[Lowest] = "free"  BY <1>12 DEF OpenFd
    <2>3. table'[fd'] = prims[t]  BY <1>12, <2>2 DEF OpenFd, Opened
    <2>4. \A w \in Thread : pc'[w] = "probed" => myfd'[w] # fd'
        <3>1. ASSUME NEW w \in Thread, pc'[w] = "probed" PROVE myfd'[w] # fd'
            <4>1. pc[w] = "probed" /\ myfd'[w] = myfd[w]  BY <1>12, <3>1 DEF OpenFd
            <4>2. myfd[w] # NoFd => table[myfd[w]] = "config"  BY <4>1
            <4> QED  BY <1>12, <4>1, <4>2, <2>2 DEF OpenFd, Fd, NoFd
        <3> QED  BY <3>1
    <2> QED  BY <2>1, <2>3, <2>4
<1>13. ASSUME NEW t \in Thread, ReturnFd(t) PROVE Cached'
    BY <1>13 DEF ReturnFd, machine, local, Opened, Closed
<1>14. ASSUME NEW t \in Thread, Access(t) PROVE Cached'
    BY <1>14 DEF Access, machine, local, Opened, Closed
<1>15. ASSUME NEW t \in Thread, LeaveGuard(t) PROVE Cached'
    BY <1>15 DEF LeaveGuard, machine, local, Opened, Closed
<1>16. ASSUME NEW t \in Thread, Unlock(t) PROVE Cached'
    BY <1>16 DEF Unlock, machine, local, Opened, Closed
<1>17. ASSUME NEW t \in Thread, CloseCheck(t) PROVE Cached'
    BY <1>17 DEF CloseCheck, machine, local, Opened, Closed
<1>18. ASSUME NEW t \in Thread, CloseFd(t) PROVE Cached'
    BY <1>18 DEF CloseFd, machine, local, Opened, Closed
<1>19. ASSUME NEW t \in Thread, CloseForget(t) PROVE Cached'
    <2>1. fd' = NoFd  BY <1>19 DEF CloseForget
    <2> QED  BY <1>00, <2>1
<1>20. ASSUME NEW t \in Thread, CloseReset(t) PROVE Cached'
    BY <1>20 DEF CloseReset, machine, local, Opened, Closed
<1> QED
    BY <1>1, <1>2, <1>3, <1>4, <1>5, <1>6, <1>7, <1>8, <1>9, <1>10,
       <1>11, <1>12, <1>13, <1>14, <1>15, <1>16, <1>17, <1>18, <1>19, <1>20 DEF Next, Finished

\* Nobody closes the lock file of another, and so drops its lock, unless two
\* close() calls overlap.
THEOREM GuardIsKept == Spec => []GuardKept
<1> DEFINE Single == "twice" \notin harm => GInv
<1>1. Init => Single
    BY DEF Init, GInv, Alone, Opens, Cached, Closing
<1>2. TypeInv /\ Single /\ [Next]_vars => Single'
    <2> SUFFICES ASSUME TypeInv, GInv, [Next]_vars, "twice" \notin harm' PROVE GInv'
        BY HarmGrows
    <2> QED  BY AloneNext, OpensNext, CachedNext DEF GInv
<1>3. Single => GuardKept
    BY DEF GInv, Opens, GuardKept
<1> QED  BY <1>1, <1>2, <1>3, TypeInvAlways, PTL DEF Spec

=============================================================================

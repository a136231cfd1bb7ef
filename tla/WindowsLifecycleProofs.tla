---------------------- MODULE WindowsLifecycleProofs ----------------------
(***************************************************************************)
(* Proofs about WindowsLifecycle, for any number of threads, operations    *)
(* and handles.  What pci_mutex_guard says it has, it has, always.  As     *)
(* long as no close() has overlapped another operation, an access finds    *)
(* the device, and the mutex is given back; when no init() has overlapped  *)
(* another either, close() leaves nothing open.                            *)
(***************************************************************************)
EXTENDS WindowsLifecycle, TLAPS

\* The places of a call behind _lock, and with a handle of the mutex.
Held    == {"guard", "wait", "timedout", "release", "unguard", "unlock"} \cup Io
Guarded == {"wait", "timedout", "release", "unguard"}
\* The places of init() with a device of its own.
Loading == {"load", "failed", "sethandle"}

Is(n, what) == n \in Handle /\ table[n] = what

\* What holds whatever close() and init() meet: an owned mutex has been taken,
\* and a guard with a handle has it.
TypeInv == /\ TypeOK
           /\ owner = NoThread => depth = 0
           /\ owner \in Thread => depth > 0
OwnOK(t) ==
    /\ pc[t] \in Io /\ guard[t] # None => owner = t
    /\ pc[t] \notin Guarded \cup Io => guard[t] = None

\* What holds as long as no close() has overlapped anything ("cut").  close()
\* meets nobody, and no two init() have opened the same handle.
Apart(t, u) ==
    t # u => /\ pc[t] \in Closing => pc[u] = "idle"
             /\ opened[t] # None => opened[t] # opened[u]

\* What a thread has in hand at each place of a call, ...
CallOK(t) ==
    /\ pc[t] \in Calling => k32 /\ handle # None
    /\ pc[t] \in Held => lock = t
    /\ pc[t] \in Guarded => Is(guard[t], "mutex")
    /\ pc[t] \in Io => guard[t] = None \/ Is(guard[t], "mutex")
    /\ pc[t] \notin Guarded \cup Io => guard[t] = None
    /\ pc[t] = "release" => owner = t
    /\ owner = t => /\ pc[t] \in Io \cup {"release"}
                    /\ guard[t] # None
                    /\ depth = 1

\* ... of init(), ...
LoadOK(t) ==
    /\ pc[t] \in Loading => Is(opened[t], "device") /\ opened[t] # handle
    /\ pc[t] \notin Loading => opened[t] = None
    /\ pc[t] = "setk32" => handle # None

\* ... and of close().
CloseOK(t) ==
    /\ pc[t] = "close2" => handle # None
    /\ pc[t] = "close3" => handle = None \/ Is(handle, "free")
    /\ pc[t] = "close4" => handle = None

ThreadOK(t) == CallOK(t) /\ LoadOK(t) /\ CloseOK(t) /\ OwnOK(t)

\* _handle names the device until close() is about to forget it.
HandleOK ==
    (\A t \in Thread : pc[t] # "close3") => handle = None \/ Is(handle, "device")

\* _k32 goes with _handle, except between two assignments of init() or close().
FlagOK ==
    (\A t \in Thread : pc[t] \notin {"setk32", "close4"}) => (k32 <=> handle # None)

GInv == /\ HandleOK /\ FlagOK
        /\ \A t, u \in Thread : Apart(t, u)
        /\ \A t \in Thread : ThreadOK(t)

\* What holds as long as, besides, no init() has overlapped another ("raced").
Alone(t, u) == t # u => ~(pc[t] \in InInit /\ pc[u] \in InInit)

SettingOK(t) == pc[t] \in Initing \ {"setk32"} => handle = None

\* Whatever is open is the device, or in the hand of a thread.
Kept(n) ==
    table[n] # "free" =>
        n = handle \/ \E t \in Thread : n = opened[t] \/ n = guard[t]

KInv == /\ \A t, u \in Thread : Alone(t, u)
        /\ \A t \in Thread : SettingOK(t)
        /\ \A n \in Handle : Kept(n)

-----------------------------------------------------------------------------
LEMMA FreeIsFree == Room => Is(Free, "free")
BY DEF Room, Free, Is

\* What a start leaves of the other variables.
LEMMA Starts ==
    ASSUME NEW t \in Thread, Start(t)
    PROVE  /\ pc[t] = "idle"
           /\ \/ pc' = pc
              \/ pc' = [pc EXCEPT ![t] = "init"]
              \/ pc' = [pc EXCEPT ![t] = "lock"] /\ k32 /\ handle # None
              \/ pc' = [pc EXCEPT ![t] = "close1"]
           /\ ops[t] < MaxOps /\ ops' = Set(ops, t, ops[t] + 1)
           /\ harm \subseteq harm' /\ harm' \subseteq harm \cup Harm
           /\ UNCHANGED <<globals, table, mutex, lock, opened, guard>>
<1>1. PICK op \in {"init", "lock", "close1"} :
         IF op = "lock" /\ (handle = None \/ ~k32)
         THEN UNCHANGED <<pc, harm>>
         ELSE Goto(t, op) /\ harm' = harm \cup Met(t, op)
    BY DEF Start
<1>2. Met(t, op) \subseteq Harm  BY DEF Met, Harm
<1>3. op = "lock" \/ op = "init" \/ op = "close1"  OBVIOUS
<1> QED  BY <1>1, <1>2, <1>3 DEF Start, Goto

\* harm says whom a start has met.
LEMMA StartsApart ==
    ASSUME TypeOK, NEW t \in Thread, Start(t), NEW u \in Thread, u # t
    PROVE  /\ "cut" \notin harm' /\ pc' # pc => pc[u] \notin Closing
           /\ "cut" \notin harm' /\ pc'[t] = "close1" => pc[u] = "idle"
           /\ "raced" \notin harm' /\ pc'[t] = "init" => pc[u] \notin InInit
<1>1. PICK op \in {"init", "lock", "close1"} :
         IF op = "lock" /\ (handle = None \/ ~k32)
         THEN UNCHANGED <<pc, harm>>
         ELSE Goto(t, op) /\ harm' = harm \cup Met(t, op)
    BY DEF Start
<1>2. pc \in [Thread -> Labels] /\ pc[t] = "idle"  BY DEF TypeOK, Start
<1>3. CASE UNCHANGED <<pc, harm>>  BY <1>2, <1>3
<1>4. CASE Goto(t, op) /\ harm' = harm \cup Met(t, op)
    <2>1. u \in Thread \ {t} /\ pc'[t] = op  BY <1>2, <1>4 DEF Goto
    <2>2. "cut" \notin Met(t, op) => pc[u] \notin Closing
        BY <2>1 DEF Met
    <2>3. "cut" \notin Met(t, op) /\ op = "close1" => pc[u] = "idle"
        BY <1>2, <2>1 DEF Met
    <2>4. "raced" \notin Met(t, op) /\ op = "init" => pc[u] \notin InInit
        BY <2>1 DEF Met
    <2>5. Met(t, op) \subseteq harm'  BY <1>4
    <2> QED  BY <2>1, <2>2, <2>3, <2>4, <2>5
<1> QED  BY <1>1, <1>3, <1>4

\* What has happened stays remembered.
LEMMA HarmGrows == [Next]_vars => harm \subseteq harm'
<1> SUFFICES ASSUME [Next]_vars PROVE harm \subseteq harm'
    OBVIOUS
<1>1. CASE Install  BY <1>1 DEF Install, globals, mutex
<1>2. CASE OtherTakes  BY <1>2 DEF OtherTakes, globals, mutex
<1>3. CASE OtherReleases  BY <1>3 DEF OtherReleases, globals, mutex
<1>4. CASE UNCHANGED vars  BY <1>4 DEF vars, globals, mutex
<1>5. ASSUME NEW t \in Thread, Start(t) PROVE harm \subseteq harm'
    BY <1>5, Starts DEF globals, mutex
<1>6. ASSUME NEW t \in Thread, InitCheck(t) PROVE harm \subseteq harm'
    BY <1>6 DEF InitCheck, globals, mutex, Opened, Closed
<1>7. ASSUME NEW t \in Thread, InitInfo(t) PROVE harm \subseteq harm'
    BY <1>7 DEF InitInfo, globals, mutex, Opened, Closed
<1>8. ASSUME NEW t \in Thread, InitOpen(t) PROVE harm \subseteq harm'
    BY <1>8 DEF InitOpen, globals, mutex, Opened, Closed
<1>9. ASSUME NEW t \in Thread, InitLoad(t) PROVE harm \subseteq harm'
    BY <1>9 DEF InitLoad, globals, mutex, Opened, Closed
<1>10. ASSUME NEW t \in Thread, InitFailed(t) PROVE harm \subseteq harm'
    BY <1>10 DEF InitFailed, globals, mutex, Opened, Closed
<1>11. ASSUME NEW t \in Thread, InitSetHandle(t) PROVE harm \subseteq harm'
    BY <1>11 DEF InitSetHandle, globals, mutex, Opened, Closed
<1>12. ASSUME NEW t \in Thread, InitSetK32(t) PROVE harm \subseteq harm'
    BY <1>12 DEF InitSetK32, globals, mutex, Opened, Closed
<1>13. ASSUME NEW t \in Thread, TakeLock(t) PROVE harm \subseteq harm'
    BY <1>13 DEF TakeLock, globals, mutex, Opened, Closed
<1>14. ASSUME NEW t \in Thread, CreateMutex(t) PROVE harm \subseteq harm'
    BY <1>14 DEF CreateMutex, globals, mutex, Opened, Closed
<1>15. ASSUME NEW t \in Thread, WaitMutex(t) PROVE harm \subseteq harm'
    BY <1>15 DEF WaitMutex, globals, mutex, Opened, Closed
<1>16. ASSUME NEW t \in Thread, TimedOut(t) PROVE harm \subseteq harm'
    BY <1>16 DEF TimedOut, globals, mutex, Opened, Closed
<1>17. ASSUME NEW t \in Thread, Access(t) PROVE harm \subseteq harm'
    BY <1>17 DEF Access, globals, mutex, Opened, Closed
<1>18. ASSUME NEW t \in Thread, ReleaseMutex(t) PROVE harm \subseteq harm'
    BY <1>18 DEF ReleaseMutex, globals, mutex, Opened, Closed
<1>19. ASSUME NEW t \in Thread, LeaveGuard(t) PROVE harm \subseteq harm'
    BY <1>19 DEF LeaveGuard, globals, mutex, Opened, Closed
<1>20. ASSUME NEW t \in Thread, Unlock(t) PROVE harm \subseteq harm'
    BY <1>20 DEF Unlock, globals, mutex, Opened, Closed
<1>21. ASSUME NEW t \in Thread, CloseCheck(t) PROVE harm \subseteq harm'
    BY <1>21 DEF CloseCheck, globals, mutex, Opened, Closed
<1>22. ASSUME NEW t \in Thread, CloseDevice(t) PROVE harm \subseteq harm'
    BY <1>22 DEF CloseDevice, globals, mutex, Opened, Closed
<1>23. ASSUME NEW t \in Thread, CloseHandleNone(t) PROVE harm \subseteq harm'
    BY <1>23 DEF CloseHandleNone, globals, mutex, Opened, Closed
<1>24. ASSUME NEW t \in Thread, CloseK32None(t) PROVE harm \subseteq harm'
    BY <1>24 DEF CloseK32None, globals, mutex, Opened, Closed
<1> QED
    BY <1>1, <1>2, <1>3, <1>4, <1>5, <1>6, <1>7, <1>8, <1>9, <1>10, <1>11, <1>12,
       <1>13, <1>14, <1>15, <1>16, <1>17, <1>18, <1>19, <1>20, <1>21, <1>22, <1>23, <1>24 DEF Next, Finished

LEMMA TypeInit == Init => TypeOK
<1> SUFFICES ASSUME Init PROVE TypeOK
    OBVIOUS
<1> USE DEF Init, Labels
<1>1. installed \in BOOLEAN /\ k32 \in BOOLEAN
    OBVIOUS
<1>2. /\ info \in {"unset", "missing", "installed"}
      /\ table \in [Handle -> {"free", "device", "mutex"}]
    OBVIOUS
<1>3. handle = None /\ owner = NoThread /\ lock = NoThread /\ depth = 0 /\ harm = {}
    OBVIOUS
<1>4. pc \in [Thread -> Labels] /\ ops \in [Thread -> 0..MaxOps]
    BY SizeAssumption
<1>5. opened \in [Thread -> Handle \cup {None}] /\ guard \in [Thread -> Handle \cup {None}]
    OBVIOUS
<1> QED  BY <1>1, <1>2, <1>3, <1>4, <1>5 DEF TypeOK

\* The mutex is released by its owner, who has taken it.
LEMMA TypeNext == TypeInv /\ [Next]_vars => TypeInv'
<1> SUFFICES ASSUME TypeInv, [Next]_vars PROVE TypeInv'
    OBVIOUS
<1> USE SizeAssumption, ThreadAssumption, FreeIsFree
    DEF TypeInv, TypeOK, Labels, InInit, Calling, Initing, Io, Closing, Set, Goto
<1>1. CASE Install  BY <1>1 DEF Install, globals, mutex
<1>2. CASE OtherTakes  BY <1>2 DEF OtherTakes, globals, mutex
<1>3. CASE OtherReleases  BY <1>3 DEF OtherReleases, globals, mutex
<1>4. CASE UNCHANGED vars  BY <1>4 DEF vars, globals, mutex
<1>5. ASSUME NEW t \in Thread, Start(t) PROVE TypeInv'
    <2>1. pc' \in [Thread -> Labels]
        <3>1. \E l \in Labels : pc' = [pc EXCEPT ![t] = l] \/ pc' = pc  BY <1>5, Starts
        <3> QED  BY <3>1
    <2>2. ops' \in [Thread -> 0..MaxOps]
        <3>1. ops[t] < MaxOps /\ ops' = Set(ops, t, ops[t] + 1)  BY <1>5, Starts
        <3> QED  BY <3>1
    <2>3. harm' \subseteq Harm
        <3>1. harm' \subseteq harm \cup Harm  BY <1>5, Starts
        <3> QED  BY <3>1
    <2>4. UNCHANGED <<globals, table, mutex, lock, opened, guard>>  BY <1>5, Starts
    <2> QED  BY <2>1, <2>2, <2>3, <2>4 DEF globals, mutex
<1>6. ASSUME NEW t \in Thread, InitCheck(t) PROVE TypeInv'
    BY <1>6 DEF InitCheck, globals, mutex, Opened, Closed
<1>7. ASSUME NEW t \in Thread, InitInfo(t) PROVE TypeInv'
    BY <1>7 DEF InitInfo, globals, mutex, Opened, Closed
<1>8. ASSUME NEW t \in Thread, InitOpen(t) PROVE TypeInv'
    BY <1>8 DEF InitOpen, globals, mutex, Opened, Closed, Is
<1>9. ASSUME NEW t \in Thread, InitLoad(t) PROVE TypeInv'
    BY <1>9 DEF InitLoad, globals, mutex, Opened, Closed
<1>10. ASSUME NEW t \in Thread, InitFailed(t) PROVE TypeInv'
    BY <1>10 DEF InitFailed, globals, mutex, Opened, Closed
<1>11. ASSUME NEW t \in Thread, InitSetHandle(t) PROVE TypeInv'
    BY <1>11 DEF InitSetHandle, globals, mutex, Opened, Closed
<1>12. ASSUME NEW t \in Thread, InitSetK32(t) PROVE TypeInv'
    BY <1>12 DEF InitSetK32, globals, mutex, Opened, Closed
<1>13. ASSUME NEW t \in Thread, TakeLock(t) PROVE TypeInv'
    BY <1>13 DEF TakeLock, globals, mutex, Opened, Closed
<1>14. ASSUME NEW t \in Thread, CreateMutex(t) PROVE TypeInv'
    BY <1>14 DEF CreateMutex, globals, mutex, Opened, Closed, Is
<1>15. ASSUME NEW t \in Thread, WaitMutex(t) PROVE TypeInv'
    BY <1>15 DEF WaitMutex, globals, mutex, Opened, Closed
<1>16. ASSUME NEW t \in Thread, TimedOut(t) PROVE TypeInv'
    BY <1>16 DEF TimedOut, globals, mutex, Opened, Closed
<1>17. ASSUME NEW t \in Thread, Access(t) PROVE TypeInv'
    BY <1>17 DEF Access, globals, mutex, Opened, Closed
<1>18. ASSUME NEW t \in Thread, ReleaseMutex(t) PROVE TypeInv'
    BY <1>18 DEF ReleaseMutex, globals, mutex, Opened, Closed
<1>19. ASSUME NEW t \in Thread, LeaveGuard(t) PROVE TypeInv'
    BY <1>19 DEF LeaveGuard, globals, mutex, Opened, Closed
<1>20. ASSUME NEW t \in Thread, Unlock(t) PROVE TypeInv'
    BY <1>20 DEF Unlock, globals, mutex, Opened, Closed
<1>21. ASSUME NEW t \in Thread, CloseCheck(t) PROVE TypeInv'
    BY <1>21 DEF CloseCheck, globals, mutex, Opened, Closed
<1>22. ASSUME NEW t \in Thread, CloseDevice(t) PROVE TypeInv'
    BY <1>22 DEF CloseDevice, globals, mutex, Opened, Closed
<1>23. ASSUME NEW t \in Thread, CloseHandleNone(t) PROVE TypeInv'
    BY <1>23 DEF CloseHandleNone, globals, mutex, Opened, Closed
<1>24. ASSUME NEW t \in Thread, CloseK32None(t) PROVE TypeInv'
    BY <1>24 DEF CloseK32None, globals, mutex, Opened, Closed
<1> QED
    BY <1>1, <1>2, <1>3, <1>4, <1>5, <1>6, <1>7, <1>8, <1>9, <1>10, <1>11, <1>12,
       <1>13, <1>14, <1>15, <1>16, <1>17, <1>18, <1>19, <1>20, <1>21, <1>22, <1>23, <1>24 DEF Next, Finished

\* A guard that keeps a handle has been granted the mutex, and nobody else
\* releases it.
LEMMA OwnNext ==
    ASSUME TypeInv, [Next]_vars, \A t \in Thread : OwnOK(t), NEW u \in Thread
    PROVE  OwnOK(u)'
<1>0. TypeOK /\ OwnOK(u)  BY DEF TypeInv
<1> USE <1>0, ThreadAssumption DEF TypeOK, OwnOK, Guarded, Io, Set, Goto
<1>1. CASE Install  BY <1>1 DEF Install, globals, mutex
<1>2. CASE OtherTakes  BY <1>2 DEF OtherTakes, globals, mutex
<1>3. CASE OtherReleases  BY <1>3 DEF OtherReleases, globals, mutex
<1>4. CASE UNCHANGED vars  BY <1>4 DEF vars, globals, mutex
<1>5. ASSUME NEW t \in Thread, Start(t) PROVE OwnOK(u)'
    BY <1>5, Starts DEF globals, mutex
<1>6. ASSUME NEW t \in Thread, InitCheck(t) PROVE OwnOK(u)'
    BY <1>6 DEF InitCheck, globals, mutex, Opened, Closed
<1>7. ASSUME NEW t \in Thread, InitInfo(t) PROVE OwnOK(u)'
    BY <1>7 DEF InitInfo, globals, mutex, Opened, Closed
<1>8. ASSUME NEW t \in Thread, InitOpen(t) PROVE OwnOK(u)'
    BY <1>8 DEF InitOpen, globals, mutex, Opened, Closed
<1>9. ASSUME NEW t \in Thread, InitLoad(t) PROVE OwnOK(u)'
    BY <1>9 DEF InitLoad, globals, mutex, Opened, Closed
<1>10. ASSUME NEW t \in Thread, InitFailed(t) PROVE OwnOK(u)'
    BY <1>10 DEF InitFailed, globals, mutex, Opened, Closed
<1>11. ASSUME NEW t \in Thread, InitSetHandle(t) PROVE OwnOK(u)'
    BY <1>11 DEF InitSetHandle, globals, mutex, Opened, Closed
<1>12. ASSUME NEW t \in Thread, InitSetK32(t) PROVE OwnOK(u)'
    BY <1>12 DEF InitSetK32, globals, mutex, Opened, Closed
<1>13. ASSUME NEW t \in Thread, TakeLock(t) PROVE OwnOK(u)'
    BY <1>13 DEF TakeLock, globals, mutex, Opened, Closed
<1>14. ASSUME NEW t \in Thread, CreateMutex(t) PROVE OwnOK(u)'
    BY <1>14 DEF CreateMutex, globals, mutex, Opened, Closed
<1>15. ASSUME NEW t \in Thread, WaitMutex(t) PROVE OwnOK(u)'
    BY <1>15 DEF WaitMutex, globals, mutex, Opened, Closed
<1>16. ASSUME NEW t \in Thread, TimedOut(t) PROVE OwnOK(u)'
    BY <1>16 DEF TimedOut, globals, mutex, Opened, Closed
<1>17. ASSUME NEW t \in Thread, Access(t) PROVE OwnOK(u)'
    BY <1>17 DEF Access, globals, mutex, Opened, Closed
<1>18. ASSUME NEW t \in Thread, ReleaseMutex(t) PROVE OwnOK(u)'
    BY <1>18 DEF ReleaseMutex, globals, mutex, Opened, Closed
<1>19. ASSUME NEW t \in Thread, LeaveGuard(t) PROVE OwnOK(u)'
    BY <1>19 DEF LeaveGuard, globals, mutex, Opened, Closed
<1>20. ASSUME NEW t \in Thread, Unlock(t) PROVE OwnOK(u)'
    BY <1>20 DEF Unlock, globals, mutex, Opened, Closed
<1>21. ASSUME NEW t \in Thread, CloseCheck(t) PROVE OwnOK(u)'
    BY <1>21 DEF CloseCheck, globals, mutex, Opened, Closed
<1>22. ASSUME NEW t \in Thread, CloseDevice(t) PROVE OwnOK(u)'
    BY <1>22 DEF CloseDevice, globals, mutex, Opened, Closed
<1>23. ASSUME NEW t \in Thread, CloseHandleNone(t) PROVE OwnOK(u)'
    BY <1>23 DEF CloseHandleNone, globals, mutex, Opened, Closed
<1>24. ASSUME NEW t \in Thread, CloseK32None(t) PROVE OwnOK(u)'
    BY <1>24 DEF CloseK32None, globals, mutex, Opened, Closed
<1> QED
    BY <1>1, <1>2, <1>3, <1>4, <1>5, <1>6, <1>7, <1>8, <1>9, <1>10, <1>11, <1>12,
       <1>13, <1>14, <1>15, <1>16, <1>17, <1>18, <1>19, <1>20, <1>21, <1>22, <1>23, <1>24 DEF Next, Finished

\* close() starts when all are idle, and nothing starts during it.
LEMMA ApartNext ==
    ASSUME "cut" \notin harm', TypeInv, GInv, [Next]_vars, NEW u \in Thread, NEW v \in Thread
    PROVE  Apart(u, v)'
<1>0. /\ TypeOK /\ Apart(u, v) /\ LoadOK(u) /\ LoadOK(v)
      /\ \A t \in Thread : Apart(t, u) /\ Apart(t, v)
    BY DEF GInv, TypeInv, ThreadOK
<1> USE <1>0, FreeIsFree
    DEF TypeOK, Apart, LoadOK, Loading, Is, Closing, Io, Set, Goto
<1>1. CASE Install  BY <1>1 DEF Install, globals, mutex
<1>2. CASE OtherTakes  BY <1>2 DEF OtherTakes, globals, mutex
<1>3. CASE OtherReleases  BY <1>3 DEF OtherReleases, globals, mutex
<1>4. CASE UNCHANGED vars  BY <1>4 DEF vars, globals, mutex
<1>5. ASSUME NEW t \in Thread, Start(t) PROVE Apart(u, v)'
    <2>1. \A w \in Thread \ {t} : pc[w] \notin Closing \/ pc' = pc
        BY <1>5, StartsApart
    <2>2. \A w \in Thread \ {t} : pc'[t] = "close1" => pc[w] = "idle"
        BY <1>5, StartsApart
    <2>3. /\ \A w \in Thread \ {t} : pc'[w] = pc[w]
          /\ pc'[t] \in {"idle", "init", "lock", "close1"}
          /\ UNCHANGED opened
        BY <1>5, Starts
    <2> QED  BY <2>1, <2>2, <2>3
<1>6. ASSUME NEW t \in Thread, InitCheck(t) PROVE Apart(u, v)'
    BY <1>6 DEF InitCheck, globals, mutex, Opened, Closed
<1>7. ASSUME NEW t \in Thread, InitInfo(t) PROVE Apart(u, v)'
    BY <1>7 DEF InitInfo, globals, mutex, Opened, Closed
<1>8. ASSUME NEW t \in Thread, InitOpen(t) PROVE Apart(u, v)'
    BY <1>8 DEF InitOpen, globals, mutex, Opened, Closed
<1>9. ASSUME NEW t \in Thread, InitLoad(t) PROVE Apart(u, v)'
    BY <1>9 DEF InitLoad, globals, mutex, Opened, Closed
<1>10. ASSUME NEW t \in Thread, InitFailed(t) PROVE Apart(u, v)'
    BY <1>10 DEF InitFailed, globals, mutex, Opened, Closed
<1>11. ASSUME NEW t \in Thread, InitSetHandle(t) PROVE Apart(u, v)'
    BY <1>11 DEF InitSetHandle, globals, mutex, Opened, Closed
<1>12. ASSUME NEW t \in Thread, InitSetK32(t) PROVE Apart(u, v)'
    BY <1>12 DEF InitSetK32, globals, mutex, Opened, Closed
<1>13. ASSUME NEW t \in Thread, TakeLock(t) PROVE Apart(u, v)'
    BY <1>13 DEF TakeLock, globals, mutex, Opened, Closed
<1>14. ASSUME NEW t \in Thread, CreateMutex(t) PROVE Apart(u, v)'
    BY <1>14 DEF CreateMutex, globals, mutex, Opened, Closed
<1>15. ASSUME NEW t \in Thread, WaitMutex(t) PROVE Apart(u, v)'
    BY <1>15 DEF WaitMutex, globals, mutex, Opened, Closed
<1>16. ASSUME NEW t \in Thread, TimedOut(t) PROVE Apart(u, v)'
    BY <1>16 DEF TimedOut, globals, mutex, Opened, Closed
<1>17. ASSUME NEW t \in Thread, Access(t) PROVE Apart(u, v)'
    BY <1>17 DEF Access, globals, mutex, Opened, Closed
<1>18. ASSUME NEW t \in Thread, ReleaseMutex(t) PROVE Apart(u, v)'
    BY <1>18 DEF ReleaseMutex, globals, mutex, Opened, Closed
<1>19. ASSUME NEW t \in Thread, LeaveGuard(t) PROVE Apart(u, v)'
    BY <1>19 DEF LeaveGuard, globals, mutex, Opened, Closed
<1>20. ASSUME NEW t \in Thread, Unlock(t) PROVE Apart(u, v)'
    BY <1>20 DEF Unlock, globals, mutex, Opened, Closed
<1>21. ASSUME NEW t \in Thread, CloseCheck(t) PROVE Apart(u, v)'
    BY <1>21 DEF CloseCheck, globals, mutex, Opened, Closed
<1>22. ASSUME NEW t \in Thread, CloseDevice(t) PROVE Apart(u, v)'
    BY <1>22 DEF CloseDevice, globals, mutex, Opened, Closed
<1>23. ASSUME NEW t \in Thread, CloseHandleNone(t) PROVE Apart(u, v)'
    BY <1>23 DEF CloseHandleNone, globals, mutex, Opened, Closed
<1>24. ASSUME NEW t \in Thread, CloseK32None(t) PROVE Apart(u, v)'
    BY <1>24 DEF CloseK32None, globals, mutex, Opened, Closed
<1> QED
    BY <1>1, <1>2, <1>3, <1>4, <1>5, <1>6, <1>7, <1>8, <1>9, <1>10, <1>11, <1>12,
       <1>13, <1>14, <1>15, <1>16, <1>17, <1>18, <1>19, <1>20, <1>21, <1>22, <1>23, <1>24 DEF Next, Finished

\* Another thread closes no handle but its own, and takes neither _lock nor
\* the mutex while u has them.
LEMMA CallNext ==
    ASSUME TypeInv, GInv, [Next]_vars, "cut" \notin harm', NEW u \in Thread
    PROVE  CallOK(u)'
<1>0. /\ TypeInv /\ TypeOK /\ ThreadOK(u)
      /\ \A t \in Thread : Apart(t, u) /\ Apart(u, t) /\ ThreadOK(t)
    BY DEF GInv, TypeInv
<1> USE <1>0, ThreadAssumption, FreeIsFree
    DEF TypeOK, Apart, ThreadOK, CallOK, Is, Held, Calling, Guarded, Loading, Io, Closing, Set, Goto
<1>1. CASE Install  BY <1>1 DEF Install, globals, mutex
<1>2. CASE OtherTakes  BY <1>2 DEF OtherTakes, globals, mutex
<1>3. CASE OtherReleases  BY <1>3 DEF OtherReleases, globals, mutex
<1>4. CASE UNCHANGED vars  BY <1>4 DEF vars, globals, mutex
<1>5. ASSUME NEW t \in Thread, Start(t) PROVE CallOK(u)'
    BY <1>5, Starts DEF globals, mutex
<1>6. ASSUME NEW t \in Thread, InitCheck(t) PROVE CallOK(u)'
    BY <1>6 DEF InitCheck, globals, mutex, Opened, Closed
<1>7. ASSUME NEW t \in Thread, InitInfo(t) PROVE CallOK(u)'
    BY <1>7 DEF InitInfo, globals, mutex, Opened, Closed
<1>8. ASSUME NEW t \in Thread, InitOpen(t) PROVE CallOK(u)'
    BY <1>8 DEF InitOpen, globals, mutex, Opened, Closed
<1>9. ASSUME NEW t \in Thread, InitLoad(t) PROVE CallOK(u)'
    BY <1>9 DEF InitLoad, globals, mutex, Opened, Closed
<1>10. ASSUME NEW t \in Thread, InitFailed(t) PROVE CallOK(u)'
    BY <1>10 DEF InitFailed, globals, mutex, Opened, Closed, LoadOK
<1>11. ASSUME NEW t \in Thread, InitSetHandle(t) PROVE CallOK(u)'
    BY <1>11 DEF InitSetHandle, globals, mutex, Opened, Closed, LoadOK, Handle, None
<1>12. ASSUME NEW t \in Thread, InitSetK32(t) PROVE CallOK(u)'
    BY <1>12 DEF InitSetK32, globals, mutex, Opened, Closed
<1>13. ASSUME NEW t \in Thread, TakeLock(t) PROVE CallOK(u)'
    BY <1>13 DEF TakeLock, globals, mutex, Opened, Closed
<1>14. ASSUME NEW t \in Thread, CreateMutex(t) PROVE CallOK(u)'
    BY <1>14 DEF CreateMutex, globals, mutex, Opened, Closed
<1>15. ASSUME NEW t \in Thread, WaitMutex(t) PROVE CallOK(u)'
    <2>1. pc[t] = "wait" /\ UNCHANGED <<table, lock, guard, k32, handle>>
        BY <1>15 DEF WaitMutex, globals
    <2>2. \/ /\ owner \in {NoThread, t} /\ owner' = t /\ depth' = depth + 1
             /\ pc' = [pc EXCEPT ![t] = "io1"]
          \/ UNCHANGED mutex /\ pc' = [pc EXCEPT ![t] = "timedout"] /\ owner # t
        BY <1>15 DEF WaitMutex
    <2>3. owner # t /\ (owner = NoThread => depth = 0)  BY <2>1 DEF TypeInv
    <2>4. CASE u = t  BY <2>1, <2>2, <2>3, <2>4 DEF mutex, None, Handle
    <2>5. CASE u # t  BY <2>1, <2>2, <2>3, <2>5 DEF mutex
    <2> QED  BY <2>4, <2>5
<1>16. ASSUME NEW t \in Thread, TimedOut(t) PROVE CallOK(u)'
    BY <1>16 DEF TimedOut, globals, mutex, Opened, Closed
<1>17. ASSUME NEW t \in Thread, Access(t) PROVE CallOK(u)'
    BY <1>17 DEF Access, globals, mutex, Opened, Closed, OwnOK
<1>18. ASSUME NEW t \in Thread, ReleaseMutex(t) PROVE CallOK(u)'
    BY <1>18 DEF ReleaseMutex, globals, mutex, Opened, Closed, IsMutex
<1>19. ASSUME NEW t \in Thread, LeaveGuard(t) PROVE CallOK(u)'
    BY <1>19 DEF LeaveGuard, globals, mutex, Opened, Closed
<1>20. ASSUME NEW t \in Thread, Unlock(t) PROVE CallOK(u)'
    BY <1>20 DEF Unlock, globals, mutex, Opened, Closed
<1>21. ASSUME NEW t \in Thread, CloseCheck(t) PROVE CallOK(u)'
    BY <1>21 DEF CloseCheck, globals, mutex, Opened, Closed
<1>22. ASSUME NEW t \in Thread, CloseDevice(t) PROVE CallOK(u)'
    BY <1>22 DEF CloseDevice, globals, mutex, Opened, Closed
<1>23. ASSUME NEW t \in Thread, CloseHandleNone(t) PROVE CallOK(u)'
    BY <1>23 DEF CloseHandleNone, globals, mutex, Opened, Closed
<1>24. ASSUME NEW t \in Thread, CloseK32None(t) PROVE CallOK(u)'
    BY <1>24 DEF CloseK32None, globals, mutex, Opened, Closed
<1> QED
    BY <1>1, <1>2, <1>3, <1>4, <1>5, <1>6, <1>7, <1>8, <1>9, <1>10, <1>11, <1>12,
       <1>13, <1>14, <1>15, <1>16, <1>17, <1>18, <1>19, <1>20, <1>21, <1>22, <1>23, <1>24 DEF Next, Finished

\* A handle in the hand of an init() is closed by nobody else.
LEMMA LoadNext ==
    ASSUME TypeInv, GInv, [Next]_vars, NEW u \in Thread PROVE LoadOK(u)'
<1>0. /\ TypeOK /\ HandleOK /\ ThreadOK(u)
      /\ \A t \in Thread : Apart(t, u) /\ Apart(u, t) /\ ThreadOK(t)
    BY DEF GInv, TypeInv
<1> USE <1>0, FreeIsFree
    DEF TypeOK, Apart, ThreadOK, LoadOK, Is, Loading, Guarded, Io, Closing, Set, Goto
<1>1. CASE Install  BY <1>1 DEF Install, globals, mutex
<1>2. CASE OtherTakes  BY <1>2 DEF OtherTakes, globals, mutex
<1>3. CASE OtherReleases  BY <1>3 DEF OtherReleases, globals, mutex
<1>4. CASE UNCHANGED vars  BY <1>4 DEF vars, globals, mutex
<1>5. ASSUME NEW t \in Thread, Start(t) PROVE LoadOK(u)'
    BY <1>5, Starts DEF globals, mutex
<1>6. ASSUME NEW t \in Thread, InitCheck(t) PROVE LoadOK(u)'
    BY <1>6 DEF InitCheck, globals, mutex, Opened, Closed
<1>7. ASSUME NEW t \in Thread, InitInfo(t) PROVE LoadOK(u)'
    BY <1>7 DEF InitInfo, globals, mutex, Opened, Closed
<1>8. ASSUME NEW t \in Thread, InitOpen(t) PROVE LoadOK(u)'
    <2>1. \A w \in Thread : pc[w] # "close3"
        BY <1>8 DEF InitOpen, GInv
    <2>2. handle = None \/ Is(handle, "device")  BY <2>1 DEF HandleOK
    <2>3. CASE u = t
        <3>1. CASE Room /\ table' = Opened("device") /\ opened' = Set(opened, t, Free)
                   /\ Goto(t, "load")
            <4>1. Free # handle /\ Free \in Handle /\ table'[Free] = "device"
                BY <3>1, <2>2 DEF Opened, Handle, None
            <4>2. handle' = handle  BY <1>8 DEF InitOpen, globals
            <4> QED  BY <2>3, <3>1, <4>1, <4>2
        <3>2. CASE Goto(t, "idle") /\ UNCHANGED <<table, opened>>
            BY <1>8, <2>3, <3>2 DEF InitOpen, globals
        <3> QED  BY <1>8, <3>1, <3>2 DEF InitOpen
    <2>4. CASE u # t  BY <1>8, <2>4 DEF InitOpen, Opened, globals
    <2> QED  BY <2>3, <2>4
<1>9. ASSUME NEW t \in Thread, InitLoad(t) PROVE LoadOK(u)'
    BY <1>9 DEF InitLoad, globals, mutex, Opened, Closed
<1>10. ASSUME NEW t \in Thread, InitFailed(t) PROVE LoadOK(u)'
    BY <1>10 DEF InitFailed, globals, mutex, Opened, Closed, Handle, None
<1>11. ASSUME NEW t \in Thread, InitSetHandle(t) PROVE LoadOK(u)'
    BY <1>11 DEF InitSetHandle, globals, mutex, Opened, Closed, Handle, None
<1>12. ASSUME NEW t \in Thread, InitSetK32(t) PROVE LoadOK(u)'
    BY <1>12 DEF InitSetK32, globals, mutex, Opened, Closed
<1>13. ASSUME NEW t \in Thread, TakeLock(t) PROVE LoadOK(u)'
    BY <1>13 DEF TakeLock, globals, mutex, Opened, Closed
<1>14. ASSUME NEW t \in Thread, CreateMutex(t) PROVE LoadOK(u)'
    BY <1>14 DEF CreateMutex, globals, mutex, Opened, Closed, CallOK
<1>15. ASSUME NEW t \in Thread, WaitMutex(t) PROVE LoadOK(u)'
    BY <1>15 DEF WaitMutex, globals, mutex, Opened, Closed
<1>16. ASSUME NEW t \in Thread, TimedOut(t) PROVE LoadOK(u)'
    BY <1>16 DEF TimedOut, globals, mutex, Opened, Closed, CallOK
<1>17. ASSUME NEW t \in Thread, Access(t) PROVE LoadOK(u)'
    BY <1>17 DEF Access, globals, mutex, Opened, Closed
<1>18. ASSUME NEW t \in Thread, ReleaseMutex(t) PROVE LoadOK(u)'
    BY <1>18 DEF ReleaseMutex, globals, mutex, Opened, Closed
<1>19. ASSUME NEW t \in Thread, LeaveGuard(t) PROVE LoadOK(u)'
    BY <1>19 DEF LeaveGuard, globals, mutex, Opened, Closed, CallOK
<1>20. ASSUME NEW t \in Thread, Unlock(t) PROVE LoadOK(u)'
    BY <1>20 DEF Unlock, globals, mutex, Opened, Closed
<1>21. ASSUME NEW t \in Thread, CloseCheck(t) PROVE LoadOK(u)'
    BY <1>21 DEF CloseCheck, globals, mutex, Opened, Closed
<1>22. ASSUME NEW t \in Thread, CloseDevice(t) PROVE LoadOK(u)'
    BY <1>22 DEF CloseDevice, globals, mutex, Opened, Closed
<1>23. ASSUME NEW t \in Thread, CloseHandleNone(t) PROVE LoadOK(u)'
    BY <1>23 DEF CloseHandleNone, globals, mutex, Opened, Closed
<1>24. ASSUME NEW t \in Thread, CloseK32None(t) PROVE LoadOK(u)'
    BY <1>24 DEF CloseK32None, globals, mutex, Opened, Closed
<1> QED
    BY <1>1, <1>2, <1>3, <1>4, <1>5, <1>6, <1>7, <1>8, <1>9, <1>10, <1>11, <1>12,
       <1>13, <1>14, <1>15, <1>16, <1>17, <1>18, <1>19, <1>20, <1>21, <1>22, <1>23, <1>24 DEF Next, Finished

\* Only init() sets the handle, and it meets no close().
LEMMA CloseNext ==
    ASSUME TypeInv, GInv, [Next]_vars, NEW u \in Thread PROVE CloseOK(u)'
<1>0. /\ TypeOK /\ HandleOK /\ FlagOK /\ ThreadOK(u)
      /\ \A t \in Thread : Apart(t, u) /\ Apart(u, t)
    BY DEF GInv, TypeInv
<1> USE <1>0, FreeIsFree
    DEF TypeOK, Apart, ThreadOK, CloseOK, Is, Closing, Io, Set, Goto
<1>1. CASE Install  BY <1>1 DEF Install, globals, mutex
<1>2. CASE OtherTakes  BY <1>2 DEF OtherTakes, globals, mutex
<1>3. CASE OtherReleases  BY <1>3 DEF OtherReleases, globals, mutex
<1>4. CASE UNCHANGED vars  BY <1>4 DEF vars, globals, mutex
<1>5. ASSUME NEW t \in Thread, Start(t) PROVE CloseOK(u)'
    BY <1>5, Starts DEF globals, mutex
<1>6. ASSUME NEW t \in Thread, InitCheck(t) PROVE CloseOK(u)'
    BY <1>6 DEF InitCheck, globals, mutex, Opened, Closed
<1>7. ASSUME NEW t \in Thread, InitInfo(t) PROVE CloseOK(u)'
    BY <1>7 DEF InitInfo, globals, mutex, Opened, Closed
<1>8. ASSUME NEW t \in Thread, InitOpen(t) PROVE CloseOK(u)'
    BY <1>8 DEF InitOpen, globals, mutex, Opened, Closed
<1>9. ASSUME NEW t \in Thread, InitLoad(t) PROVE CloseOK(u)'
    BY <1>9 DEF InitLoad, globals, mutex, Opened, Closed
<1>10. ASSUME NEW t \in Thread, InitFailed(t) PROVE CloseOK(u)'
    BY <1>10 DEF InitFailed, globals, mutex, Opened, Closed
<1>11. ASSUME NEW t \in Thread, InitSetHandle(t) PROVE CloseOK(u)'
    BY <1>11 DEF InitSetHandle, globals, mutex, Opened, Closed
<1>12. ASSUME NEW t \in Thread, InitSetK32(t) PROVE CloseOK(u)'
    BY <1>12 DEF InitSetK32, globals, mutex, Opened, Closed
<1>13. ASSUME NEW t \in Thread, TakeLock(t) PROVE CloseOK(u)'
    BY <1>13 DEF TakeLock, globals, mutex, Opened, Closed
<1>14. ASSUME NEW t \in Thread, CreateMutex(t) PROVE CloseOK(u)'
    BY <1>14 DEF CreateMutex, globals, mutex, Opened, Closed
<1>15. ASSUME NEW t \in Thread, WaitMutex(t) PROVE CloseOK(u)'
    BY <1>15 DEF WaitMutex, globals, mutex, Opened, Closed
<1>16. ASSUME NEW t \in Thread, TimedOut(t) PROVE CloseOK(u)'
    BY <1>16 DEF TimedOut, globals, mutex, Opened, Closed
<1>17. ASSUME NEW t \in Thread, Access(t) PROVE CloseOK(u)'
    BY <1>17 DEF Access, globals, mutex, Opened, Closed
<1>18. ASSUME NEW t \in Thread, ReleaseMutex(t) PROVE CloseOK(u)'
    BY <1>18 DEF ReleaseMutex, globals, mutex, Opened, Closed
<1>19. ASSUME NEW t \in Thread, LeaveGuard(t) PROVE CloseOK(u)'
    BY <1>19 DEF LeaveGuard, globals, mutex, Opened, Closed
<1>20. ASSUME NEW t \in Thread, Unlock(t) PROVE CloseOK(u)'
    BY <1>20 DEF Unlock, globals, mutex, Opened, Closed
<1>21. ASSUME NEW t \in Thread, CloseCheck(t) PROVE CloseOK(u)'
    BY <1>21 DEF CloseCheck, globals, mutex, Opened, Closed, FlagOK
<1>22. ASSUME NEW t \in Thread, CloseDevice(t) PROVE CloseOK(u)'
    BY <1>22 DEF CloseDevice, globals, mutex, Opened, Closed
<1>23. ASSUME NEW t \in Thread, CloseHandleNone(t) PROVE CloseOK(u)'
    BY <1>23 DEF CloseHandleNone, globals, mutex, Opened, Closed
<1>24. ASSUME NEW t \in Thread, CloseK32None(t) PROVE CloseOK(u)'
    BY <1>24 DEF CloseK32None, globals, mutex, Opened, Closed
<1> QED
    BY <1>1, <1>2, <1>3, <1>4, <1>5, <1>6, <1>7, <1>8, <1>9, <1>10, <1>11, <1>12,
       <1>13, <1>14, <1>15, <1>16, <1>17, <1>18, <1>19, <1>20, <1>21, <1>22, <1>23, <1>24 DEF Next, Finished

LEMMA HandleNext ==
    TypeInv /\ GInv /\ [Next]_vars => HandleOK'
<1> SUFFICES ASSUME TypeInv, GInv, [Next]_vars PROVE HandleOK'
    OBVIOUS
<1>0. /\ TypeOK /\ HandleOK /\ \A t, u \in Thread : Apart(t, u)
      /\ \A t \in Thread : ThreadOK(t)
    BY DEF GInv, TypeInv
<1> USE <1>0, FreeIsFree
    DEF TypeOK, Apart, ThreadOK, CloseOK, HandleOK, Is, Closing, Io, Set, Goto
<1>1. CASE Install  BY <1>1 DEF Install, globals, mutex
<1>2. CASE OtherTakes  BY <1>2 DEF OtherTakes, globals, mutex
<1>3. CASE OtherReleases  BY <1>3 DEF OtherReleases, globals, mutex
<1>4. CASE UNCHANGED vars  BY <1>4 DEF vars, globals, mutex
<1>5. ASSUME NEW t \in Thread, Start(t) PROVE HandleOK'
    BY <1>5, Starts DEF globals, mutex
<1>6. ASSUME NEW t \in Thread, InitCheck(t) PROVE HandleOK'
    BY <1>6 DEF InitCheck, globals, mutex, Opened, Closed
<1>7. ASSUME NEW t \in Thread, InitInfo(t) PROVE HandleOK'
    BY <1>7 DEF InitInfo, globals, mutex, Opened, Closed
<1>8. ASSUME NEW t \in Thread, InitOpen(t) PROVE HandleOK'
    BY <1>8 DEF InitOpen, globals, mutex, Opened, Closed
<1>9. ASSUME NEW t \in Thread, InitLoad(t) PROVE HandleOK'
    BY <1>9 DEF InitLoad, globals, mutex, Opened, Closed
<1>10. ASSUME NEW t \in Thread, InitFailed(t) PROVE HandleOK'
    BY <1>10 DEF InitFailed, globals, mutex, Opened, Closed, LoadOK, Loading
<1>11. ASSUME NEW t \in Thread, InitSetHandle(t) PROVE HandleOK'
    BY <1>11 DEF InitSetHandle, globals, mutex, Opened, Closed, LoadOK, Loading
<1>12. ASSUME NEW t \in Thread, InitSetK32(t) PROVE HandleOK'
    BY <1>12 DEF InitSetK32, globals, mutex, Opened, Closed
<1>13. ASSUME NEW t \in Thread, TakeLock(t) PROVE HandleOK'
    BY <1>13 DEF TakeLock, globals, mutex, Opened, Closed
<1>14. ASSUME NEW t \in Thread, CreateMutex(t) PROVE HandleOK'
    BY <1>14 DEF CreateMutex, globals, mutex, Opened, Closed
<1>15. ASSUME NEW t \in Thread, WaitMutex(t) PROVE HandleOK'
    BY <1>15 DEF WaitMutex, globals, mutex, Opened, Closed
<1>16. ASSUME NEW t \in Thread, TimedOut(t) PROVE HandleOK'
    BY <1>16 DEF TimedOut, globals, mutex, Opened, Closed, CallOK, Guarded
<1>17. ASSUME NEW t \in Thread, Access(t) PROVE HandleOK'
    BY <1>17 DEF Access, globals, mutex, Opened, Closed
<1>18. ASSUME NEW t \in Thread, ReleaseMutex(t) PROVE HandleOK'
    BY <1>18 DEF ReleaseMutex, globals, mutex, Opened, Closed
<1>19. ASSUME NEW t \in Thread, LeaveGuard(t) PROVE HandleOK'
    BY <1>19 DEF LeaveGuard, globals, mutex, Opened, Closed, CallOK, Guarded
<1>20. ASSUME NEW t \in Thread, Unlock(t) PROVE HandleOK'
    BY <1>20 DEF Unlock, globals, mutex, Opened, Closed
<1>21. ASSUME NEW t \in Thread, CloseCheck(t) PROVE HandleOK'
    BY <1>21 DEF CloseCheck, globals, mutex, Opened, Closed
<1>22. ASSUME NEW t \in Thread, CloseDevice(t) PROVE HandleOK'
    BY <1>22 DEF CloseDevice, globals, mutex, Opened, Closed
<1>23. ASSUME NEW t \in Thread, CloseHandleNone(t) PROVE HandleOK'
    BY <1>23 DEF CloseHandleNone, globals, mutex, Opened, Closed
<1>24. ASSUME NEW t \in Thread, CloseK32None(t) PROVE HandleOK'
    BY <1>24 DEF CloseK32None, globals, mutex, Opened, Closed
<1> QED
    BY <1>1, <1>2, <1>3, <1>4, <1>5, <1>6, <1>7, <1>8, <1>9, <1>10, <1>11, <1>12,
       <1>13, <1>14, <1>15, <1>16, <1>17, <1>18, <1>19, <1>20, <1>21, <1>22, <1>23, <1>24 DEF Next, Finished

\* No init() starts during another.
LEMMA AloneNext ==
    ASSUME "raced" \notin harm', TypeInv, KInv, [Next]_vars, NEW u \in Thread, NEW v \in Thread
    PROVE  Alone(u, v)'
<1>0. TypeOK /\ Alone(u, v)  BY DEF KInv, TypeInv
<1> USE <1>0 DEF TypeOK, Alone, InInit, Initing, Closing, Io, Set, Goto
<1>1. CASE Install  BY <1>1 DEF Install, globals, mutex
<1>2. CASE OtherTakes  BY <1>2 DEF OtherTakes, globals, mutex
<1>3. CASE OtherReleases  BY <1>3 DEF OtherReleases, globals, mutex
<1>4. CASE UNCHANGED vars  BY <1>4 DEF vars, globals, mutex
<1>5. ASSUME NEW t \in Thread, Start(t) PROVE Alone(u, v)'
    <2>1. \A w \in Thread \ {t} : pc'[t] = "init" => pc[w] \notin InInit
        BY <1>5, StartsApart
    <2>2. /\ \A w \in Thread \ {t} : pc'[w] = pc[w]
          /\ pc'[t] \in {"idle", "init", "lock", "close1"}
        BY <1>5, Starts
    <2> QED  BY <2>1, <2>2
<1>6. ASSUME NEW t \in Thread, InitCheck(t) PROVE Alone(u, v)'
    BY <1>6 DEF InitCheck, globals, mutex, Opened, Closed
<1>7. ASSUME NEW t \in Thread, InitInfo(t) PROVE Alone(u, v)'
    BY <1>7 DEF InitInfo, globals, mutex, Opened, Closed
<1>8. ASSUME NEW t \in Thread, InitOpen(t) PROVE Alone(u, v)'
    BY <1>8 DEF InitOpen, globals, mutex, Opened, Closed
<1>9. ASSUME NEW t \in Thread, InitLoad(t) PROVE Alone(u, v)'
    BY <1>9 DEF InitLoad, globals, mutex, Opened, Closed
<1>10. ASSUME NEW t \in Thread, InitFailed(t) PROVE Alone(u, v)'
    BY <1>10 DEF InitFailed, globals, mutex, Opened, Closed
<1>11. ASSUME NEW t \in Thread, InitSetHandle(t) PROVE Alone(u, v)'
    BY <1>11 DEF InitSetHandle, globals, mutex, Opened, Closed
<1>12. ASSUME NEW t \in Thread, InitSetK32(t) PROVE Alone(u, v)'
    BY <1>12 DEF InitSetK32, globals, mutex, Opened, Closed
<1>13. ASSUME NEW t \in Thread, TakeLock(t) PROVE Alone(u, v)'
    BY <1>13 DEF TakeLock, globals, mutex, Opened, Closed
<1>14. ASSUME NEW t \in Thread, CreateMutex(t) PROVE Alone(u, v)'
    BY <1>14 DEF CreateMutex, globals, mutex, Opened, Closed
<1>15. ASSUME NEW t \in Thread, WaitMutex(t) PROVE Alone(u, v)'
    BY <1>15 DEF WaitMutex, globals, mutex, Opened, Closed
<1>16. ASSUME NEW t \in Thread, TimedOut(t) PROVE Alone(u, v)'
    BY <1>16 DEF TimedOut, globals, mutex, Opened, Closed
<1>17. ASSUME NEW t \in Thread, Access(t) PROVE Alone(u, v)'
    BY <1>17 DEF Access, globals, mutex, Opened, Closed
<1>18. ASSUME NEW t \in Thread, ReleaseMutex(t) PROVE Alone(u, v)'
    BY <1>18 DEF ReleaseMutex, globals, mutex, Opened, Closed
<1>19. ASSUME NEW t \in Thread, LeaveGuard(t) PROVE Alone(u, v)'
    BY <1>19 DEF LeaveGuard, globals, mutex, Opened, Closed
<1>20. ASSUME NEW t \in Thread, Unlock(t) PROVE Alone(u, v)'
    BY <1>20 DEF Unlock, globals, mutex, Opened, Closed
<1>21. ASSUME NEW t \in Thread, CloseCheck(t) PROVE Alone(u, v)'
    BY <1>21 DEF CloseCheck, globals, mutex, Opened, Closed
<1>22. ASSUME NEW t \in Thread, CloseDevice(t) PROVE Alone(u, v)'
    BY <1>22 DEF CloseDevice, globals, mutex, Opened, Closed
<1>23. ASSUME NEW t \in Thread, CloseHandleNone(t) PROVE Alone(u, v)'
    BY <1>23 DEF CloseHandleNone, globals, mutex, Opened, Closed
<1>24. ASSUME NEW t \in Thread, CloseK32None(t) PROVE Alone(u, v)'
    BY <1>24 DEF CloseK32None, globals, mutex, Opened, Closed
<1> QED
    BY <1>1, <1>2, <1>3, <1>4, <1>5, <1>6, <1>7, <1>8, <1>9, <1>10, <1>11, <1>12,
       <1>13, <1>14, <1>15, <1>16, <1>17, <1>18, <1>19, <1>20, <1>21, <1>22, <1>23, <1>24 DEF Next, Finished

\* init() finds no handle, and nobody else sets one meanwhile.
LEMMA SettingNext ==
    ASSUME TypeInv, GInv, KInv, [Next]_vars, NEW u \in Thread PROVE SettingOK(u)'
<1>0. /\ TypeOK /\ SettingOK(u)
      /\ \A t \in Thread : Apart(t, u) /\ Alone(t, u) /\ LoadOK(t)
    BY DEF GInv, KInv, TypeInv, ThreadOK
<1> USE <1>0 DEF TypeOK, Apart, Alone, SettingOK, LoadOK, Is, Loading, InInit, Initing, Io, Closing, Set, Goto
<1>1. CASE Install  BY <1>1 DEF Install, globals, mutex
<1>2. CASE OtherTakes  BY <1>2 DEF OtherTakes, globals, mutex
<1>3. CASE OtherReleases  BY <1>3 DEF OtherReleases, globals, mutex
<1>4. CASE UNCHANGED vars  BY <1>4 DEF vars, globals, mutex
<1>5. ASSUME NEW t \in Thread, Start(t) PROVE SettingOK(u)'
    BY <1>5, Starts DEF globals, mutex
<1>6. ASSUME NEW t \in Thread, InitCheck(t) PROVE SettingOK(u)'
    BY <1>6 DEF InitCheck, globals, mutex, Opened, Closed
<1>7. ASSUME NEW t \in Thread, InitInfo(t) PROVE SettingOK(u)'
    BY <1>7 DEF InitInfo, globals, mutex, Opened, Closed
<1>8. ASSUME NEW t \in Thread, InitOpen(t) PROVE SettingOK(u)'
    BY <1>8 DEF InitOpen, globals, mutex, Opened, Closed
<1>9. ASSUME NEW t \in Thread, InitLoad(t) PROVE SettingOK(u)'
    BY <1>9 DEF InitLoad, globals, mutex, Opened, Closed
<1>10. ASSUME NEW t \in Thread, InitFailed(t) PROVE SettingOK(u)'
    BY <1>10 DEF InitFailed, globals, mutex, Opened, Closed
<1>11. ASSUME NEW t \in Thread, InitSetHandle(t) PROVE SettingOK(u)'
    BY <1>11 DEF InitSetHandle, globals, mutex, Opened, Closed
<1>12. ASSUME NEW t \in Thread, InitSetK32(t) PROVE SettingOK(u)'
    BY <1>12 DEF InitSetK32, globals, mutex, Opened, Closed
<1>13. ASSUME NEW t \in Thread, TakeLock(t) PROVE SettingOK(u)'
    BY <1>13 DEF TakeLock, globals, mutex, Opened, Closed
<1>14. ASSUME NEW t \in Thread, CreateMutex(t) PROVE SettingOK(u)'
    BY <1>14 DEF CreateMutex, globals, mutex, Opened, Closed
<1>15. ASSUME NEW t \in Thread, WaitMutex(t) PROVE SettingOK(u)'
    BY <1>15 DEF WaitMutex, globals, mutex, Opened, Closed
<1>16. ASSUME NEW t \in Thread, TimedOut(t) PROVE SettingOK(u)'
    BY <1>16 DEF TimedOut, globals, mutex, Opened, Closed
<1>17. ASSUME NEW t \in Thread, Access(t) PROVE SettingOK(u)'
    BY <1>17 DEF Access, globals, mutex, Opened, Closed
<1>18. ASSUME NEW t \in Thread, ReleaseMutex(t) PROVE SettingOK(u)'
    BY <1>18 DEF ReleaseMutex, globals, mutex, Opened, Closed
<1>19. ASSUME NEW t \in Thread, LeaveGuard(t) PROVE SettingOK(u)'
    BY <1>19 DEF LeaveGuard, globals, mutex, Opened, Closed
<1>20. ASSUME NEW t \in Thread, Unlock(t) PROVE SettingOK(u)'
    BY <1>20 DEF Unlock, globals, mutex, Opened, Closed
<1>21. ASSUME NEW t \in Thread, CloseCheck(t) PROVE SettingOK(u)'
    BY <1>21 DEF CloseCheck, globals, mutex, Opened, Closed
<1>22. ASSUME NEW t \in Thread, CloseDevice(t) PROVE SettingOK(u)'
    BY <1>22 DEF CloseDevice, globals, mutex, Opened, Closed
<1>23. ASSUME NEW t \in Thread, CloseHandleNone(t) PROVE SettingOK(u)'
    BY <1>23 DEF CloseHandleNone, globals, mutex, Opened, Closed
<1>24. ASSUME NEW t \in Thread, CloseK32None(t) PROVE SettingOK(u)'
    BY <1>24 DEF CloseK32None, globals, mutex, Opened, Closed
<1> QED
    BY <1>1, <1>2, <1>3, <1>4, <1>5, <1>6, <1>7, <1>8, <1>9, <1>10, <1>11, <1>12,
       <1>13, <1>14, <1>15, <1>16, <1>17, <1>18, <1>19, <1>20, <1>21, <1>22, <1>23, <1>24 DEF Next, Finished

\* The two variables are set one after the other, with nobody between.
LEMMA FlagNext == TypeInv /\ GInv /\ [Next]_vars => FlagOK'
<1> SUFFICES ASSUME TypeInv, GInv, [Next]_vars PROVE FlagOK'
    OBVIOUS
<1>0. /\ TypeOK /\ FlagOK /\ \A t, u \in Thread : Apart(t, u)
      /\ \A t \in Thread : CloseOK(t) /\ LoadOK(t)
    BY DEF GInv, TypeInv, ThreadOK
<1> USE <1>0
    DEF TypeOK, Apart, LoadOK, CloseOK, FlagOK, Loading, Io, Closing, Set, Goto
<1>1. CASE Install  BY <1>1 DEF Install, globals, mutex
<1>2. CASE OtherTakes  BY <1>2 DEF OtherTakes, globals, mutex
<1>3. CASE OtherReleases  BY <1>3 DEF OtherReleases, globals, mutex
<1>4. CASE UNCHANGED vars  BY <1>4 DEF vars, globals, mutex
<1>5. ASSUME NEW t \in Thread, Start(t) PROVE FlagOK'
    BY <1>5, Starts DEF globals, mutex
<1>6. ASSUME NEW t \in Thread, InitCheck(t) PROVE FlagOK'
    BY <1>6 DEF InitCheck, globals, mutex, Opened, Closed
<1>7. ASSUME NEW t \in Thread, InitInfo(t) PROVE FlagOK'
    BY <1>7 DEF InitInfo, globals, mutex, Opened, Closed
<1>8. ASSUME NEW t \in Thread, InitOpen(t) PROVE FlagOK'
    BY <1>8 DEF InitOpen, globals, mutex, Opened, Closed
<1>9. ASSUME NEW t \in Thread, InitLoad(t) PROVE FlagOK'
    BY <1>9 DEF InitLoad, globals, mutex, Opened, Closed
<1>10. ASSUME NEW t \in Thread, InitFailed(t) PROVE FlagOK'
    BY <1>10 DEF InitFailed, globals, mutex, Opened, Closed
<1>11. ASSUME NEW t \in Thread, InitSetHandle(t) PROVE FlagOK'
    BY <1>11 DEF InitSetHandle, globals, mutex, Opened, Closed
<1>12. ASSUME NEW t \in Thread, InitSetK32(t) PROVE FlagOK'
    BY <1>12 DEF InitSetK32, globals, mutex, Opened, Closed
<1>13. ASSUME NEW t \in Thread, TakeLock(t) PROVE FlagOK'
    BY <1>13 DEF TakeLock, globals, mutex, Opened, Closed
<1>14. ASSUME NEW t \in Thread, CreateMutex(t) PROVE FlagOK'
    BY <1>14 DEF CreateMutex, globals, mutex, Opened, Closed
<1>15. ASSUME NEW t \in Thread, WaitMutex(t) PROVE FlagOK'
    BY <1>15 DEF WaitMutex, globals, mutex, Opened, Closed
<1>16. ASSUME NEW t \in Thread, TimedOut(t) PROVE FlagOK'
    BY <1>16 DEF TimedOut, globals, mutex, Opened, Closed
<1>17. ASSUME NEW t \in Thread, Access(t) PROVE FlagOK'
    BY <1>17 DEF Access, globals, mutex, Opened, Closed
<1>18. ASSUME NEW t \in Thread, ReleaseMutex(t) PROVE FlagOK'
    BY <1>18 DEF ReleaseMutex, globals, mutex, Opened, Closed
<1>19. ASSUME NEW t \in Thread, LeaveGuard(t) PROVE FlagOK'
    BY <1>19 DEF LeaveGuard, globals, mutex, Opened, Closed
<1>20. ASSUME NEW t \in Thread, Unlock(t) PROVE FlagOK'
    BY <1>20 DEF Unlock, globals, mutex, Opened, Closed
<1>21. ASSUME NEW t \in Thread, CloseCheck(t) PROVE FlagOK'
    BY <1>21 DEF CloseCheck, globals, mutex, Opened, Closed
<1>22. ASSUME NEW t \in Thread, CloseDevice(t) PROVE FlagOK'
    BY <1>22 DEF CloseDevice, globals, mutex, Opened, Closed
<1>23. ASSUME NEW t \in Thread, CloseHandleNone(t) PROVE FlagOK'
    BY <1>23 DEF CloseHandleNone, globals, mutex, Opened, Closed
<1>24. ASSUME NEW t \in Thread, CloseK32None(t) PROVE FlagOK'
    BY <1>24 DEF CloseK32None, globals, mutex, Opened, Closed
<1> QED
    BY <1>1, <1>2, <1>3, <1>4, <1>5, <1>6, <1>7, <1>8, <1>9, <1>10, <1>11, <1>12,
       <1>13, <1>14, <1>15, <1>16, <1>17, <1>18, <1>19, <1>20, <1>21, <1>22, <1>23, <1>24 DEF Next, Finished

\* What a thread closes was in its hand, and what it lets go of is closed or
\* becomes the device.
LEMMA KeptNext ==
    ASSUME TypeInv, GInv, KInv, [Next]_vars, NEW n \in Handle PROVE Kept(n)'
<1>0. /\ TypeOK /\ Kept(n) /\ n # None
      /\ \A t \in Thread : CallOK(t) /\ LoadOK(t) /\ CloseOK(t) /\ SettingOK(t)
    BY DEF GInv, KInv, TypeInv, ThreadOK, Handle, None
<1> USE <1>0, FreeIsFree
    DEF TypeOK, LoadOK, CloseOK, SettingOK, Kept, Is, Held, Calling, Guarded, Loading, Initing, Io, Closing, Set, Goto
<1>1. CASE Install  BY <1>1 DEF Install, globals, mutex
<1>2. CASE OtherTakes  BY <1>2 DEF OtherTakes, globals, mutex
<1>3. CASE OtherReleases  BY <1>3 DEF OtherReleases, globals, mutex
<1>4. CASE UNCHANGED vars  BY <1>4 DEF vars, globals, mutex
<1>5. ASSUME NEW t \in Thread, Start(t) PROVE Kept(n)'
    BY <1>5, Starts DEF globals, mutex
<1>6. ASSUME NEW t \in Thread, InitCheck(t) PROVE Kept(n)'
    BY <1>6 DEF InitCheck, globals, mutex, Opened, Closed
<1>7. ASSUME NEW t \in Thread, InitInfo(t) PROVE Kept(n)'
    BY <1>7 DEF InitInfo, globals, mutex, Opened, Closed
<1>8. ASSUME NEW t \in Thread, InitOpen(t) PROVE Kept(n)'
    BY <1>8 DEF InitOpen, globals, mutex, Opened, Closed
<1>9. ASSUME NEW t \in Thread, InitLoad(t) PROVE Kept(n)'
    BY <1>9 DEF InitLoad, globals, mutex, Opened, Closed
<1>10. ASSUME NEW t \in Thread, InitFailed(t) PROVE Kept(n)'
    BY <1>10 DEF InitFailed, globals, mutex, Opened, Closed
<1>11. ASSUME NEW t \in Thread, InitSetHandle(t) PROVE Kept(n)'
    BY <1>11 DEF InitSetHandle, globals, mutex, Opened, Closed
<1>12. ASSUME NEW t \in Thread, InitSetK32(t) PROVE Kept(n)'
    BY <1>12 DEF InitSetK32, globals, mutex, Opened, Closed
<1>13. ASSUME NEW t \in Thread, TakeLock(t) PROVE Kept(n)'
    BY <1>13 DEF TakeLock, globals, mutex, Opened, Closed
<1>14. ASSUME NEW t \in Thread, CreateMutex(t) PROVE Kept(n)'
    BY <1>14 DEF CreateMutex, globals, mutex, Opened, Closed, CallOK
<1>15. ASSUME NEW t \in Thread, WaitMutex(t) PROVE Kept(n)'
    BY <1>15 DEF WaitMutex, globals, mutex, Opened, Closed
<1>16. ASSUME NEW t \in Thread, TimedOut(t) PROVE Kept(n)'
    BY <1>16 DEF TimedOut, globals, mutex, Opened, Closed, CallOK
<1>17. ASSUME NEW t \in Thread, Access(t) PROVE Kept(n)'
    BY <1>17 DEF Access, globals, mutex, Opened, Closed
<1>18. ASSUME NEW t \in Thread, ReleaseMutex(t) PROVE Kept(n)'
    BY <1>18 DEF ReleaseMutex, globals, mutex, Opened, Closed
<1>19. ASSUME NEW t \in Thread, LeaveGuard(t) PROVE Kept(n)'
    BY <1>19 DEF LeaveGuard, globals, mutex, Opened, Closed, CallOK
<1>20. ASSUME NEW t \in Thread, Unlock(t) PROVE Kept(n)'
    BY <1>20 DEF Unlock, globals, mutex, Opened, Closed
<1>21. ASSUME NEW t \in Thread, CloseCheck(t) PROVE Kept(n)'
    BY <1>21 DEF CloseCheck, globals, mutex, Opened, Closed
<1>22. ASSUME NEW t \in Thread, CloseDevice(t) PROVE Kept(n)'
    BY <1>22 DEF CloseDevice, globals, mutex, Opened, Closed
<1>23. ASSUME NEW t \in Thread, CloseHandleNone(t) PROVE Kept(n)'
    BY <1>23 DEF CloseHandleNone, globals, mutex, Opened, Closed
<1>24. ASSUME NEW t \in Thread, CloseK32None(t) PROVE Kept(n)'
    BY <1>24 DEF CloseK32None, globals, mutex, Opened, Closed
<1> QED
    BY <1>1, <1>2, <1>3, <1>4, <1>5, <1>6, <1>7, <1>8, <1>9, <1>10, <1>11, <1>12,
       <1>13, <1>14, <1>15, <1>16, <1>17, <1>18, <1>19, <1>20, <1>21, <1>22, <1>23, <1>24 DEF Next, Finished

-----------------------------------------------------------------------------
LEMMA InvInit == Init => TypeInv /\ GInv /\ KInv
<1> SUFFICES ASSUME Init PROVE TypeInv /\ GInv /\ KInv
    OBVIOUS
<1> USE ThreadAssumption DEF Init
<1>1. TypeInv  BY TypeInit DEF TypeInv
<1>2. HandleOK /\ FlagOK  BY DEF HandleOK, FlagOK
<1>3. \A t, u \in Thread : Apart(t, u) /\ Alone(t, u)  BY DEF Apart, Alone, Closing, InInit, Initing
<1>4. \A t \in Thread : ThreadOK(t) /\ SettingOK(t)
    BY DEF ThreadOK, CallOK, LoadOK, CloseOK, OwnOK, SettingOK,
           Held, Calling, Guarded, Loading, Initing, Io
<1>5. \A n \in Handle : Kept(n)  BY DEF Kept
<1> QED  BY <1>1, <1>2, <1>3, <1>4, <1>5 DEF GInv, KInv

LEMMA GInvNext == TypeInv /\ GInv /\ [Next]_vars /\ "cut" \notin harm' => GInv'
<1> SUFFICES ASSUME TypeInv, GInv, [Next]_vars, "cut" \notin harm' PROVE GInv'
    OBVIOUS
<1>1. \A t \in Thread : OwnOK(t)  BY DEF GInv, ThreadOK
<1>2. HandleOK' /\ FlagOK' /\ \A u, v \in Thread : Apart(u, v)'  BY HandleNext, FlagNext, ApartNext
<1>3. \A u \in Thread : ThreadOK(u)'
    BY <1>1, CallNext, LoadNext, CloseNext, OwnNext DEF ThreadOK
<1> QED  BY <1>2, <1>3 DEF GInv

LEMMA KInvNext ==
    TypeInv /\ GInv /\ KInv /\ [Next]_vars /\ "raced" \notin harm' => KInv'
<1> SUFFICES ASSUME TypeInv, GInv, KInv, [Next]_vars, "raced" \notin harm' PROVE KInv'
    OBVIOUS
<1>1. \A u, v \in Thread : Alone(u, v)'  BY AloneNext
<1>2. \A u \in Thread : SettingOK(u)'  BY SettingNext
<1>3. \A n \in Handle : Kept(n)'  BY KeptNext
<1> QED  BY <1>1, <1>2, <1>3 DEF KInv

LEMMA TypeInvAlways == Spec => []TypeInv
<1>1. Init => TypeInv  BY InvInit
<1> QED  BY <1>1, TypeNext, PTL DEF Spec

\* As long as close() has cut nothing, GInv holds; as long as nothing at all
\* has happened, KInv too.
Calm == /\ "cut" \notin harm => GInv
        /\ "cut" \notin harm /\ "raced" \notin harm => KInv

LEMMA CalmAlways == Spec => []Calm
<1>1. Init => Calm  BY InvInit DEF Calm
<1>2. TypeInv /\ Calm /\ [Next]_vars => Calm'
    BY GInvNext, KInvNext, HarmGrows DEF Calm
<1> QED  BY <1>1, <1>2, TypeInvAlways, PTL DEF Spec

\* The variables keep their types, and the mutex is not released more often
\* than it was taken, whatever the operations meet.
THEOREM TypeCorrect == Spec => []TypeOK
<1>1. TypeInv => TypeOK  BY DEF TypeInv
<1> QED  BY <1>1, TypeInvAlways, PTL

\* A call that has passed _require_init reaches the device, although it asks
\* only once (windows.py:238-240), unless a close() has overlapped another
\* operation.
THEOREM DeviceReached == Spec => []IoOnDevice
<1>1. Calm => IoOnDevice
    <2> SUFFICES ASSUME GInv, NEW t \in Thread, pc[t] \in Io
                 PROVE  k32 /\ handle # None /\ table[handle] = "device"
        BY DEF IoOnDevice, Calm
    <2>1. k32 /\ handle # None  BY DEF GInv, ThreadOK, CallOK, Calling
    <2>2. \A u \in Thread : pc[u] # "close3"
        BY DEF GInv, Apart, Closing, Io
    <2>3. Is(handle, "device")  BY <2>1, <2>2 DEF GInv, HandleOK
    <2> QED  BY <2>1, <2>3 DEF Is
<1> QED  BY <1>1, CalmAlways, PTL

\* A thread that has left the guard does not own Global\Access_PCI, although
\* accesses raise, waits fail and init() calls overlap (windows.py:138-141),
\* unless a close() has overlapped another operation.
THEOREM MutexIsReturned == Spec => []MutexReturned
<1>1. Calm => MutexReturned
    BY DEF Calm, GInv, ThreadOK, CallOK, MutexReturned
<1> QED  BY <1>1, CalmAlways, PTL

\* The guard keeps a handle only for a mutex that the thread owns: a wait that
\* timed out or failed has let go of it (windows.py:98-104), whatever close()
\* and init() do.
THEOREM GuardOwnsMutex == Spec => []GuardMeansOwner
<1> DEFINE Own == \A t \in Thread : OwnOK(t)
<1>1. Init => Own  BY DEF Init, OwnOK
<1>2. TypeInv /\ Own /\ [Next]_vars => Own'  BY OwnNext
<1>3. Own => GuardMeansOwner  BY DEF OwnOK, GuardMeansOwner
<1> QED  BY <1>1, <1>2, <1>3, TypeInvAlways, PTL DEF Spec

\* After close(), with nobody in an operation, nothing is open and the mutex
\* is not this process's, whatever failed before, unless a close() has
\* overlapped another operation or an init() another init().
THEOREM CloseIsComplete == Spec => []CloseReleases
<1>1. Calm => CloseReleases
    <2> SUFFICES ASSUME GInv, KInv, Idle, handle = None
                 PROVE  (\A n \in Handle : table[n] = "free") /\ owner \notin Thread
        BY DEF CloseReleases, Calm
    <2>1. \A t \in Thread : guard[t] = None /\ opened[t] = None
        BY DEF GInv, Idle, ThreadOK, CallOK, LoadOK, Guarded, Io, Loading
    <2>2. \A n \in Handle : n # None  BY DEF Handle, None
    <2>3. \A n \in Handle : table[n] = "free"
        BY <2>1, <2>2 DEF KInv, Kept
    <2>4. owner \notin Thread
        BY DEF GInv, Idle, ThreadOK, CallOK, Io
    <2> QED  BY <2>3, <2>4
<1> QED  BY <1>1, CalmAlways, PTL

=============================================================================

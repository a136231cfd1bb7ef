----------------------- MODULE PmTableWindowsProofs -----------------------
(***************************************************************************)
(* Proofs about PmTableWindows, for any number of threads, of calls and of *)
(* table versions, with close() at any time: who reads a table knows its   *)
(* version, except in the second round after a close(), and after an       *)
(* update that succeeded reads a table of its own call; the cached size is *)
(* that of the cached version unless the last close() came during a call.  *)
(***************************************************************************)
EXTENDS PmTableWindows, TLAPS

\* Who comes to the transfer command has just seen the driver's update fail;
\* an update that succeeded is still in memory when the table is read.
UpdateKept(t) ==
    /\ pc[t] = "transfer" => ~updated[t]
    /\ pc[t] = "read" => (updated[t] => current[t])

\* What a place of a call has behind it.
PlaceOK(t) ==
    /\ pc[t] \in {"query", "told"} => todo[t] = "version"
    /\ pc[t] \in {"lookup", "setsize"} => cachedVer # None \/ cut
    /\ pc[t] = "check" /\ todo[t] = "again" => cachedVer # None \/ cut
    /\ pc[t] = "setsize" => size[t] = SizeOf(version) \/ cut
    /\ pc[t] \in {"size", "update", "transfer", "read"} =>
          ver[t] = version \/ (ver[t] = None /\ todo[t] = "again" /\ cut)
PlacesOK == \A t \in Thread : PlaceOK(t)

\* Only the machine's version is ever cached; the size is that version's.
CacheOK ==
    /\ cachedVer \in {None, version}
    /\ CacheAgrees

IInv == TypeOK /\ PlacesOK /\ CacheOK /\ \A t \in Thread : UpdateKept(t)

-----------------------------------------------------------------------------
LEMMA TypeInit == Init => TypeOK
<1> SUFFICES ASSUME Init PROVE TypeOK
    OBVIOUS
<1> USE DEF Init, Labels, Ops, Todos
<1>1. version \in Version /\ known \in BOOLEAN /\ open \in BOOLEAN
    OBVIOUS
<1>2. cachedVer = None /\ cachedSize = None
    OBVIOUS
<1>3. current \in [Thread -> BOOLEAN] /\ updated \in [Thread -> BOOLEAN]
    OBVIOUS
<1>4. pc \in [Thread -> Labels] /\ op \in [Thread -> Ops] /\ todo \in [Thread -> Todos]
    OBVIOUS
<1>5. ops \in [Thread -> 0..MaxOps] /\ tries \in [Thread -> 0..2]
    BY BoundAssumption
<1>6. /\ ver \in [Thread -> Version \cup {None}]
      /\ size \in [Thread -> {None, Default} \cup {Size[v] : v \in Version}]
      /\ result \in [Thread -> {"none", "fresh", "stale"}]
      /\ cut \in BOOLEAN
    OBVIOUS
<1> QED  BY <1>1, <1>2, <1>3, <1>4, <1>5, <1>6 DEF TypeOK

\* What TABLE_SIZES.get gives is a size of a version, or the default.
LEMMA SizeOfType ==
    ASSUME NEW v \in Version \cup {None}
    PROVE  SizeOf(v) \in {None, Default} \cup {Size[w] : w \in Version}
BY DEF SizeOf

LEMMA TypeNext == TypeOK /\ [Next]_vars => TypeOK'
<1> SUFFICES ASSUME TypeOK, [Next]_vars PROVE TypeOK'
    OBVIOUS
<1> USE SizeAssumption, BoundAssumption
    DEF TypeOK, Labels, Ops, Todos, Set, Goto, Resolve, Return, Transfer, Tries,
        machine, cache, call, table
<1>1. CASE Close  BY <1>1 DEF Close
<1>2. CASE OtherTransfers  BY <1>2 DEF OtherTransfers
<1>3. CASE UNCHANGED vars  BY <1>3 DEF vars
<1>4. ASSUME NEW t \in Thread, Start(t) PROVE TypeOK'
    <2>1. open' \in BOOLEAN  BY <1>4 DEF Start
    <2>2. pc' \in [Thread -> Labels]
        <3>1. pc' = pc \/ pc' = [pc EXCEPT ![t] = "start"]  BY <1>4 DEF Start
        <3> QED  BY <3>1
    <2>3. ops' \in [Thread -> 0..MaxOps]  BY <1>4 DEF Start
    <2>4. op' \in [Thread -> Ops] /\ result' \in [Thread -> {"none", "fresh", "stale"}]
        BY <1>4 DEF Start
    <2>5. current' \in [Thread -> BOOLEAN]  BY <1>4 DEF Start
    <2>6. UNCHANGED <<machine, cache, todo, tries, updated, table, cut>>  BY <1>4 DEF Start
    <2> QED  BY <2>1, <2>2, <2>3, <2>4, <2>5, <2>6
<1>5. ASSUME NEW t \in Thread, Enter(t) PROVE TypeOK'
    <2>0. UNCHANGED <<machine, open, cache, current, call, tries, cut>>  BY <1>5 DEF Enter
    <2>1. CASE Return(t, "none")  BY <2>0, <2>1
    <2>2. CASE /\ \E w \in {"first", "version"} : Resolve(t, w)
               /\ UNCHANGED <<updated, table, result>>
        BY <2>0, <2>2
    <2>3. CASE Goto(t, "check") /\ UNCHANGED <<todo, updated, table, result>>
        BY <2>0, <2>3
    <2>4. \/ Return(t, "none")
          \/ /\ \E w \in {"first", "version"} : Resolve(t, w)
             /\ UNCHANGED <<updated, table, result>>
          \/ Goto(t, "check") /\ UNCHANGED <<todo, updated, table, result>>
        BY <1>5 DEF Enter
    <2> QED  BY <2>1, <2>2, <2>3, <2>4
<1>6. ASSUME NEW t \in Thread, Resolved(t) PROVE TypeOK'
    BY <1>6 DEF Resolved
<1>7. ASSUME NEW t \in Thread, ResolveFails(t) PROVE TypeOK'
    <2>1. tries' \in [Thread -> 0..2]  BY <1>7 DEF ResolveFails
    <2>2. UNCHANGED <<machine, open, cache, current, call, cut>>  BY <1>7 DEF ResolveFails
    <2>3. pc' \in [Thread -> Labels] /\ todo' \in [Thread -> Todos]
        BY <1>7 DEF ResolveFails
    <2>4. \/ UNCHANGED <<updated, table, result>>
          \/ Return(t, "none")
        BY <1>7 DEF ResolveFails
    <2>5. /\ updated' \in [Thread -> BOOLEAN]
          /\ ver' \in [Thread -> Version \cup {None}]
          /\ size' \in [Thread -> {None, Default} \cup {Size[v] : v \in Version}]
          /\ result' \in [Thread -> {"none", "fresh", "stale"}]
        BY <2>4
    <2> QED  BY <2>1, <2>2, <2>3, <2>5
<1>8. ASSUME NEW t \in Thread, QueryVersion(t) PROVE TypeOK'
    BY <1>8 DEF QueryVersion
<1>9. ASSUME NEW t \in Thread, SetVersion(t) PROVE TypeOK'
    BY <1>9 DEF SetVersion
<1>10. ASSUME NEW t \in Thread, SetSize(t) PROVE TypeOK'
    <2>1. cachedSize' \in {None, Default} \cup {Size[v] : v \in Version}
        BY <1>10 DEF SetSize
    <2>2. pc' \in [Thread -> Labels]  BY <1>10 DEF SetSize
    <2>3. UNCHANGED <<machine, open, cachedVer, current, call, todo, tries, updated, table, result, cut>>
        BY <1>10 DEF SetSize
    <2> QED  BY <2>1, <2>2, <2>3
<1>11. ASSUME NEW t \in Thread, CheckVersion(t) PROVE TypeOK'
    <2>1. CASE Return(t, "none") /\ UNCHANGED <<machine, open, cache, current, call, tries, cut>>
        BY <2>1
    <2>2. CASE /\ ver' = Set(ver, t, cachedVer) /\ Goto(t, "size")
               /\ UNCHANGED <<todo, updated, size, result>>
               /\ UNCHANGED <<machine, open, cache, current, call, tries, cut>>
        BY <2>2
    <2> QED  BY <1>11, <2>1, <2>2 DEF CheckVersion
<1>12. ASSUME NEW t \in Thread, Updated(t) PROVE TypeOK'
    BY <1>12 DEF Updated
<1>13. ASSUME NEW t \in Thread, UpdateFails(t) PROVE TypeOK'
    <2>1. tries' \in [Thread -> 0..2]  BY <1>13 DEF UpdateFails
    <2>2. UNCHANGED <<machine, open, cache, current, call, todo, table, result, cut>>
        BY <1>13 DEF UpdateFails
    <2>3. pc' = pc \/ pc' = [pc EXCEPT ![t] = "transfer"] \/ pc' = [pc EXCEPT ![t] = "read"]
        BY <1>13 DEF UpdateFails
    <2>4. pc' \in [Thread -> Labels]  BY <2>3
    <2>5. updated' = updated \/ updated' = [updated EXCEPT ![t] = FALSE]
        BY <1>13 DEF UpdateFails
    <2>6. updated' \in [Thread -> BOOLEAN]  BY <2>5
    <2> QED  BY <2>1, <2>2, <2>4, <2>6
<1>14. ASSUME NEW t \in Thread, TransferFails(t) PROVE TypeOK'
    BY <1>14 DEF TransferFails
<1>15. ASSUME NEW t \in Thread, Read(t) PROVE TypeOK'
    BY <1>15 DEF Read
<1>16. ASSUME NEW t \in Thread, ReadFails(t) PROVE TypeOK'
    BY <1>16 DEF ReadFails
<1>17. ASSUME NEW t \in Thread, VersionTold(t) PROVE TypeOK'
    BY <1>17 DEF VersionTold
<1>18. ASSUME NEW t \in Thread, LookUp(t) PROVE TypeOK'
    <2> DEFINE s == SizeOf(cachedVer)
    <2>1. s \in {None, Default} \cup {Size[v] : v \in Version}  BY SizeOfType
    <2> HIDE DEF s
    <2>2. size' = [size EXCEPT ![t] = s]  BY <1>18 DEF LookUp, s
    <2>3. size' \in [Thread -> {None, Default} \cup {Size[v] : v \in Version}]
        BY <2>1, <2>2
    <2>4. pc' \in [Thread -> Labels]  BY <1>18 DEF LookUp
    <2>5. UNCHANGED <<machine, open, cache, current, call, todo, tries, updated, ver, result, cut>>
        BY <1>18 DEF LookUp
    <2> QED  BY <2>3, <2>4, <2>5
<1>19. ASSUME NEW t \in Thread, TakeSize(t) PROVE TypeOK'
    <2> DEFINE s == IF cachedSize = None THEN Default ELSE cachedSize
    <2>1. s \in {None, Default} \cup {Size[v] : v \in Version}  OBVIOUS
    <2>2. size' = [size EXCEPT ![t] = s]  BY <1>19 DEF TakeSize
    <2> HIDE DEF s
    <2>3. size' \in [Thread -> {None, Default} \cup {Size[v] : v \in Version}]
        BY <2>1, <2>2
    <2>4. pc' \in [Thread -> Labels]  BY <1>19 DEF TakeSize
    <2>5. UNCHANGED <<machine, open, cache, current, call, todo, tries, updated, ver, result, cut>>
        BY <1>19 DEF TakeSize
    <2> QED  BY <2>3, <2>4, <2>5
<1>20. ASSUME NEW t \in Thread, Raises(t) PROVE TypeOK'
    BY <1>20 DEF Raises
<1> QED
    BY <1>1, <1>2, <1>3, <1>4, <1>5, <1>6, <1>7, <1>8, <1>9, <1>10, <1>11, <1>12, <1>13,
       <1>14, <1>15, <1>16, <1>17, <1>18, <1>19, <1>20 DEF Next, Step, Finished

-----------------------------------------------------------------------------
\* A version once cached goes only with close(); one that finds a call under
\* way is noted in cut.
LEMMA PlacesNext == TypeOK /\ PlacesOK /\ CacheOK /\ [Next]_vars => PlacesOK'
<1> SUFFICES ASSUME TypeOK, PlacesOK, CacheOK, [Next]_vars, NEW u \in Thread
             PROVE  PlaceOK(u)'
    BY DEF PlacesOK
<1>0. PlaceOK(u)  BY DEF PlacesOK
<1> USE SizeAssumption, <1>0 DEF TypeOK, PlaceOK
<1>1. CASE Close
    <2>1. pc[u] # "idle" => cut'  BY <1>1 DEF Close
    <2>2. UNCHANGED <<version, pc, todo, ver, size>>  BY <1>1 DEF Close, machine, table
    <2>3. SizeOf(version)' = SizeOf(version)  BY <2>2 DEF SizeOf
    <2> QED  BY <2>1, <2>2, <2>3
<1>2. CASE OtherTransfers  BY <1>2 DEF OtherTransfers, table, cache, machine, SizeOf
<1>3. CASE UNCHANGED vars  BY <1>3 DEF vars, table, cache, machine, SizeOf
<1>4. ASSUME NEW t \in Thread, Start(t) PROVE PlaceOK(u)'
    BY <1>4 DEF Start, Set, Goto, Resolve, Return, Transfer, Tries, table, cache, machine, SizeOf
<1>5. ASSUME NEW t \in Thread, Enter(t) PROVE PlaceOK(u)'
    BY <1>5 DEF Enter, Set, Goto, Resolve, Return, Transfer, Tries, table, cache, machine, SizeOf
<1>6. ASSUME NEW t \in Thread, Resolved(t) PROVE PlaceOK(u)'
    BY <1>6 DEF Resolved, Set, Goto, Resolve, Return, Transfer, Tries, table, cache, machine, SizeOf
<1>7. ASSUME NEW t \in Thread, ResolveFails(t) PROVE PlaceOK(u)'
    BY <1>7 DEF ResolveFails, Set, Goto, Resolve, Return, Transfer, Tries, table, cache, machine, SizeOf
<1>8. ASSUME NEW t \in Thread, QueryVersion(t) PROVE PlaceOK(u)'
    BY <1>8 DEF QueryVersion, Set, Goto, Resolve, Return, Transfer, Tries, table, cache, machine, SizeOf
<1>9. ASSUME NEW t \in Thread, SetVersion(t) PROVE PlaceOK(u)'
    <2>1. cachedVer' # None  BY <1>9 DEF SetVersion
    <2> QED  BY <1>9, <2>1 DEF SetVersion, Set, Goto, table, machine, SizeOf
<1>10. ASSUME NEW t \in Thread, SetSize(t) PROVE PlaceOK(u)'
    BY <1>10 DEF SetSize, Set, Goto, Resolve, Return, Transfer, Tries, table, cache, machine, SizeOf
<1>11. ASSUME NEW t \in Thread, CheckVersion(t) PROVE PlaceOK(u)'
    BY <1>11 DEF CheckVersion, Set, Goto, Return, table, cache, machine, SizeOf, CacheOK
<1>12. ASSUME NEW t \in Thread, Updated(t) PROVE PlaceOK(u)'
    BY <1>12 DEF Updated, Set, Goto, Resolve, Return, Transfer, Tries, table, cache, machine, SizeOf
<1>13. ASSUME NEW t \in Thread, UpdateFails(t) PROVE PlaceOK(u)'
    BY <1>13 DEF UpdateFails, Set, Goto, Resolve, Return, Transfer, Tries, table, cache, machine, SizeOf
<1>14. ASSUME NEW t \in Thread, TransferFails(t) PROVE PlaceOK(u)'
    BY <1>14 DEF TransferFails, Set, Goto, Resolve, Return, Transfer, Tries, table, cache, machine, SizeOf
<1>15. ASSUME NEW t \in Thread, Read(t) PROVE PlaceOK(u)'
    BY <1>15 DEF Read, Set, Goto, Resolve, Return, Transfer, Tries, table, cache, machine, SizeOf
<1>16. ASSUME NEW t \in Thread, ReadFails(t) PROVE PlaceOK(u)'
    BY <1>16 DEF ReadFails, Set, Goto, Resolve, Return, Transfer, Tries, table, cache, machine, SizeOf
<1>17. ASSUME NEW t \in Thread, VersionTold(t) PROVE PlaceOK(u)'
    BY <1>17 DEF VersionTold, Set, Goto, Resolve, Return, Transfer, Tries, table, cache, machine, SizeOf
<1>18. ASSUME NEW t \in Thread, LookUp(t) PROVE PlaceOK(u)'
    BY <1>18 DEF LookUp, Set, Goto, cache, machine, SizeOf, CacheOK
<1>19. ASSUME NEW t \in Thread, TakeSize(t) PROVE PlaceOK(u)'
    BY <1>19 DEF TakeSize, Set, Goto, Resolve, Return, Transfer, Tries, table, cache, machine, SizeOf
<1>20. ASSUME NEW t \in Thread, Raises(t) PROVE PlaceOK(u)'
    BY <1>20 DEF Raises, Set, Goto, Resolve, Return, Transfer, Tries, table, cache, machine, SizeOf
<1> QED
    BY <1>1, <1>2, <1>3, <1>4, <1>5, <1>6, <1>7, <1>8, <1>9, <1>10, <1>11, <1>12, <1>13,
       <1>14, <1>15, <1>16, <1>17, <1>18, <1>19, <1>20 DEF Next, Step, Finished

\* The size is set by a thread that has set the version before, unless a
\* close() came between.
LEMMA CacheNext == TypeOK /\ PlacesOK /\ CacheOK /\ [Next]_vars => CacheOK'
<1> SUFFICES ASSUME TypeOK, PlacesOK, CacheOK, [Next]_vars PROVE CacheOK'
    OBVIOUS
<1> USE DEF CacheOK, CacheAgrees, SizeOf
<1>1. CASE Close  BY <1>1 DEF Close, machine
<1>2. CASE OtherTransfers  BY <1>2 DEF OtherTransfers, machine, cache
<1>3. CASE UNCHANGED vars  BY <1>3 DEF vars, machine, cache
<1>4. ASSUME NEW t \in Thread, Start(t) PROVE CacheOK'
    BY <1>4 DEF Start, machine, cache
<1>5. ASSUME NEW t \in Thread, Enter(t) PROVE CacheOK'
    BY <1>5 DEF Enter, machine, cache
<1>6. ASSUME NEW t \in Thread, Resolved(t) PROVE CacheOK'
    BY <1>6 DEF Resolved, machine, cache
<1>7. ASSUME NEW t \in Thread, ResolveFails(t) PROVE CacheOK'
    BY <1>7 DEF ResolveFails, machine, cache
<1>8. ASSUME NEW t \in Thread, QueryVersion(t) PROVE CacheOK'
    BY <1>8 DEF QueryVersion, machine, cache
<1>9. ASSUME NEW t \in Thread, SetVersion(t) PROVE CacheOK'
    BY SizeAssumption, <1>9 DEF SetVersion, TypeOK, machine
<1>10. ASSUME NEW t \in Thread, SetSize(t) PROVE CacheOK'
    BY <1>10 DEF SetSize, PlacesOK, PlaceOK, machine
<1>11. ASSUME NEW t \in Thread, CheckVersion(t) PROVE CacheOK'
    BY <1>11 DEF CheckVersion, machine, cache
<1>12. ASSUME NEW t \in Thread, Updated(t) PROVE CacheOK'
    BY <1>12 DEF Updated, machine, cache
<1>13. ASSUME NEW t \in Thread, UpdateFails(t) PROVE CacheOK'
    BY <1>13 DEF UpdateFails, machine, cache
<1>14. ASSUME NEW t \in Thread, TransferFails(t) PROVE CacheOK'
    BY <1>14 DEF TransferFails, machine, cache
<1>15. ASSUME NEW t \in Thread, Read(t) PROVE CacheOK'
    BY <1>15 DEF Read, machine, cache
<1>16. ASSUME NEW t \in Thread, ReadFails(t) PROVE CacheOK'
    BY <1>16 DEF ReadFails, machine, cache
<1>17. ASSUME NEW t \in Thread, VersionTold(t) PROVE CacheOK'
    BY <1>17 DEF VersionTold, machine, cache
<1>18. ASSUME NEW t \in Thread, LookUp(t) PROVE CacheOK'
    BY <1>18 DEF LookUp, machine, cache
<1>19. ASSUME NEW t \in Thread, TakeSize(t) PROVE CacheOK'
    BY <1>19 DEF TakeSize, machine, cache
<1>20. ASSUME NEW t \in Thread, Raises(t) PROVE CacheOK'
    BY <1>20 DEF Raises, machine, cache
<1> QED
    BY <1>1, <1>2, <1>3, <1>4, <1>5, <1>6, <1>7, <1>8, <1>9, <1>10, <1>11, <1>12, <1>13,
       <1>14, <1>15, <1>16, <1>17, <1>18, <1>19, <1>20 DEF Next, Step, Finished

\* updated is set with current, which a thread loses only at its next call.
LEMMA UpdateNext ==
    ASSUME IInv, [Next]_vars, NEW u \in Thread PROVE UpdateKept(u)'
<1>0. UpdateKept(u) /\ TypeOK  BY DEF IInv
<1> USE <1>0 DEF TypeOK, UpdateKept
<1>1. CASE Close  BY <1>1 DEF Close
<1>2. CASE OtherTransfers  BY <1>2 DEF OtherTransfers, Transfer
<1>3. CASE UNCHANGED vars  BY <1>3 DEF vars
<1>4. ASSUME NEW t \in Thread, Start(t) PROVE UpdateKept(u)'
    BY <1>4 DEF Start, Set, Goto, Resolve, Return, Transfer, Tries
<1>5. ASSUME NEW t \in Thread, Enter(t) PROVE UpdateKept(u)'
    BY <1>5 DEF Enter, Set, Goto, Resolve, Return, Transfer, Tries
<1>6. ASSUME NEW t \in Thread, Resolved(t) PROVE UpdateKept(u)'
    BY <1>6 DEF Resolved, Set, Goto, Resolve, Return, Transfer, Tries
<1>7. ASSUME NEW t \in Thread, ResolveFails(t) PROVE UpdateKept(u)'
    BY <1>7 DEF ResolveFails, Set, Goto, Resolve, Return, Transfer, Tries
<1>8. ASSUME NEW t \in Thread, QueryVersion(t) PROVE UpdateKept(u)'
    BY <1>8 DEF QueryVersion, Set, Goto, Resolve, Return, Transfer, Tries
<1>9. ASSUME NEW t \in Thread, SetVersion(t) PROVE UpdateKept(u)'
    BY <1>9 DEF SetVersion, Set, Goto, Resolve, Return, Transfer, Tries
<1>10. ASSUME NEW t \in Thread, SetSize(t) PROVE UpdateKept(u)'
    BY <1>10 DEF SetSize, Set, Goto, Resolve, Return, Transfer, Tries
<1>11. ASSUME NEW t \in Thread, CheckVersion(t) PROVE UpdateKept(u)'
    BY <1>11 DEF CheckVersion, Set, Goto, Resolve, Return, Transfer, Tries
<1>12. ASSUME NEW t \in Thread, Updated(t) PROVE UpdateKept(u)'
    BY <1>12 DEF Updated, Set, Goto, Resolve, Return, Transfer, Tries
<1>13. ASSUME NEW t \in Thread, UpdateFails(t) PROVE UpdateKept(u)'
    BY <1>13 DEF UpdateFails, Set, Goto, Resolve, Return, Transfer, Tries
<1>14. ASSUME NEW t \in Thread, TransferFails(t) PROVE UpdateKept(u)'
    <2>1. /\ pc' = pc \/ pc' = [pc EXCEPT ![t] = "read"]
          /\ pc[t] = "transfer" /\ UNCHANGED <<updated, current>>
        BY <1>14 DEF TransferFails, Set, Goto, Tries
    <2> QED  BY <2>1
<1>15. ASSUME NEW t \in Thread, Read(t) PROVE UpdateKept(u)'
    BY <1>15 DEF Read, Set, Goto, Resolve, Return, Transfer, Tries
<1>16. ASSUME NEW t \in Thread, ReadFails(t) PROVE UpdateKept(u)'
    BY <1>16 DEF ReadFails, Set, Goto, Resolve, Return, Transfer, Tries
<1>17. ASSUME NEW t \in Thread, VersionTold(t) PROVE UpdateKept(u)'
    BY <1>17 DEF VersionTold, Set, Goto, Resolve, Return, Transfer, Tries
<1>18. ASSUME NEW t \in Thread, LookUp(t) PROVE UpdateKept(u)'
    BY <1>18 DEF LookUp, Set, Goto, Resolve, Return, Transfer, Tries
<1>19. ASSUME NEW t \in Thread, TakeSize(t) PROVE UpdateKept(u)'
    BY <1>19 DEF TakeSize, Set, Goto, Resolve, Return, Transfer, Tries
<1>20. ASSUME NEW t \in Thread, Raises(t) PROVE UpdateKept(u)'
    BY <1>20 DEF Raises, Set, Goto, Resolve, Return, Transfer, Tries
<1> QED
    BY <1>1, <1>2, <1>3, <1>4, <1>5, <1>6, <1>7, <1>8, <1>9, <1>10, <1>11, <1>12, <1>13,
       <1>14, <1>15, <1>16, <1>17, <1>18, <1>19, <1>20 DEF Next, Step, Finished

-----------------------------------------------------------------------------
LEMMA IInvInit == Init => IInv
<1> SUFFICES ASSUME Init PROVE IInv
    OBVIOUS
<1>1. TypeOK  BY TypeInit
<1>2. PlacesOK /\ \A t \in Thread : UpdateKept(t)
    BY DEF Init, PlacesOK, PlaceOK, UpdateKept
<1>3. CacheOK  BY DEF Init, CacheOK, CacheAgrees
<1> QED  BY <1>1, <1>2, <1>3 DEF IInv

LEMMA IInvNext == IInv /\ [Next]_vars => IInv'
<1> SUFFICES ASSUME IInv, [Next]_vars PROVE IInv'
    OBVIOUS
<1>1. TypeOK' /\ PlacesOK' /\ CacheOK'
    BY TypeNext, PlacesNext, CacheNext DEF IInv
<1>2. \A u \in Thread : UpdateKept(u)'  BY UpdateNext
<1> QED  BY <1>1, <1>2 DEF IInv

LEMMA IInvAlways == Spec => []IInv
BY IInvInit, IInvNext, PTL DEF Spec

\* The variables keep their types; in particular only versions, and sizes of
\* versions, are ever cached.
THEOREM TypeCorrect == Spec => []TypeOK
<1>1. IInv => TypeOK  BY DEF IInv
<1> QED  BY <1>1, IInvAlways, PTL

\* read_pm_table_full reads a table only when it knows its version, except
\* in the second round of a call that a close() came into, and after an update
\* that succeeded one that was transferred during the call, however many
\* readers there are and whenever close() comes.
THEOREM ReadsAreSound == Spec => []ReadIsSound
<1>1. IInv => ReadIsSound
    BY DEF IInv, ReadIsSound, PlacesOK, PlaceOK, UpdateKept
<1> QED  BY <1>1, IInvAlways, PTL

\* Unless the last close() came during a call, _cached_pm_size is never the
\* size of another version than _cached_pm_ver.
THEOREM CachesAgree == Spec => []CacheAgrees
<1>1. IInv => CacheAgrees  BY DEF IInv, CacheOK
<1> QED  BY <1>1, IInvAlways, PTL

=============================================================================

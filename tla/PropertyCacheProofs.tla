------------------------ MODULE PropertyCacheProofs ------------------------
(***************************************************************************)
(* Proofs about PropertyCache, for any number of goroutines, copies and    *)
(* changes: the mutex keeps the writes of a map apart, what a call shows   *)
(* is not older than what was set before it, no map goes back, and an      *)
(* error is the call's own unless a call without the mutex came between.   *)
(*                                                                         *)
(* The argument: between Lock and Unlock nobody else changes the handle,   *)
(* so that what was read from it is still its value when it is written to  *)
(* a map, and the handle never goes back; every map has a value that the   *)
(* handle once had.                                                        *)
(***************************************************************************)
EXTENDS PropertyCache, SequenceTheorems, TLAPS

USE ProcsAssumption, CopiesAssumption, BoundsAssumption DEF Begun

(* The places a goroutine reaches only with the mutex.                     *)
Inside == {"read", "write", "writing", "unlock"}

Exclusive(p) ==
  /\ pc[p] \in Inside \cup {"lock"} => op[p] \in Locked
  /\ pc[p] = "read" => op[p] \in Getters \cup {"set"}
  /\ pc[p] = "read" /\ op[p] = "set" => wasSet[p]
  /\ pc[p] \in Holding /\ op[p] \in Locked => mtx = p

(* How old a value may be: settled and the maps are behind the handle, a   *)
(* call's floor too, but for a reload, which has yet to refresh it.        *)
Behind == settled <= handle /\ \A m \in DOMAIN maps : maps[m] <= handle

Floors(p) ==
  /\ floor[p] <= kernel
  /\ op[p] # "reload" => floor[p] <= handle

(* What was read is still the handle's.                                    *)
Fresh(p) ==
  /\ pc[p] \in {"write", "writing"} => got[p] = handle /\ floor[p] <= got[p]
  /\ (pc[p] = "unlock" /\ err[p] = Nil /\ op[p] = "getUser") => floor[p] <= got[p]

Owned(p) ==
  /\ pc[p] # "unlock" => err[p] = Nil
  /\ op[p] \in Setters \cup {"mount"} /\ ~(op[p] = "set" /\ wasSet[p]) =>
       /\ pc[p] = "error" => lasterr = p \/ mixed[p]
       /\ pc[p] = "unlock" /\ err[p] # Nil => err[p] = p \/ mixed[p]

IInv ==
  /\ TypeOK
  /\ \A p \in Procs : Exclusive(p)
  /\ Behind
  /\ \A p \in Procs : Floors(p)
  /\ \A p \in Procs : Fresh(p)
  /\ \A p \in Procs : Owned(p)

-----------------------------------------------------------------------------
LEMMA AnyCopyType == AnyCopy \in Copies
  BY DEF AnyCopy

LEMMA InitIInv == Init => IInv
<1> SUFFICES ASSUME Init PROVE IInv
  OBVIOUS
<1>1. TypeOK
  BY AnyCopyType DEF Init, TypeOK, Versions, Labels, Locked, Unlocked, Getters, Setters
<1>2. Behind
  BY DEF Init, Behind
<1>3. ASSUME NEW p \in Procs PROVE Exclusive(p) /\ Floors(p) /\ Fresh(p) /\ Owned(p)
  BY DEF Init, Exclusive, Floors, Fresh, Owned, Inside, Holding, Locked, Getters, Setters
<1> QED
  BY <1>1, <1>2, <1>3 DEF IInv

(* At most one goroutine is inside.                                        *)
LEMMA OneInside ==
  ASSUME IInv, NEW p \in Procs, NEW q \in Procs,
         pc[p] \in Holding, op[p] \in Locked, pc[q] \in Holding, op[q] \in Locked
  PROVE  p = q
  BY DEF IInv, Exclusive

-----------------------------------------------------------------------------
(* The variables stay in range: those of the process, then those of the    *)
(* goroutines.                                                             *)
SharedTypes ==
  /\ kernel \in 0..MaxVersion /\ handle \in 0..kernel /\ settled \in 0..kernel
  /\ maps \in Seq(0..MaxVersion)
  /\ props \in [Copies -> DOMAIN maps]
  /\ mtx \in Procs \cup {Nil} /\ lasterr \in Procs \cup {Nobody}
  /\ calls \in 0..MaxCalls

Ops == Locked \cup Unlocked

LocalTypes ==
  /\ pc \in [Procs -> Labels] /\ op \in [Procs -> Ops]
  /\ on \in [Procs -> Copies]
  /\ got \in [Procs -> 0..MaxVersion] /\ floor \in [Procs -> 0..MaxVersion]
  /\ err \in [Procs -> Procs \cup {Nil, Nobody}]
  /\ mixed \in [Procs -> BOOLEAN] /\ wasSet \in [Procs -> BOOLEAN]

LEMMA Types == TypeOK <=> SharedTypes /\ LocalTypes
  BY DEF TypeOK, SharedTypes, LocalTypes, Versions, Ops

LEMMA OpNames == {"get", "reload"} \subseteq Ops
  BY DEF Ops, Locked, Getters

LEMMA LabelNames ==
  /\ {"idle", "lock", "call", "read", "write"} \subseteq Labels
  /\ {"writing", "error", "unlock"} \subseteq Labels
  BY DEF Labels

(* A call that returns leaves its variables in range.                      *)
LEMMA ReturnTypes ==
  ASSUME LocalTypes, NEW p \in Procs, Return(p)
  PROVE  LocalTypes'
  BY OpNames, LabelNames, AnyCopyType DEF LocalTypes, Return, Goto

LEMMA SharedTypesStep == IInv /\ [Next]_vars => SharedTypes'
<1> SUFFICES ASSUME IInv, [Next]_vars PROVE SharedTypes'
  OBVIOUS
<1>0. SharedTypes /\ LocalTypes /\ \A p \in Procs : Floors(p)
  BY Types DEF IInv
<1>1. CASE UNCHANGED <<shared, calls, settled>>
  BY <1>0, <1>1 DEF SharedTypes, shared
<1>2. CASE KernelChanges
  BY <1>0, <1>2 DEF KernelChanges, SharedTypes
<1>3. ASSUME NEW p \in Procs, NEW o \in Ops, NEW c \in Copies, Call(p, o, c)
      PROVE  SharedTypes'
  BY <1>0, <1>3 DEF Call, SharedTypes, shared
<1>4. ASSUME NEW p \in Procs, Lock(p) PROVE SharedTypes'
  BY <1>0, <1>4 DEF Lock, SharedTypes
<1>5. ASSUME NEW p \in Procs, CallFails(p) PROVE SharedTypes'
  BY <1>0, <1>5 DEF CallFails, SharedTypes
<1>6. ASSUME NEW p \in Procs, Reload(p) PROVE SharedTypes'
  <2>1. maps' \in Seq(0..MaxVersion) /\ DOMAIN maps \subseteq DOMAIN maps' /\ Len(maps') \in DOMAIN maps'
    BY <1>0, <1>6 DEF Reload, SharedTypes
  <2>2. on[p] \in Copies /\ props' = [props EXCEPT ![on[p]] = Len(maps')]
    BY <1>0, <1>6 DEF Reload, LocalTypes
  <2>3. props \in [Copies -> DOMAIN maps']
    BY <1>0, <2>1 DEF SharedTypes
  <2>4. props' \in [Copies -> DOMAIN maps']
    BY <2>1, <2>2, <2>3
  <2> QED
    BY <1>0, <1>6, <2>1, <2>4 DEF Reload, SharedTypes
<1>7. ASSUME NEW p \in Procs, Set(p) PROVE SharedTypes'
  BY <1>0, <1>7 DEF Set, SharedTypes
<1>8. ASSUME NEW p \in Procs, EndWrite(p) PROVE SharedTypes'
  <2>0. props[on[p]] \in DOMAIN maps /\ got[p] \in 0..MaxVersion /\ maps \in Seq(0..MaxVersion)
    BY <1>0 DEF SharedTypes, LocalTypes
  <2>1. props[on[p]] \in 1..Len(maps)
    BY <2>0
  <2>2. maps' \in Seq(0..MaxVersion) /\ DOMAIN maps' = DOMAIN maps
    BY <1>8, <2>0, <2>1, ExceptSeq DEF EndWrite
  <2> QED
    BY <1>0, <1>8, <2>2 DEF EndWrite, SharedTypes
<1>9. ASSUME NEW p \in Procs, ClearLastError(p) PROVE SharedTypes'
  BY <1>0, <1>9 DEF ClearLastError, SharedTypes
<1>10. ASSUME NEW p \in Procs, Unlock(p) PROVE SharedTypes'
  <2>1. settled' \in 0..kernel
    BY <1>0, <1>10 DEF Unlock, SettledBy, SharedTypes, LocalTypes, Floors
  <2> QED
    BY <1>0, <1>10, <2>1 DEF Unlock, SharedTypes
<1>11. ASSUME NEW p \in Procs, NoHandle(p) \/ StartGet(p) \/ Read(p) \/ BeginWrite(p)
                                \/ ThenReload(p) \/ UnmountDone(p) \/ MountDone(p) \/ ReadError(p)
       PROVE  SharedTypes'
  BY <1>1, <1>11 DEF NoHandle, StartGet, Read, BeginWrite, ThenReload, UnmountDone, MountDone,
     ReadError
<1>12. CASE UNCHANGED vars
  BY <1>1, <1>12 DEF vars
<1> QED
  BY <1>2, <1>3, <1>4, <1>5, <1>6, <1>7, <1>8, <1>9, <1>10, <1>11, <1>12 DEF Next, Step, Ops

LEMMA LocalTypesStep == IInv /\ [Next]_vars => LocalTypes'
<1> SUFFICES ASSUME IInv, [Next]_vars PROVE LocalTypes'
  OBVIOUS
<1> USE LabelNames, OpNames
<1>0. SharedTypes /\ LocalTypes
  BY Types DEF IInv
<1>1. CASE UNCHANGED <<pc, local>>
  BY <1>0, <1>1 DEF LocalTypes, local
<1>2. ASSUME NEW p \in Procs, NEW o \in Ops, NEW c \in Copies, Call(p, o, c)
      PROVE  LocalTypes'
  BY <1>0, <1>2 DEF Call, LocalTypes, SharedTypes, Goto
<1>3. ASSUME NEW p \in Procs, Lock(p) \/ StartGet(p) \/ BeginWrite(p) \/ EndWrite(p) \/ MountDone(p)
      PROVE  LocalTypes'
  BY <1>0, <1>3 DEF Lock, StartGet, BeginWrite, EndWrite, MountDone, LocalTypes, local, Goto
<1>4. ASSUME NEW p \in Procs, CallFails(p) PROVE LocalTypes'
  <2>1. mixed' \in [Procs -> BOOLEAN]
    BY <1>4 DEF CallFails
  <2> QED
    BY <1>0, <1>4, <2>1 DEF CallFails, LocalTypes, Goto
<1>5. ASSUME NEW p \in Procs, Reload(p) PROVE LocalTypes'
  <2>1. pc' \in [Procs -> Labels]
    BY <1>0, <1>5 DEF Reload, LocalTypes, Goto
  <2>2. got' \in [Procs -> 0..MaxVersion]
    BY <1>0, <1>5 DEF Reload, LocalTypes, SharedTypes
  <2> QED
    BY <1>0, <1>5, <2>1, <2>2 DEF Reload, LocalTypes
<1>6. ASSUME NEW p \in Procs, Set(p) PROVE LocalTypes'
  <2>1. \E l \in Labels : Goto(p, l)
    BY <1>6 DEF Set
  <2>2. pc' \in [Procs -> Labels]
    BY <1>0, <2>1 DEF LocalTypes, Goto
  <2>3. floor' \in [Procs -> 0..MaxVersion]
    BY <1>0, <1>6 DEF Set, LocalTypes, SharedTypes
  <2> QED
    BY <1>0, <1>6, <2>2, <2>3 DEF Set, LocalTypes
<1>7. ASSUME NEW p \in Procs, Read(p) PROVE LocalTypes'
  <2>0. \E l \in Labels : Goto(p, l)
    BY <1>7 DEF Read
  <2>1. pc' \in [Procs -> Labels]
    BY <1>0, <2>0 DEF LocalTypes, Goto
  <2>2. got' \in [Procs -> 0..MaxVersion]
    <3>1. handle \in 0..MaxVersion /\ got \in [Procs -> 0..MaxVersion]
      BY <1>0, SMTT(30) DEF LocalTypes, SharedTypes
    <3>2. got' = [got EXCEPT ![p] = handle] \/ got' = got
      BY <1>7 DEF Read
    <3> QED
      BY <3>1, <3>2
  <2> QED
    BY <1>0, <1>7, <2>1, <2>2 DEF Read, LocalTypes
<1>8. ASSUME NEW p \in Procs, ThenReload(p) PROVE LocalTypes'
  BY <1>0, <1>8 DEF ThenReload, LocalTypes, SharedTypes, Goto
<1>9. ASSUME NEW p \in Procs, UnmountDone(p) \/ Unlock(p) PROVE LocalTypes'
  BY <1>0, <1>9, ReturnTypes DEF UnmountDone, Unlock
<1>10. ASSUME NEW p \in Procs, ReadError(p) PROVE LocalTypes'
  <2>1. CASE op[p] \in Unlocked /\ Return(p)
    BY <1>0, <2>1, ReturnTypes
  <2>2. CASE err' = [err EXCEPT ![p] = lasterr] /\ Goto(p, "unlock") /\ UNCHANGED <<op, on, got, floor, mixed, wasSet>>
    BY <1>0, <2>2 DEF LocalTypes, SharedTypes, Goto
  <2> QED
    BY <1>10, <2>1, <2>2 DEF ReadError
<1>14. ASSUME NEW p \in Procs, NoHandle(p) PROVE LocalTypes'
  <2>1. CASE op[p] \in Unlocked /\ Return(p)
    BY <1>0, <2>1, ReturnTypes
  <2>2. CASE err' = [err EXCEPT ![p] = p] /\ Goto(p, "unlock") /\ UNCHANGED <<op, on, got, floor, mixed, wasSet>>
    BY <1>0, <2>2 DEF LocalTypes, Goto
  <2> QED
    BY <1>14, <2>1, <2>2 DEF NoHandle
<1>11. ASSUME NEW p \in Procs, ClearLastError(p) PROVE LocalTypes'
  <2>1. mixed' \in [Procs -> BOOLEAN]
    BY <1>11 DEF ClearLastError
  <2> QED
    BY <1>0, <1>11, <2>1, AnyCopyType DEF ClearLastError, LocalTypes, Goto
<1>12. CASE KernelChanges
  BY <1>1, <1>12 DEF KernelChanges
<1>13. CASE UNCHANGED vars
  BY <1>1, <1>13 DEF vars
<1> QED
  BY <1>2, <1>3, <1>4, <1>5, <1>6, <1>7, <1>8, <1>9, <1>10, <1>11, <1>12, <1>13, <1>14
     DEF Next, Step, Ops

LEMMA TypeStep == IInv /\ [Next]_vars => TypeOK'
<1>1. TypeOK' <=> SharedTypes' /\ LocalTypes'
  BY Types, PTL
<1> QED
  BY <1>1, SharedTypesStep, LocalTypesStep

-----------------------------------------------------------------------------
(* The mutex.                                                              *)
LEMMA ExclusiveStep ==
  ASSUME IInv, [Next]_vars
  PROVE  \A q \in Procs : Exclusive(q)'
<1> USE DEF Inside, Holding, Locked, Getters, Setters, Unlocked
<1> SUFFICES ASSUME NEW q \in Procs PROVE Exclusive(q)'
  OBVIOUS
<1>0. LocalTypes /\ Exclusive(q)
  BY Types DEF IInv
<1>1. CASE UNCHANGED <<pc, op, mtx, wasSet>>
  BY <1>0, <1>1 DEF Exclusive
<1>2. ASSUME NEW p \in Procs, NEW o \in Ops, NEW c \in Copies, Call(p, o, c)
      PROVE  Exclusive(q)'
  BY <1>0, <1>2 DEF Call, Exclusive, LocalTypes, shared, Goto, At
<1>3. ASSUME NEW p \in Procs, Lock(p) PROVE Exclusive(q)'
  <2>1. CASE p = q
    BY <1>0, <1>3, <2>1 DEF Lock, Exclusive, LocalTypes, local, Goto, At
  <2>2. CASE p # q
    BY <1>0, <1>3, <2>2 DEF Lock, Exclusive, LocalTypes, local, Goto, At
  <2> QED
    BY <2>1, <2>2
<1>4. ASSUME NEW p \in Procs, CallFails(p) PROVE Exclusive(q)'
  BY <1>0, <1>4 DEF CallFails, Exclusive, LocalTypes, Goto, At
<1>5. ASSUME NEW p \in Procs, Reload(p) PROVE Exclusive(q)'
  BY <1>0, <1>5 DEF Reload, Exclusive, LocalTypes, Goto, At
<1>6. ASSUME NEW p \in Procs, Set(p) PROVE Exclusive(q)'
  BY <1>0, <1>6 DEF Set, Exclusive, LocalTypes, Goto, At
<1>7. ASSUME NEW p \in Procs, Read(p) PROVE Exclusive(q)'
  BY <1>0, <1>7 DEF Read, Exclusive, LocalTypes, shared, Goto, At
<1>8. ASSUME NEW p \in Procs, StartGet(p) \/ BeginWrite(p) \/ MountDone(p) PROVE Exclusive(q)'
  BY <1>0, <1>8 DEF StartGet, BeginWrite, MountDone, Exclusive, LocalTypes, shared, local, Goto, At
<1>9. ASSUME NEW p \in Procs, EndWrite(p) PROVE Exclusive(q)'
  BY <1>0, <1>9 DEF EndWrite, Exclusive, LocalTypes, local, Goto, At
<1>10. ASSUME NEW p \in Procs, ThenReload(p) PROVE Exclusive(q)'
  BY <1>0, <1>10 DEF ThenReload, Exclusive, LocalTypes, shared, Goto, At
<1>11. ASSUME NEW p \in Procs, UnmountDone(p) PROVE Exclusive(q)'
  BY <1>0, <1>11 DEF UnmountDone, Return, Exclusive, LocalTypes, shared, Goto, At
<1>12. ASSUME NEW p \in Procs, ReadError(p) PROVE Exclusive(q)'
  BY <1>0, <1>12 DEF ReadError, Return, Exclusive, LocalTypes, shared, Goto, At
<1>13. ASSUME NEW p \in Procs, ClearLastError(p) PROVE Exclusive(q)'
  BY <1>0, <1>13 DEF ClearLastError, Exclusive, LocalTypes, Goto, At
<1>14. ASSUME NEW p \in Procs, Unlock(p) PROVE Exclusive(q)'
  <2>1. CASE p = q
    BY <1>0, <1>14, <2>1 DEF Unlock, Return, Exclusive, LocalTypes, Goto, At
  <2>2. CASE p # q
    <3>1. Exclusive(p)
      BY DEF IInv
    <3>2. ~(pc[q] \in Holding /\ op[q] \in Locked)
      BY <1>0, <1>14, <2>2, <3>1 DEF Unlock, Exclusive, LocalTypes, At
    <3> QED
      BY <1>0, <1>14, <2>2, <3>2 DEF Unlock, Return, Exclusive, LocalTypes, Goto, At
  <2> QED
    BY <2>1, <2>2
<1>15. CASE KernelChanges \/ UNCHANGED vars
  BY <1>1, <1>15 DEF KernelChanges, vars, shared, local
<1>16. ASSUME NEW p \in Procs, NoHandle(p) PROVE Exclusive(q)'
  BY <1>0, <1>16 DEF NoHandle, Return, Exclusive, LocalTypes, shared, Goto, At
<1> QED
  BY <1>2, <1>3, <1>4, <1>5, <1>6, <1>7, <1>8, <1>9, <1>10, <1>11, <1>12, <1>13, <1>14, <1>15, <1>16
     DEF Next, Step, Ops

-----------------------------------------------------------------------------
(* The handle never goes back, and changes only by one that is inside.     *)
LEMMA HandleStep ==
  ASSUME IInv, [Next]_vars
  PROVE  /\ handle' \in Nat /\ handle <= handle' /\ kernel <= kernel'
         /\ handle' = handle \/ \E p \in Procs : (Reload(p) \/ Set(p)) /\ mtx = p
<1>0. SharedTypes /\ \A p \in Procs : Exclusive(p)
  BY Types DEF IInv
<1>1. handle \in Nat /\ kernel \in Nat /\ handle <= kernel
  BY <1>0 DEF SharedTypes
<1>2. CASE UNCHANGED <<kernel, handle>>
  BY <1>1, <1>2
<1>3. ASSUME NEW p \in Procs, Reload(p) \/ Set(p)
      PROVE  handle' \in Nat /\ handle <= handle' /\ kernel <= kernel' /\ mtx = p
  BY <1>0, <1>1, <1>3 DEF Reload, Set, Exclusive, At, Holding, Locked, Getters, Setters
<1>4. CASE KernelChanges
  BY <1>1, <1>4 DEF KernelChanges
<1>5. ASSUME NEW p \in Procs, Step(p) \/ Lock(p), ~Reload(p), ~Set(p)
      PROVE  UNCHANGED <<kernel, handle>>
  BY <1>5 DEF Step, Lock, CallFails, StartGet, Read, BeginWrite, EndWrite, ThenReload,
     NoHandle, UnmountDone, MountDone, ReadError, ClearLastError, Unlock, shared
<1>6. ASSUME NEW p \in Procs, NEW o \in Ops, NEW c \in Copies, Call(p, o, c)
      PROVE  UNCHANGED <<kernel, handle>>
  BY <1>6 DEF Call, shared
<1>7. CASE UNCHANGED vars
  BY <1>2, <1>7 DEF vars, shared
<1> QED
  BY <1>2, <1>3, <1>4, <1>5, <1>6, <1>7 DEF Next, Ops

(* The value written to a map is the handle's.                             *)
LEMMA MapsStep ==
  ASSUME IInv, [Next]_vars
  PROVE  \/ maps' = maps
         \/ maps' = Append(maps, 0)
         \/ \E m \in DOMAIN maps : maps' = [maps EXCEPT ![m] = handle] /\ handle' = handle
<1>0. SharedTypes /\ LocalTypes /\ \A p \in Procs : Fresh(p)
  BY Types DEF IInv
<1>1. ASSUME NEW p \in Procs, EndWrite(p)
      PROVE  \E m \in DOMAIN maps : maps' = [maps EXCEPT ![m] = handle] /\ handle' = handle
  <2>1. props[on[p]] \in DOMAIN maps
    BY <1>0 DEF SharedTypes, LocalTypes
  <2>2. got[p] = handle
    BY <1>0, <1>1 DEF Fresh, EndWrite, At
  <2> QED
    BY <1>1, <2>1, <2>2 DEF EndWrite
<1>2. ASSUME NEW p \in Procs, Reload(p) PROVE maps' = Append(maps, 0)
  BY <1>2 DEF Reload
<1>3. ASSUME NEW p \in Procs, Step(p) \/ Lock(p), ~Reload(p), ~EndWrite(p)
      PROVE  maps' = maps
  BY <1>3 DEF Step, Lock, Set, CallFails, StartGet, Read, BeginWrite, ThenReload,
     NoHandle, UnmountDone, MountDone, ReadError, ClearLastError, Unlock, shared
<1>4. ASSUME NEW p \in Procs, NEW o \in Ops, NEW c \in Copies, Call(p, o, c)
      PROVE  maps' = maps
  BY <1>4 DEF Call, shared
<1>5. CASE KernelChanges \/ UNCHANGED vars
  BY <1>5 DEF KernelChanges, vars, shared
<1> QED
  BY <1>1, <1>2, <1>3, <1>4, <1>5 DEF Next, Ops

(* A setter that has finished had its version in the handle.               *)
LEMMA SettledStep ==
  ASSUME IInv, [Next]_vars
  PROVE  settled' = settled \/ \E p \in Procs : settled' = floor[p] /\ floor[p] <= handle
<1>1. ASSUME NEW p \in Procs, Unlock(p)
      PROVE  settled' = settled \/ (settled' = floor[p] /\ floor[p] <= handle)
  BY <1>1 DEF IInv, Unlock, SettledBy, Floors, Setters
<1>2. ASSUME NEW p \in Procs, Step(p) \/ Lock(p), ~Unlock(p) PROVE settled' = settled
  BY <1>2 DEF Step, Lock, Set, CallFails, StartGet, Read, BeginWrite, ThenReload, Reload,
     EndWrite, NoHandle, UnmountDone, MountDone, ReadError, ClearLastError, shared
<1>3. ASSUME NEW p \in Procs, NEW o \in Ops, NEW c \in Copies, Call(p, o, c)
      PROVE  settled' = settled
  BY <1>3 DEF Call, shared
<1>4. CASE KernelChanges \/ UNCHANGED vars
  BY <1>4 DEF KernelChanges, vars
<1> QED
  BY <1>1, <1>2, <1>3, <1>4 DEF Next, Ops

LEMMA BehindStep ==
  ASSUME IInv, [Next]_vars
  PROVE  Behind'
<1>0. SharedTypes /\ Behind
  BY Types DEF IInv
<1>1. /\ handle \in Nat /\ handle' \in Nat /\ handle <= handle'
      /\ settled \in Nat /\ maps \in Seq(Nat)
  BY <1>0, HandleStep DEF SharedTypes
<1>2. settled' <= handle'
  <2>1. CASE settled' = settled
    BY <1>0, <1>1, <2>1 DEF Behind
  <2>2. ASSUME NEW p \in Procs, settled' = floor[p], floor[p] <= handle PROVE settled' <= handle'
    <3>1. floor[p] \in Nat
      BY Types DEF IInv, LocalTypes
    <3> QED
      BY <1>1, <2>2, <3>1
  <2> QED
    BY <2>1, <2>2, SettledStep
<1>3. ASSUME NEW m \in DOMAIN maps' PROVE maps'[m] <= handle'
  <2>1. CASE maps' = maps
    BY <1>0, <1>1, <1>3, <2>1 DEF Behind
  <2>2. CASE maps' = Append(maps, 0)
    BY <1>0, <1>1, <1>3, <2>2 DEF Behind
  <2>3. ASSUME NEW k \in DOMAIN maps, maps' = [maps EXCEPT ![k] = handle], handle' = handle
        PROVE  maps'[m] <= handle'
    BY <1>0, <1>1, <1>3, <2>3 DEF Behind
  <2> QED
    BY <2>1, <2>2, <2>3, MapsStep
<1> QED
  BY <1>2, <1>3 DEF Behind

(* What a call returns with, or begins with.                               *)
LEMMA FloorsStep ==
  ASSUME IInv, [Next]_vars
  PROVE  \A q \in Procs : Floors(q)'
<1> SUFFICES ASSUME NEW q \in Procs PROVE Floors(q)'
  OBVIOUS
<1>0. SharedTypes /\ LocalTypes /\ Floors(q) /\ Behind
  BY Types DEF IInv
<1>1. /\ handle \in Nat /\ handle' \in Nat /\ handle <= handle' /\ handle <= kernel
      /\ kernel \in Nat /\ kernel' \in Nat /\ kernel <= kernel'
      /\ settled \in Nat /\ settled <= handle /\ floor[q] \in Nat
  BY <1>0, HandleStep, SharedTypesStep DEF SharedTypes, LocalTypes, Behind
<1>2. CASE floor'[q] = floor[q] /\ op'[q] = op[q]
  BY <1>0, <1>1, <1>2 DEF Floors
<1>3. CASE floor'[q] = 0
  BY <1>1, <1>3 DEF Floors
<1>4. ASSUME NEW o \in Ops, NEW c \in Copies, Call(q, o, c) PROVE Floors(q)'
  BY <1>0, <1>1, <1>4 DEF Call, Floors, LocalTypes, shared
<1>5. CASE Set(q)
  BY <1>0, <1>1, <1>5 DEF Set, Floors, LocalTypes
<1>6. CASE ThenReload(q)
  BY <1>0, <1>1, <1>6 DEF ThenReload, Floors, LocalTypes, shared
<1>7. CASE UnmountDone(q) \/ Unlock(q) \/ ClearLastError(q)
  BY <1>0, <1>3, <1>7 DEF UnmountDone, Unlock, ClearLastError, Return, LocalTypes
<1>8. CASE ReadError(q) \/ NoHandle(q)
  BY <1>0, <1>2, <1>3, <1>8 DEF ReadError, NoHandle, Return, LocalTypes
<1>9. CASE Lock(q) \/ CallFails(q) \/ Reload(q) \/ StartGet(q) \/ Read(q) \/ BeginWrite(q)
           \/ EndWrite(q) \/ MountDone(q)
  BY <1>2, <1>9 DEF Lock, CallFails, Reload, StartGet, Read, BeginWrite, EndWrite, MountDone, local
<1>10. ASSUME NEW p \in Procs, p # q, Step(p) \/ Lock(p)
       PROVE  floor'[q] = floor[q] /\ op'[q] = op[q]
  BY <1>0, <1>10 DEF Step, Lock, Set, CallFails, StartGet, Read, BeginWrite, ThenReload, Reload,
     EndWrite, NoHandle, UnmountDone, MountDone, ReadError, ClearLastError, Unlock, Return, LocalTypes, local
<1>11. ASSUME NEW p \in Procs, p # q, NEW o \in Ops, NEW c \in Copies, Call(p, o, c)
       PROVE  floor'[q] = floor[q] /\ op'[q] = op[q]
  BY <1>0, <1>11 DEF Call, LocalTypes
<1>12. CASE KernelChanges \/ UNCHANGED vars
  BY <1>2, <1>12 DEF KernelChanges, vars, local
<1> QED
  BY <1>2, <1>4, <1>5, <1>6, <1>7, <1>8, <1>9, <1>10, <1>11, <1>12 DEF Next, Step, Ops

LEMMA FreshStep ==
  ASSUME IInv, [Next]_vars
  PROVE  \A q \in Procs : Fresh(q)'
<1> SUFFICES ASSUME NEW q \in Procs PROVE Fresh(q)'
  OBVIOUS
<1>0. SharedTypes /\ LocalTypes /\ Floors(q) /\ Fresh(q) /\ Exclusive(q)
  BY Types DEF IInv
<1>1. /\ handle \in Nat /\ kernel \in Nat /\ handle <= kernel
      /\ floor[q] \in Nat /\ got[q] \in Nat
  BY <1>0 DEF SharedTypes, LocalTypes
<1>2. CASE pc'[q] \notin {"write", "writing", "unlock"}
  BY <1>2 DEF Fresh
<1>3. CASE Reload(q)
  BY <1>0, <1>1, <1>3 DEF Reload, Fresh, Floors, LocalTypes, Goto, At
<1>4. CASE Read(q)
  <2>1. op[q] # "reload"
    BY <1>0, <1>4 DEF Read, Exclusive, At, Getters
  <2>2. CASE pc' = [pc EXCEPT ![q] = "error"]
    BY <1>0, <1>2, <2>2 DEF LocalTypes
  <2>3. CASE got' = [got EXCEPT ![q] = handle]
    <3>1. got'[q] = handle /\ handle' = handle /\ floor'[q] = floor[q] /\ floor[q] <= handle
      BY <1>0, <1>4, <2>1, <2>3 DEF Read, shared, LocalTypes, Floors
    <3> QED
      BY <1>1, <3>1 DEF Fresh
  <2> QED
    BY <1>4, <2>2, <2>3 DEF Read, Goto
<1>5. CASE BeginWrite(q)
  BY <1>0, <1>5 DEF BeginWrite, Fresh, LocalTypes, shared, local, Goto, At
<1>6. CASE EndWrite(q)
  BY <1>0, <1>6 DEF EndWrite, Fresh, LocalTypes, local, Goto, At
<1>7. CASE Set(q) \/ MountDone(q)
  BY <1>0, <1>7 DEF Set, MountDone, Fresh, LocalTypes, shared, local, Goto, At, Setters
<1>8. CASE ReadError(q)
  <2>1. lasterr # Nil
    BY <1>0 DEF SharedTypes
  <2> QED
    BY <1>0, <1>8, <2>1 DEF ReadError, Return, Fresh, LocalTypes, Goto
<1>15. CASE NoHandle(q)
  BY <1>0, <1>15 DEF NoHandle, Return, Fresh, LocalTypes, Goto
<1>9. CASE Lock(q) \/ CallFails(q) \/ StartGet(q) \/ ThenReload(q)
           \/ UnmountDone(q) \/ ClearLastError(q) \/ Unlock(q)
  BY <1>0, <1>2, <1>9 DEF Lock, CallFails, StartGet, ThenReload, UnmountDone, ClearLastError,
     Unlock, Return, LocalTypes, Goto
<1>10. ASSUME NEW o \in Ops, NEW c \in Copies, Call(q, o, c) PROVE Fresh(q)'
  BY <1>0, <1>2, <1>10 DEF Call, LocalTypes, Goto
<1>11. CASE UNCHANGED <<pc[q], op[q], got[q], floor[q], err[q]>>
  <2>1. CASE handle' = handle
    BY <1>0, <1>11, <2>1 DEF Fresh
  <2>2. ASSUME NEW p \in Procs, Reload(p) \/ Set(p), mtx = p PROVE Fresh(q)'
    <3>1. p # q => pc[q] \notin {"write", "writing"}
      BY <1>0, <2>2 DEF Exclusive, Inside, Holding
    <3>2. p = q => pc[q] \notin {"write", "writing"}
      BY <2>2 DEF Reload, Set, At
    <3> QED
      BY <1>0, <1>11, <3>1, <3>2 DEF Fresh
  <2> QED
    BY <2>1, <2>2, HandleStep
<1>12. ASSUME NEW p \in Procs, p # q, Step(p) \/ Lock(p)
       PROVE  UNCHANGED <<pc[q], op[q], got[q], floor[q], err[q]>>
  BY <1>0, <1>12 DEF Step, Lock, Set, CallFails, StartGet, Read, BeginWrite, ThenReload, Reload,
     EndWrite, NoHandle, UnmountDone, MountDone, ReadError, ClearLastError, Unlock, Return, LocalTypes, local, Goto
<1>13. ASSUME NEW p \in Procs, p # q, NEW o \in Ops, NEW c \in Copies, Call(p, o, c)
       PROVE  UNCHANGED <<pc[q], op[q], got[q], floor[q], err[q]>>
  BY <1>0, <1>13 DEF Call, LocalTypes, Goto
<1>14. CASE KernelChanges \/ UNCHANGED vars
  BY <1>11, <1>14 DEF KernelChanges, vars, local
<1> QED
  BY <1>3, <1>4, <1>5, <1>6, <1>7, <1>8, <1>9, <1>10, <1>11, <1>12, <1>13, <1>14, <1>15
     DEF Next, Step, Ops

LEMMA OwnedStep ==
  ASSUME IInv, [Next]_vars
  PROVE  \A q \in Procs : Owned(q)'
<1> SUFFICES ASSUME NEW q \in Procs PROVE Owned(q)'
  OBVIOUS
<1>0. SharedTypes /\ LocalTypes /\ Owned(q)
  BY Types DEF IInv
<1>1. CASE pc'[q] \notin {"error", "unlock"} /\ err'[q] = Nil
  BY <1>1 DEF Owned
<1>2. CASE CallFails(q)
  BY <1>0, <1>2 DEF CallFails, Owned, LocalTypes, Goto, At
<1>3. CASE Reload(q) \/ Set(q) \/ EndWrite(q) \/ MountDone(q)
  BY <1>0, <1>3 DEF Reload, Set, EndWrite, MountDone, Owned, LocalTypes, local, shared, Goto, At
<1>4. CASE Read(q)
  <2>1. op[q] \in Setters \cup {"mount"} => op[q] = "set" /\ wasSet[q]
    BY <1>4 DEF IInv, Exclusive, Getters, Setters, Read, At
  <2>2. op' = op /\ wasSet' = wasSet /\ err' = err /\ err[q] = Nil
    BY <1>0, <1>4 DEF Read, Owned, At
  <2> QED
    BY <2>1, <2>2 DEF Owned
<1>5. CASE ReadError(q)
  <2>1. CASE Return(q)
    BY <1>0, <1>1, <2>1 DEF Return, LocalTypes, Goto
  <2>2. CASE err' = [err EXCEPT ![q] = lasterr] /\ Goto(q, "unlock") /\ UNCHANGED <<op, mixed, wasSet>>
    BY <1>0, <1>5, <2>2 DEF ReadError, Owned, LocalTypes, Goto, At
  <2> QED
    BY <1>5, <2>1, <2>2 DEF ReadError
<1>6. CASE Lock(q) \/ StartGet(q) \/ BeginWrite(q) \/ ThenReload(q)
  BY <1>0, <1>1, <1>6 DEF Lock, StartGet, BeginWrite, ThenReload, LocalTypes, local, Owned, Goto, At
<1>7. CASE UnmountDone(q) \/ Unlock(q)
  BY <1>0, <1>1, <1>7 DEF UnmountDone, Unlock, Return, LocalTypes, Goto
<1>8. CASE ClearLastError(q)
  BY <1>0, <1>1, <1>8 DEF ClearLastError, LocalTypes, Owned, Goto, At
<1>9. ASSUME NEW o \in Ops, NEW c \in Copies, Call(q, o, c) PROVE Owned(q)'
  BY <1>0, <1>1, <1>9 DEF Call, LocalTypes, Owned, Goto, At
<1>10. CASE UNCHANGED <<pc[q], op[q], err[q], mixed[q], wasSet[q], lasterr>>
  BY <1>0, <1>10 DEF Owned
<1>11. ASSUME NEW p \in Procs, p # q, CallFails(p) PROVE Owned(q)'
  <2>1. UNCHANGED <<pc[q], op[q], err[q], wasSet[q]>>
    BY <1>0, <1>11 DEF CallFails, LocalTypes, Goto
  <2>2. (pc[q] \in {"error", "unlock"} /\ op[q] \in Setters \cup {"mount"})
          => mixed'[q] = (mixed[q] \/ op[p] \in Unlocked)
    BY <1>0, <1>11 DEF CallFails, Telling, LocalTypes, At
  <2>3. (pc[q] = "error" /\ op[q] \in Setters \cup {"mount"}) => op[p] \in Unlocked
    <3>1. pc[p] \in Holding /\ op[p] \in Ops /\ Setters \cup {"mount"} \subseteq Locked
      BY <1>0, <1>11 DEF CallFails, LocalTypes, At, Holding, Locked, Setters
    <3>2. op[p] \in Locked => pc[q] # "error" \/ op[q] \notin Locked
      BY <1>11, <3>1, OneInside DEF Holding
    <3> QED
      BY <3>1, <3>2 DEF Ops
  <2> QED
    BY <1>0, <2>1, <2>2, <2>3 DEF Owned
<1>12. ASSUME NEW p \in Procs, p # q, ClearLastError(p) PROVE Owned(q)'
  <2>1. UNCHANGED <<pc[q], op[q], err[q], wasSet[q]>>
    BY <1>0, <1>12 DEF ClearLastError, LocalTypes, Goto
  <2>2. (pc[q] \in {"error", "unlock"} /\ op[q] \in Setters \cup {"mount"}) => mixed'[q]
    BY <1>0, <1>12 DEF ClearLastError, Telling, LocalTypes, At
  <2> QED
    BY <1>0, <2>1, <2>2 DEF Owned
<1>13. ASSUME NEW p \in Procs, p # q, Step(p) \/ Lock(p), ~CallFails(p), ~ClearLastError(p)
       PROVE  UNCHANGED <<pc[q], op[q], err[q], mixed[q], wasSet[q], lasterr>>
  BY <1>0, <1>13 DEF Step, Lock, Set, StartGet, Read, BeginWrite, ThenReload, Reload,
     EndWrite, NoHandle, UnmountDone, MountDone, ReadError, Unlock, Return, LocalTypes, local, shared, Goto
<1>14. ASSUME NEW p \in Procs, p # q, NEW o \in Ops, NEW c \in Copies, Call(p, o, c)
       PROVE  UNCHANGED <<pc[q], op[q], err[q], mixed[q], wasSet[q], lasterr>>
  BY <1>0, <1>14 DEF Call, LocalTypes, shared, Goto
<1>15. CASE KernelChanges \/ UNCHANGED vars
  BY <1>10, <1>15 DEF KernelChanges, vars, shared, local
<1>16. CASE NoHandle(q)
  <2>1. CASE Return(q)
    BY <1>0, <1>1, <2>1 DEF Return, LocalTypes, Goto
  <2>2. CASE err' = [err EXCEPT ![q] = q] /\ Goto(q, "unlock")
    BY <1>0, <2>2 DEF Owned, LocalTypes, Goto
  <2> QED
    BY <1>16, <2>1, <2>2 DEF NoHandle
<1> QED
  BY <1>2, <1>3, <1>4, <1>5, <1>6, <1>7, <1>8, <1>9, <1>10, <1>11, <1>12, <1>13, <1>14, <1>15, <1>16
     DEF Next, Step, Ops

-----------------------------------------------------------------------------
LEMMA Invariant == Spec => []IInv
<1>1. IInv /\ [Next]_vars => IInv'
  BY TypeStep, ExclusiveStep, BehindStep, FloorsStep, FreshStep, OwnedStep DEF IInv
<1> QED
  BY <1>1, InitIInv, PTL DEF Spec

(* The variables stay in range (TypeOK).                                   *)
THEOREM CacheTypeCorrect == Spec => []TypeOK
  BY Invariant, PTL DEF IInv

(* No two goroutines write one Go map at a time, whatever copies of the    *)
(* dataset they hold (Global.Mtx, zfs.go:323).                             *)
THEOREM MapsWrittenApart == Spec => []NoConcurrentMapWrites
<1>1. IInv => NoConcurrentMapWrites
  BY OneInside DEF IInv, NoConcurrentMapWrites, Exclusive, Inside, Holding, At
<1> QED
  BY <1>1, Invariant, PTL

(* A getter never shows a value older than what a setter that had finished *)
(* before had set, through whichever copy (SetProperty, zfs.go:388).       *)
THEOREM NothingStaleShown == Spec => []SetIsSeen
<1>1. IInv => SetIsSeen
  BY DEF IInv, SetIsSeen, Fresh, At
<1> QED
  BY <1>1, Invariant, PTL

(* The error of SetProperty, SetUserProperty or Mount is its own, unless a *)
(* call without the mutex failed or cleared the error meanwhile            *)
(* (common.go:291), or SetProperty did set the property and could not read *)
(* it back (zfs.go:404).                                                   *)
THEOREM ErrorsKeptApart == Spec => []OwnError
<1>1. IInv => OwnError
  BY DEF IInv, OwnError, Owned, At
<1> QED
  BY <1>1, Invariant, PTL

(* No map takes an older value than it has (zfs.go:345-361).               *)
THEOREM NoMapGoesBack == Spec => MapsNeverGoBack
<1>1. IInv /\ [Next]_vars => [\A m \in DOMAIN maps : maps'[m] >= maps[m]]_vars
  <2> SUFFICES ASSUME IInv, [Next]_vars, NEW m \in DOMAIN maps PROVE maps'[m] >= maps[m]
    OBVIOUS
  <2>1. maps \in Seq(Nat) /\ handle \in Nat /\ maps[m] <= handle /\ maps[m] \in Nat
    BY Types DEF IInv, SharedTypes, Behind
  <2>2. CASE maps' = maps
    BY <2>1, <2>2
  <2>3. CASE maps' = Append(maps, 0)
    BY <2>1, <2>3
  <2>4. ASSUME NEW k \in DOMAIN maps, maps' = [maps EXCEPT ![k] = handle]
        PROVE  maps'[m] >= maps[m]
    BY <2>1, <2>4
  <2> QED
    BY <2>2, <2>3, <2>4, MapsStep
<1> QED
  BY <1>1, Invariant, PTL DEF Spec, MapsNeverGoBack
=============================================================================

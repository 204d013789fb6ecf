--------------------------- MODULE PropertyCache ---------------------------
(***************************************************************************)
(* Properties of a dataset, as goroutines read and set them (zfs.go), with *)
(* the mutex Global.Mtx, and the calls that do without it.                 *)
(*                                                                         *)
(* One property stands for all.  Its value is a version: a number that     *)
(* every change in the kernel increases.  There are three copies of it:    *)
(* in the kernel, in the libzfs handle (that every copy of a Dataset       *)
(* shares), and in Go maps, which copies share until one of them reloads.  *)
(* A Go map must not be written by two goroutines at a time, so a write    *)
(* has a beginning and an end.  libzfs keeps one error for the process:    *)
(* lasterr is the goroutine whose call set it last.                        *)
(***************************************************************************)
EXTENDS Naturals, Sequences

CONSTANTS
  Procs,       \* goroutines
  Nil,         \* no goroutine: the mutex is free, the error is nil
  Nobody,      \* the error LastError makes when libzfs has none
  Copies,      \* variables that hold a copy of one Dataset
  Closed,      \* those of them that are closed: d.list is nil
  MaxVersion,  \* bound: changes of the property
  MaxCalls     \* bound: calls of all goroutines

ASSUME ProcsAssumption == Nil \notin Procs /\ Nobody \notin Procs /\ Nil # Nobody
ASSUME CopiesAssumption == Copies # {} /\ Closed \subseteq Copies
ASSUME BoundsAssumption == MaxVersion \in Nat \ {0} /\ MaxCalls \in Nat

VARIABLES
  kernel,   \* the version the kernel has
  handle,   \* the version the libzfs handle has
  maps,     \* the version each Go map has, 0 if none
  props,    \* the map of each copy: d.Properties
  mtx,      \* the goroutine that holds Global.Mtx
  lasterr,  \* the goroutine whose libzfs call failed last
  pc, op,   \* of each goroutine: where it is, in which call
  on,       \* the copy the call is on
  got,      \* the version it has read from the handle
  err,      \* the error it returns: the goroutine that caused it
  calls,
  floor,    \* history: the oldest version the call may show
  settled,  \* history: the newest version a finished call has set
  mixed,    \* history: a call without the mutex has touched lasterr since
  wasSet    \* history: zfs_prop_set has succeeded in this call

shared == <<kernel, handle, maps, props, mtx, lasterr>>
local == <<op, on, got, err, floor, mixed, wasSet>>
vars == <<shared, pc, local, calls, settled>>

Versions == 0..MaxVersion
Getters == {"get", "getUser"}
Setters == {"set", "setUser"}
Locked == {"reload", "mount"} \cup Getters \cup Setters
Unlocked == {"bare", "clearError"}  \* "bare": Rollback, Promote, Rename, Unmount
Labels == {"idle", "lock", "call", "read", "write", "writing", "error", "unlock"}

AnyCopy == CHOOSE c \in Copies : TRUE

Init ==
  /\ kernel = 1 /\ handle = 1
  /\ maps = <<1>> /\ props = [c \in Copies |-> 1]
  /\ mtx = Nil /\ lasterr = Nobody
  /\ pc = [p \in Procs |-> "idle"]
  /\ op = [p \in Procs |-> "get"]
  /\ on = [p \in Procs |-> AnyCopy]
  /\ got = [p \in Procs |-> 1]
  /\ err = [p \in Procs |-> Nil]
  /\ calls = 0
  /\ floor = [p \in Procs |-> 0]
  /\ settled = 0
  /\ mixed = [p \in Procs |-> FALSE]
  /\ wasSet = [p \in Procs |-> FALSE]

At(p, l) == pc[p] = l
Goto(p, l) == pc' = [pc EXCEPT ![p] = l]

(* The call gets past its check of d.list.                                 *)
Begun(p) == At(p, "call") /\ on[p] \notin Closed

(* The call returns; its local variables are gone.                         *)
Return(p) ==
  /\ Goto(p, "idle")
  /\ op' = [op EXCEPT ![p] = "get"] /\ on' = [on EXCEPT ![p] = AnyCopy]
  /\ got' = [got EXCEPT ![p] = 1] /\ err' = [err EXCEPT ![p] = Nil]
  /\ floor' = [floor EXCEPT ![p] = 0] /\ mixed' = [mixed EXCEPT ![p] = FALSE]
  /\ wasSet' = [wasSet EXCEPT ![p] = FALSE]

(* Another client of the pool sets the property.                           *)
KernelChanges ==
  /\ kernel < MaxVersion
  /\ kernel' = kernel + 1
  /\ UNCHANGED <<handle, maps, props, mtx, lasterr, pc, local, calls, settled>>

(* A call begins; only ReloadProperties asks the kernel.  ClearLastError   *)
(* is no method of a dataset.                                              *)
Call(p, o, c) ==
  /\ At(p, "idle") /\ calls < MaxCalls
  /\ o = "clearError" => c = AnyCopy
  /\ calls' = calls + 1
  /\ Goto(p, IF o \in Locked THEN "lock" ELSE "call")
  /\ op' = [op EXCEPT ![p] = o]
  /\ on' = [on EXCEPT ![p] = c]
  /\ floor' = [floor EXCEPT ![p] = IF o = "reload" THEN kernel ELSE settled]
  /\ UNCHANGED <<shared, got, err, mixed, wasSet, settled>>

(* Mutant: the mutex is not waited for.                                    *)
LockTaken(p) ==
  /\ At(p, "lock")
  /\ mtx' = p
  /\ Goto(p, "call")
  /\ UNCHANGED <<kernel, handle, maps, props, lasterr, local, calls, settled>>

(* Global.Mtx.Lock().                                                      *)
Lock(p) ==
  /\ At(p, "lock")
  /\ mtx = Nil
  /\ mtx' = p
  /\ Goto(p, "call")
  /\ UNCHANGED <<kernel, handle, maps, props, lasterr, local, calls, settled>>

(* A call that returns the error of libzfs under the mutex.                *)
Telling(q) == ~At(q, "idle") /\ op[q] \in Setters \cup {"mount"}

(* d.list is nil: the call makes an error of its own; under the mutex its  *)
(* early return unlocks as every other does.                               *)
NoHandle(p) ==
  /\ At(p, "call") /\ on[p] \in Closed /\ op[p] # "clearError"
  /\ \/ /\ op[p] \in Locked
        /\ err' = [err EXCEPT ![p] = p]
        /\ Goto(p, "unlock")
        /\ UNCHANGED <<op, on, got, floor, mixed, wasSet>>
     \/ op[p] \in Unlocked /\ Return(p)
  /\ UNCHANGED <<shared, calls, settled>>

(* A libzfs call fails and leaves its error; the other calls' may be lost. *)
CallFails(p) ==
  /\ Begun(p) /\ op[p] \notin {"reload", "clearError"} \cup Getters
  /\ lasterr' = p
  /\ mixed' = [q \in Procs |-> Telling(q) /\ q # p /\ (mixed[q] \/ op[p] \in Unlocked)]
  /\ Goto(p, "error")
  /\ UNCHANGED <<kernel, handle, maps, props, mtx, op, on, got, err, floor, wasSet, calls, settled>>

(* Mutant: d.Properties is declared and not made.                          *)
ReloadNilMap(p) ==
  /\ Begun(p) /\ op[p] = "reload"
  /\ props' = [props EXCEPT ![on[p]] = Len(maps) + 1]
  /\ handle' = kernel
  /\ got' = [got EXCEPT ![p] = kernel]
  /\ Goto(p, "write") \/ Goto(p, "unlock")
  /\ UNCHANGED <<kernel, maps, mtx, lasterr, op, on, err, floor, mixed, wasSet, calls, settled>>

(* ReloadProperties: d.Properties is a new, empty map; the handle takes    *)
(* the kernel's values.  A property that cannot be read is left out.       *)
Reload(p) ==
  /\ Begun(p) /\ op[p] = "reload"
  /\ maps' = Append(maps, 0)
  /\ props' = [props EXCEPT ![on[p]] = Len(maps')]
  /\ handle' = kernel
  /\ got' = [got EXCEPT ![p] = kernel]
  /\ Goto(p, "write") \/ Goto(p, "unlock")
  /\ UNCHANGED <<kernel, mtx, lasterr, op, on, err, floor, mixed, wasSet, calls, settled>>

(* zfs_prop_set: libzfs refreshes the handle after it.  SetProperty reads  *)
(* the value back, SetUserProperty does not.                               *)
Set(p) ==
  /\ Begun(p) /\ op[p] \in Setters /\ kernel < MaxVersion
  /\ kernel' = kernel + 1
  /\ handle' = kernel'
  /\ floor' = [floor EXCEPT ![p] = kernel']
  /\ wasSet' = [wasSet EXCEPT ![p] = TRUE]
  /\ Goto(p, IF op[p] = "set" THEN "read" ELSE "unlock")
  /\ UNCHANGED <<maps, props, mtx, lasterr, op, on, got, err, mixed, calls, settled>>

StartGet(p) ==
  /\ Begun(p) /\ op[p] \in Getters
  /\ Goto(p, "read")
  /\ UNCHANGED <<shared, local, calls, settled>>

(* Mutant: the value is taken from the map.                                *)
ReadCached(p) ==
  /\ At(p, "read")
  /\ \/ /\ got' = [got EXCEPT ![p] = maps[props[on[p]]]]
        /\ Goto(p, IF op[p] = "getUser" THEN "unlock" ELSE "write")
     \/ op[p] # "getUser" /\ Goto(p, "error") /\ UNCHANGED got
  /\ UNCHANGED <<shared, op, on, err, floor, mixed, wasSet, calls, settled>>

(* read_dataset_property and read_user_property, from the handle.  The     *)
(* first may fail, and leaves no error of its own then.                    *)
Read(p) ==
  /\ At(p, "read")
  /\ \/ /\ got' = [got EXCEPT ![p] = handle]
        /\ Goto(p, IF op[p] = "getUser" THEN "unlock" ELSE "write")
     \/ op[p] # "getUser" /\ Goto(p, "error") /\ UNCHANGED got
  /\ UNCHANGED <<shared, op, on, err, floor, mixed, wasSet, calls, settled>>

BeginWrite(p) ==
  /\ At(p, "write")
  /\ Goto(p, "writing")
  /\ UNCHANGED <<shared, local, calls, settled>>

EndWrite(p) ==
  /\ At(p, "writing")
  /\ maps' = [maps EXCEPT ![props[on[p]]] = got[p]]
  /\ Goto(p, "unlock")
  /\ UNCHANGED <<kernel, handle, props, mtx, lasterr, local, calls, settled>>

(* Rollback, Promote and Rename reload after a success; Unmount does not.  *)
ThenReload(p) ==
  /\ Begun(p) /\ op[p] = "bare"
  /\ Goto(p, "lock")
  /\ op' = [op EXCEPT ![p] = "reload"]
  /\ floor' = [floor EXCEPT ![p] = kernel]
  /\ UNCHANGED <<shared, on, got, err, mixed, wasSet, calls, settled>>

UnmountDone(p) ==
  /\ Begun(p) /\ op[p] = "bare"
  /\ Return(p)
  /\ UNCHANGED <<shared, calls, settled>>

MountDone(p) ==
  /\ Begun(p) /\ op[p] = "mount"
  /\ Goto(p, "unlock")
  /\ UNCHANGED <<shared, local, calls, settled>>

(* LastError(): the error of a locked call is returned with the mutex.     *)
ReadError(p) ==
  /\ At(p, "error")
  /\ \/ /\ op[p] \in Locked
        /\ err' = [err EXCEPT ![p] = lasterr]
        /\ Goto(p, "unlock")
        /\ UNCHANGED <<op, on, got, floor, mixed, wasSet>>
     \/ op[p] \in Unlocked /\ Return(p)
  /\ UNCHANGED <<shared, calls, settled>>

(* ClearLastError.                                                         *)
ClearLastError(p) ==
  /\ At(p, "call") /\ op[p] = "clearError"
  /\ lasterr' = Nobody
  /\ Goto(p, "idle")
  /\ op' = [op EXCEPT ![p] = "get"] /\ on' = [on EXCEPT ![p] = AnyCopy]
  /\ floor' = [floor EXCEPT ![p] = 0] /\ mixed' = [q \in Procs |-> Telling(q) /\ q # p]
  /\ UNCHANGED <<kernel, handle, maps, props, mtx, got, err, wasSet, calls, settled>>

SettledBy(p) ==
  IF err[p] = Nil /\ op[p] \in Setters /\ floor[p] > settled THEN floor[p] ELSE settled

(* Mutant: the early return of an error keeps the mutex.                   *)
UnlockOnSuccess(p) ==
  /\ At(p, "unlock")
  /\ mtx' = IF err[p] = Nil THEN Nil ELSE mtx
  /\ settled' = SettledBy(p)
  /\ Return(p)
  /\ UNCHANGED <<kernel, handle, maps, props, lasterr, calls>>

(* The deferred Global.Mtx.Unlock().                                       *)
Unlock(p) ==
  /\ At(p, "unlock")
  /\ mtx' = Nil
  /\ settled' = SettledBy(p)
  /\ Return(p)
  /\ UNCHANGED <<kernel, handle, maps, props, lasterr, calls>>

Step(p) ==
  \/ NoHandle(p) \/ CallFails(p) \/ Reload(p) \/ Set(p) \/ StartGet(p)
  \/ Read(p) \/ BeginWrite(p) \/ EndWrite(p) \/ ThenReload(p)
  \/ UnmountDone(p) \/ MountDone(p) \/ ReadError(p) \/ ClearLastError(p) \/ Unlock(p)

Next ==
  \/ KernelChanges
  \/ \E p \in Procs : Lock(p) \/ Step(p)
  \/ \E p \in Procs, o \in Locked \cup Unlocked, c \in Copies : Call(p, o, c)

(* A goroutine goes on; sync.Mutex starves nobody.                         *)
Fairness == \A p \in Procs : WF_vars(Step(p)) /\ SF_vars(Lock(p))

Spec == Init /\ [][Next]_vars /\ Fairness

----------------------------------------------------------------------------
Holding == {"call", "read", "write", "writing", "error", "unlock"}

(* The variables stay in range.                                            *)
TypeOK ==
  /\ kernel \in Versions /\ handle \in 0..kernel /\ settled \in 0..kernel
  /\ maps \in Seq(Versions)
  /\ props \in [Copies -> DOMAIN maps]
  /\ mtx \in Procs \cup {Nil} /\ lasterr \in Procs \cup {Nobody}
  /\ pc \in [Procs -> Labels] /\ op \in [Procs -> Locked \cup Unlocked]
  /\ on \in [Procs -> Copies]
  /\ got \in [Procs -> Versions] /\ floor \in [Procs -> Versions]
  /\ err \in [Procs -> Procs \cup {Nil, Nobody}]
  /\ calls \in 0..MaxCalls
  /\ mixed \in [Procs -> BOOLEAN] /\ wasSet \in [Procs -> BOOLEAN]

(* Copies of a Dataset share a map: no two goroutines write one map at a   *)
(* time, or the Go runtime ends the process (Global.Mtx, zfs.go:321).      *)
NoConcurrentMapWrites ==
  \A p, q \in Procs :
    (p # q /\ At(p, "writing") /\ At(q, "writing")) => props[on[p]] # props[on[q]]

(* What a getter, a reload or the reading back of SetProperty shows is no  *)
(* older than what any SetProperty, through whichever copy, had set before *)
(* the call, and a reload's no older than the kernel's.                    *)
SetIsSeen ==
  \A p \in Procs :
    (At(p, "write") \/ (At(p, "unlock") /\ err[p] = Nil /\ op[p] = "getUser"))
      => got[p] >= floor[p]

(* The error that SetProperty, SetUserProperty or Mount returns is of its  *)
(* own, with two exceptions: a call without the mutex failed, or cleared   *)
(* the error, meanwhile (LastError, common.go:291); or the property was    *)
(* set and could not be read back, which leaves no error of its own, so    *)
(* that SetProperty returns whatever libzfs had before (zfs.go:404).       *)
OwnError ==
  \A p \in Procs :
    (At(p, "unlock") /\ op[p] \in Setters \cup {"mount"} /\ err[p] # Nil)
      => err[p] = p \/ mixed[p] \/ (op[p] = "set" /\ wasSet[p])

(* A finished SetProperty is in the map of its copy: nothing older is      *)
(* written over it later, through this copy or another that shares it.     *)
MapsNeverGoBack == [][\A m \in DOMAIN maps : maps'[m] >= maps[m]]_vars

(* Every call returns, whatever fails in it: no path keeps the mutex.      *)
EveryCallReturns == \A p \in Procs : ~At(p, "idle") ~> At(p, "idle")
=============================================================================

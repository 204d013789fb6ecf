----------------------------- MODULE SendNames -----------------------------
(***************************************************************************)
(* What Send, SendFrom and SendSize (sendrecv.go) ask libzfs to send, from *)
(* the names they are given.  A name is the sequence of its parts between  *)
(* the "@"s, as strings.Split(name, "@") returns it, and never empty; the  *)
(* empty name, which Send passes on, is <<"">>.                            *)
(*                                                                         *)
(* An outcome is an error, a panic, or a call of zfs_send with the parent  *)
(* filesystem, the snapshot and the incremental source; "nil" is no source.*)
(***************************************************************************)
EXTENDS Sequences, Naturals

CONSTANTS
  Parts,  \* what may stand before, between and behind the "@"s of a name
  Slash,  \* the parts with a "/"
  Hash    \* the parts with a "#"

ASSUME PartsAssumption == "" \in Parts \ (Slash \cup Hash) /\ Slash \cup Hash \subseteq Parts

Empty == <<"">>
Error == [kind |-> "error"]
Panic == [kind |-> "panic"]
Sends(parent, to, from) == [kind |-> "send", parent |-> parent, to |-> to, from |-> from]

Has(name, chars) == \E i \in DOMAIN name : name[i] \in chars
IsSnap(path) == Len(path) = 2

(* The name zfs_send gets as its source: an "@" in front is cut off; of a  *)
(* name with a "/" the part behind the first "@" is taken, and it panics   *)
(* when there is none; any other name is passed on.                        *)
Source(from) ==
  IF from[1] = "" /\ Len(from) > 1 THEN Tail(from)
  ELSE IF ~Has(from, Slash) THEN from
  ELSE IF Len(from) > 1 THEN <<from[2]>>
  ELSE <<>>

(* Dataset.send of the dataset at path; opened iff its filesystem is there.*)
SendIncremental(path, from, opened) ==
  IF ~IsSnap(path) \/ Has(from, Hash) THEN Error
  ELSE IF from # Empty /\ Source(from) = <<>> THEN Panic
  ELSE IF ~opened THEN Error
  ELSE Sends(path[1], path[2], IF from = Empty THEN "nil" ELSE Source(from))

(* Mutant: the filesystem of the source is not looked at.                  *)
SendFromAnywhere(path, origin, from, opened) ==
  IF origin # Empty /\ origin = from THEN Panic
  ELSE IF Len(from) < 2 \/ from[2] \in Slash THEN Error
  ELSE SendIncremental(path, <<"", from[2]>>, opened)

(* SendFrom: when the source is the dataset's origin, the slice the last   *)
(* line takes the source from has not been made.                           *)
SendFrom(path, origin, from, opened) ==
  IF origin # Empty /\ origin = from THEN Panic
  ELSE IF from[1] # "" /\ from[1] # path[1] THEN Error
  ELSE IF Len(from) < 2 \/ from[2] \in Slash THEN Error
  ELSE SendIncremental(path, <<"", from[2]>>, opened)

(* A call: the function, the dataset's path, its origin and the source.    *)
Outcome(r, opened) ==
  IF r.how = "SendFrom" THEN SendFrom(r.path, r.origin, r.from, opened)
  ELSE SendIncremental(r.path, IF r.how = "Send" THEN Empty ELSE r.from, opened)
=============================================================================

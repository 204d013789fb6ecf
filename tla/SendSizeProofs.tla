--------------------------- MODULE SendSizeProofs ---------------------------
(***************************************************************************)
(* Proofs about SendSize: for any number of calls, any requests, whatever  *)
(* fails and whichever deadlines pass, a nil error comes after a send that *)
(* succeeded; a call whose goroutine ran alone returns its own size; the   *)
(* standard output is what it was, or the pipe of a call that failed; and  *)
(* the source is the one asked for.                                        *)
(*                                                                         *)
(* The argument is about one call at a time.  Stages says what a goroutine *)
(* has opened, printed and failed by the time it is at gpc[c].  Alone says *)
(* that the pipe of a call that did not mix is read and written by nobody  *)
(* else before its own line is in it: descriptor 1 is that pipe between    *)
(* the call's own Dup2 and Restore, and later only if Restore failed.      *)
(* Paired says where descriptor 1 can be while nothing mixes, and that a   *)
(* pipe that stayed behind is held open by it or by a saved descriptor.    *)
(***************************************************************************)
EXTENDS SendSize, TLAPS

USE CallsAssumption

(* Where a goroutine may be; and where it holds the saved descriptor, has  *)
(* put its pipe in the place of descriptor 1, or has ended its redirection.*)
Places == {"none", "dup", "dup2", "send", "fflush", "restore", "close", "put", "done"}
Holds == {"dup2", "send", "fflush", "restore"}
Redirects == {"send", "fflush", "restore"}
Ended == {"close", "put", "done"}

Ranges ==
  /\ stdout \in Calls \cup {Terminal}
  /\ buf \in Seq(Calls)
  /\ data \in [Calls -> Seq(Calls)]
  /\ saved \in [Calls -> Calls \cup {Terminal, None}]
  /\ wopen \in [Calls -> BOOLEAN]
  /\ gpc \in [Calls -> Places]
  /\ tmpe \in [Calls -> {"nil", "error"}]
  /\ cpc \in [Calls -> {"idle", "read", "recv", "defer", "returned"}]
  /\ result \in [Calls -> [size : Calls \cup {NoCall}, err : {"pending", "nil", "error"}]]
  /\ asked \in [Calls -> Requests]
  /\ mixed \subseteq Calls

Typed == Ranges /\ sent = [c \in Calls |-> sent[c]]

Stages(c) ==
  /\ cpc[c] = "idle" => gpc[c] = "none" /\ result[c].err = "pending" /\ sent[c] = Unsent
  /\ ~IsSize(c) => gpc[c] = "none"
  /\ cpc[c] \in {"read", "recv"} => gpc[c] # "none"
  /\ cpc[c] = "recv" => gpc[c] \in {"put", "done"}
  /\ wopen[c] <=> gpc[c] \notin {"none", "put", "done"}
  /\ gpc[c] \in Holds => saved[c] \in Calls \cup {Terminal}
  /\ gpc[c] \in {"none", "dup"} => saved[c] = None
  /\ gpc[c] \in {"dup", "dup2"} => sent[c] = Unsent
  /\ gpc[c] \in {"fflush", "restore"} => sent[c] # Unsent
  /\ gpc[c] \in {"fflush", "restore"} \cup Ended /\ tmpe[c] = "nil" => sent[c].kind = "send"
  /\ IsSize(c) /\ result[c].err = "nil" =>
       cpc[c] \in {"defer", "returned"} /\ gpc[c] = "done" /\ tmpe[c] = "nil"

(* What is so of a call's pipe while nobody else comes near it.  Others    *)
(* get at it when descriptor 1 could not be restored, but only behind the  *)
(* call's own line.                                                        *)
Alone(c) ==
  /\ c \in Busy => Busy = {c}
  /\ gpc[c] \in Redirects => stdout = c
  /\ stdout = c => gpc[c] \in Redirects \cup Ended
  /\ \A b \in Calls : gpc[b] \in Holds /\ saved[b] = c => gpc[c] \in Ended
  /\ gpc[c] \notin {"restore"} \cup Ended => data[c] = <<>>
  /\ gpc[c] = "fflush" /\ tmpe[c] = "nil" => buf = <<c>>
  /\ gpc[c] \in {"restore"} \cup Ended /\ tmpe[c] = "nil" => data[c] # <<>> /\ Head(data[c]) = c
  /\ tmpe[c] = "nil" /\ (cpc[c] = "recv" \/ (IsSize(c) /\ result[c].err = "nil")) =>
       result[c].size = c

(* Descriptor 1 while no two goroutines have ever mixed.  The pipe of a    *)
(* call that could not restore it stays open: as descriptor 1, or saved by *)
(* a later call, which puts it back or leaks it.  So that call never reads *)
(* to the end.                                                             *)
Outside == {Terminal} \cup NotRestored

Held(c) == stdout = c \/ \E b \in Calls : saved[b] = c

Paired ==
  /\ \A b \in Calls : gpc[b] \in Holds => saved[b] \in Outside
  /\ \A b \in Calls : gpc[b] = "dup2" => saved[b] = stdout
  /\ stdout \notin Outside => \E b \in Calls : gpc[b] \in Redirects
  /\ \A c \in NotRestored : Held(c) /\ cpc[c] # "recv" /\ result[c].err # "nil"

(* Who prints will flush.                                                  *)
Flushed == buf # <<>> => \E b \in Calls : gpc[b] = "fflush"

(* What a call came to.                                                    *)
Answers == \A c \in Calls : sent[c] = Unsent \/ \E o \in BOOLEAN : sent[c] = Outcome(asked[c], o)

IInv ==
  /\ Typed
  /\ \A c \in Calls : Stages(c)
  /\ \A c \in Calls \ mixed : Alone(c)
  /\ mixed = {} => Paired
  /\ Flushed

-----------------------------------------------------------------------------
LEMMA InitIInv == Init => IInv
<1> SUFFICES ASSUME Init PROVE IInv
  OBVIOUS
<1>1. Typed
  <2>1. sent = [c \in Calls |-> sent[c]]
    BY DEF Init
  <2> QED BY <2>1 DEF Init, Typed, Ranges, Pending, Places
<1>2. Busy = {}
  BY DEF Init, Busy
<1>3. \A c \in Calls : Stages(c)
  BY DEF Init, Stages, Pending, Holds, Ended, Unsent
<1>4. \A c \in Calls : Alone(c)
  BY <1>2 DEF Init, Alone, Pending, Ended, Holds, Redirects
<1>5. Paired /\ Flushed
  BY DEF Init, Paired, Flushed, Holds, Outside, NotRestored
<1> QED BY <1>1, <1>3, <1>4, <1>5 DEF IInv

-----------------------------------------------------------------------------
(* A step of one call leaves the fields of the others alone, but for what  *)
(* a flush puts into the pipe behind descriptor 1.                         *)
StepOf(c) == Begin(c) \/ Stream(c) \/ Goroutine(c) \/ Caller(c)

Same(b) ==
  /\ gpc'[b] = gpc[b] /\ saved'[b] = saved[b] /\ wopen'[b] = wopen[b]
  /\ tmpe'[b] = tmpe[b] /\ cpc'[b] = cpc[b] /\ result'[b] = result[b] /\ sent'[b] = sent[b]

LEMMA RangesStep ==
  ASSUME Ranges, NEW c \in Calls, Stages(c), StepOf(c)
  PROVE  Ranges'
<1> USE DEF Ranges
<1>1. CASE Begin(c)
  BY <1>1 DEF Begin, names, Places, Busy
<1>2. CASE Stream(c)
  <2>1. result' \in [Calls -> [size : Calls \cup {NoCall}, err : {"pending", "nil", "error"}]]
    <3>1. PICK e \in {"nil", "error"} : result' = [result EXCEPT ![c].err = e]
      BY <1>2 DEF Stream
    <3> QED BY <3>1
  <2>2. cpc' \in [Calls -> {"idle", "read", "recv", "defer", "returned"}]
    BY <1>2 DEF Stream
  <2> QED BY <1>2, <2>1, <2>2 DEF Stream, goroutine
<1>3. CASE Dup(c)
  <2>1. saved' \in [Calls -> Calls \cup {Terminal, None}]
    BY <1>3 DEF Dup
  <2>2. tmpe' \in [Calls -> {"nil", "error"}]
    BY <1>3 DEF Dup, Fails
  <2>3. gpc' \in [Calls -> Places]
    BY <1>3 DEF Dup, Moves, Places
  <2>4. UNCHANGED <<stdout, buf, data, wopen, cpc, result, asked, mixed>>
    <3> HIDE DEF Ranges
    <3> QED BY <1>3, SMTT(30) DEF Dup, caller, names
  <2> QED BY <2>1, <2>2, <2>3, <2>4
<1>4. CASE Dup2(c)
  BY <1>4 DEF Dup2, Moves, Fails, caller, names, Places
<1>5. CASE DoSend(c)
  <2>1. buf' \in Seq(Calls)
    <3>1. CASE buf' = Append(buf, c)
      BY <3>1
    <3>2. CASE buf' = buf
      BY <3>2
    <3> QED BY <1>5, <3>1, <3>2 DEF DoSend
  <2>2. tmpe' \in [Calls -> {"nil", "error"}]
    BY <1>5 DEF DoSend, Fails
  <2>3. gpc' \in [Calls -> Places]
    BY <1>5 DEF DoSend, Moves, Places
  <2> QED BY <1>5, <2>1, <2>2, <2>3 DEF DoSend, caller
<1>6. CASE SendPanics(c)
  BY <1>6 DEF SendPanics, goroutine, caller
<1>7. CASE Fflush(c)
  BY <1>7 DEF Fflush, Moves, caller, names, Places
<1>8. CASE Restore(c)
  <2>1. stdout' \in Calls \cup {Terminal}
    BY <1>8 DEF Restore, Moves, Stages, Holds
  <2> QED BY <1>8, <2>1 DEF Restore, Moves, caller, names, Places
<1>9. CASE CloseW(c)
  BY <1>9 DEF CloseW, Moves, caller, names, Places
<1>10. CASE PutOnClosed(c)
  BY <1>10 DEF PutOnClosed, Moves, caller, names, Places
<1>11. CASE ReadAll(c)
  <2>1. data[c] # <<>> => Head(data[c]) \in Calls
    OBVIOUS
  <2>2. result' \in [Calls -> [size : Calls \cup {NoCall}, err : {"pending", "nil", "error"}]]
    <3>1. PICK n \in Calls \cup {NoCall} : result' = [result EXCEPT ![c].size = n]
      BY <1>11, <2>1 DEF ReadAll
    <3> QED BY <3>1
  <2> QED BY <1>11, <2>2 DEF ReadAll, goroutine, names
<1>12. CASE Recv(c)
  <2>1. result' \in [Calls -> [size : Calls \cup {NoCall}, err : {"pending", "nil", "error"}]]
    <3>1. PICK e \in {"nil", "error"} : result' = [result EXCEPT ![c].err = e]
      BY <1>12 DEF Recv
    <3> QED BY <3>1
  <2>2. gpc' \in [Calls -> Places]
    BY <1>12 DEF Recv, Moves, Places
  <2> QED BY <1>12, <2>1, <2>2 DEF Recv, names
<1>13. CASE Timeout(c)
  BY <1>13 DEF Timeout, goroutine, names
<1>14. CASE Deferred(c)
  BY <1>14 DEF Deferred, names, Places
<1> QED BY <1>1, <1>2, <1>3, <1>4, <1>5, <1>6, <1>7, <1>8, <1>9, <1>10, <1>11, <1>12, <1>13, <1>14 DEF StepOf, Goroutine, Caller

LEMMA TypedStep ==
  ASSUME Typed, NEW c \in Calls, Stages(c), StepOf(c)
  PROVE  Typed'
<1>1. sent' = [b \in Calls |-> sent'[b]]
  <2>1. sent' = sent \/ \E o : sent' = [sent EXCEPT ![c] = o]
    BY DEF StepOf, Goroutine, Caller, Begin, Stream, Dup, Dup2, DoSend, SendPanics, Fflush, Restore,
           CloseW, PutOnClosed, ReadAll, Recv, Timeout, Deferred, names
  <2>2. sent = [b \in Calls |-> sent[b]]
    BY DEF Typed, Ranges
  <2> QED BY <2>1, <2>2
<1> QED BY <1>1, RangesStep DEF Typed

LEMMA OthersKept ==
  ASSUME Typed, NEW c \in Calls, StepOf(c)
  PROVE  asked' = asked /\ \A b \in Calls \ {c} : Same(b)
<1> USE DEF Typed, Ranges, Same
<1>1. CASE Begin(c)
  BY <1>1 DEF Begin, names
<1>2. CASE Stream(c)
  BY <1>2 DEF Stream, goroutine
<1>3. CASE Dup(c)
  BY <1>3 DEF Dup, Moves, Fails, caller, names
<1>4. CASE Dup2(c)
  BY <1>4 DEF Dup2, Moves, Fails, caller, names
<1>5. CASE DoSend(c)
  BY <1>5 DEF DoSend, Moves, Fails, caller
<1>6. CASE SendPanics(c)
  BY <1>6 DEF SendPanics, goroutine, caller
<1>7. CASE Fflush(c)
  BY <1>7 DEF Fflush, Moves, caller, names
<1>8. CASE Restore(c)
  BY <1>8 DEF Restore, Moves, caller, names
<1>9. CASE CloseW(c)
  BY <1>9 DEF CloseW, Moves, caller, names
<1>10. CASE PutOnClosed(c)
  BY <1>10 DEF PutOnClosed, Moves, caller, names
<1>11. CASE ReadAll(c)
  BY <1>11 DEF ReadAll, Eof, goroutine, names
<1>12. CASE Recv(c)
  BY <1>12 DEF Recv, Moves, names
<1>13. CASE Timeout(c)
  BY <1>13 DEF Timeout, goroutine, names
<1>14. CASE Deferred(c)
  BY <1>14 DEF Deferred, names
<1> QED BY <1>1, <1>2, <1>3, <1>4, <1>5, <1>6, <1>7, <1>8, <1>9, <1>10, <1>11, <1>12, <1>13, <1>14 DEF StepOf, Goroutine, Caller

(* A call that is neither refused nor the end of the program sends.        *)
LEMMA Sent ==
  ASSUME NEW r, NEW o, Outcome(r, o) # Error, Outcome(r, o) # Panic
  PROVE  Outcome(r, o).kind = "send"
<1>1. \A a, b, f : Sends(a, b, f).kind = "send"
  BY DEF Sends
<1>2. ASSUME NEW p, NEW f, SendIncremental(p, f, o) # Error, SendIncremental(p, f, o) # Panic
      PROVE  SendIncremental(p, f, o).kind = "send"
  BY <1>1, <1>2 DEF SendIncremental
<1>3. CASE r.how = "SendFrom"
  <2>1. Outcome(r, o) = SendFrom(r.path, r.origin, r.from, o)
    BY <1>3 DEF Outcome
  <2>2. Outcome(r, o) = SendIncremental(r.path, <<"", r.from[2]>>, o)
    BY <2>1 DEF SendFrom
  <2> QED BY <1>2, <2>2
<1>4. CASE r.how # "SendFrom"
  BY <1>2, <1>4 DEF Outcome
<1> QED BY <1>3, <1>4

LEMMA NotUnsent ==
  ASSUME NEW r, NEW o
  PROVE  Outcome(r, o) # Unsent
<1>1. /\ Error.kind # "unsent" /\ Panic.kind # "unsent" /\ Unsent.kind = "unsent"
  BY DEF Error, Panic, Unsent
<1> QED BY <1>1, Sent

LEMMA StagesStep ==
  ASSUME Typed, NEW c \in Calls, Stages(c), StepOf(c)
  PROVE  Stages(c)'
<1>0. \A o : Outcome(asked[c], o) # Unsent
  BY NotUnsent
<1> USE DEF Typed, Ranges, Stages, Holds, Ended, IsSize
<1>1. CASE Begin(c)
  BY <1>1 DEF Begin, names
<1>2. CASE Stream(c)
  BY <1>2 DEF Stream, goroutine
<1>3. CASE Dup(c)
  BY <1>3 DEF Dup, Moves, Fails, caller, names
<1>4. CASE Dup2(c)
  BY <1>4 DEF Dup2, Moves, Fails, caller, names
<1>5. CASE DoSend(c)
  <2>1. PICK o \in BOOLEAN :
          LET out == Outcome(asked[c], o) IN
          /\ out # Panic
          /\ sent' = [sent EXCEPT ![c] = out]
          /\ (out # Error /\ UNCHANGED tmpe) \/ Fails(c)
    BY <1>5 DEF DoSend
  <2>2. sent'[c] = Outcome(asked[c], o) /\ sent'[c] # Unsent
    BY <1>0, <2>1
  <2>3. tmpe'[c] = "nil" => sent'[c].kind = "send"
    BY <2>1, <2>2, Sent DEF Fails
  <2> QED BY <1>5, <2>2, <2>3 DEF DoSend, Moves, caller
<1>6. CASE SendPanics(c)
  BY <1>6 DEF SendPanics, goroutine, caller
<1>7. CASE Fflush(c)
  BY <1>7 DEF Fflush, Moves, caller, names
<1>8. CASE Restore(c)
  BY <1>8 DEF Restore, Moves, caller, names
<1>9. CASE CloseW(c)
  BY <1>9 DEF CloseW, Moves, caller, names
<1>10. CASE PutOnClosed(c)
  BY <1>10 DEF PutOnClosed, Moves, caller, names
<1>11. CASE ReadAll(c)
  BY <1>11 DEF ReadAll, Eof, goroutine, names
<1>12. CASE Recv(c)
  BY <1>12 DEF Recv, Moves, names
<1>13. CASE Timeout(c)
  BY <1>13 DEF Timeout, goroutine, names
<1>14. CASE Deferred(c)
  BY <1>14 DEF Deferred, names
<1> QED BY <1>1, <1>2, <1>3, <1>4, <1>5, <1>6, <1>7, <1>8, <1>9, <1>10, <1>11, <1>12, <1>13, <1>14 DEF StepOf, Goroutine, Caller

-----------------------------------------------------------------------------
(* A call that has not mixed is out of the reach of the steps of others.   *)
Quiet == {"none", "put", "done"}

LEMMA Apart ==
  ASSUME Typed, NEW c \in Calls, NEW b \in Calls \ {c}, Alone(b), b \notin mixed', StepOf(c)
  PROVE  /\ gpc[b] \notin Quiet => gpc'[c] \in Quiet
         /\ gpc[b] \in Redirects => stdout' = stdout
         /\ stdout' = b => stdout = b \/ gpc[b] \in Ended
         /\ gpc'[c] \in Holds /\ saved'[c] = b => gpc[b] \in Ended
         /\ gpc[b] \notin Ended => data'[b] = data[b]
         /\ data[b] # <<>> => data'[b] # <<>> /\ Head(data'[b]) = Head(data[b])
         /\ gpc[b] = "fflush" => buf' = buf
<1>1. gpc[b] \notin Quiet => gpc[c] \in Quiet /\ ~Begin(c)
  BY DEF Alone, Busy, Begin, Quiet
<1>2. stdout = b => gpc[c] \in Quiet \/ gpc[b] \in Ended
  BY <1>1 DEF Alone, Redirects, Quiet
<1>3. gpc[c] \in Holds /\ saved[c] = b => gpc[b] \in Ended
  BY DEF Alone
<1> USE DEF Typed, Ranges, Quiet, Holds, Redirects, Ended
<1>4. CASE Begin(c)
  BY <1>4, <1>1, <1>2, <1>3 DEF Begin, names
<1>5. CASE Stream(c)
  BY <1>5, <1>1, <1>2, <1>3 DEF Stream, goroutine
<1>6. CASE Dup(c)
  BY <1>6, <1>1, <1>2, <1>3 DEF Dup, Moves, Fails, caller, names
<1>7. CASE Dup2(c)
  BY <1>7, <1>1, <1>2, <1>3 DEF Dup2, Moves, Fails, caller, names
<1>8. CASE DoSend(c)
  BY <1>8, <1>1, <1>2, <1>3 DEF DoSend, Moves, Fails, caller
<1>9. CASE SendPanics(c)
  BY <1>9, <1>1, <1>2, <1>3 DEF SendPanics, goroutine, caller
<1>10. CASE Fflush(c)
  <2>1. gpc[b] \notin Ended => stdout # b
    BY <1>10, <1>2 DEF Fflush, Moves
  <2>2. gpc[b] \notin Ended => data'[b] = data[b]
    BY <1>10, <2>1 DEF Fflush
  <2>3. data[b] # <<>> => data'[b] # <<>> /\ Head(data'[b]) = Head(data[b])
    <3>1. data'[b] = data[b] \/ data'[b] = data[b] \o buf
      BY <1>10 DEF Fflush
    <3>2. data[b] \in Seq(Calls) /\ buf \in Seq(Calls)
      OBVIOUS
    <3> HIDE DEF Typed, Ranges
    <3>3. data[b] # <<>> => data[b] \o buf # <<>> /\ Head(data[b] \o buf) = Head(data[b])
      BY <3>2
    <3> QED BY <3>1, <3>3
  <2> QED BY <1>10, <1>1, <1>3, <2>2, <2>3 DEF Fflush, Moves, caller, names
<1>11. CASE Restore(c)
  BY <1>11, <1>1, <1>2, <1>3 DEF Restore, Moves, caller, names
<1>12. CASE CloseW(c)
  BY <1>12, <1>1, <1>2, <1>3 DEF CloseW, Moves, caller, names
<1>13. CASE PutOnClosed(c)
  BY <1>13, <1>1, <1>2, <1>3 DEF PutOnClosed, Moves, caller, names
<1>14. CASE ReadAll(c)
  BY <1>14, <1>1, <1>2, <1>3 DEF ReadAll, Eof, goroutine, names
<1>15. CASE Recv(c)
  BY <1>15, <1>1, <1>2, <1>3 DEF Recv, Moves, names
<1>16. CASE Timeout(c)
  BY <1>16, <1>1, <1>2, <1>3 DEF Timeout, goroutine, names
<1>17. CASE Deferred(c)
  BY <1>17, <1>1, <1>2, <1>3 DEF Deferred, names
<1> QED BY <1>4, <1>5, <1>6, <1>7, <1>8, <1>9, <1>10, <1>11, <1>12, <1>13, <1>14, <1>15, <1>16, <1>17 DEF StepOf, Goroutine, Caller

LEMMA AloneKept ==
  ASSUME Typed, NEW c \in Calls, NEW b \in Calls \ {c}, Alone(b), b \notin mixed', StepOf(c)
  PROVE  Alone(b)'
<1>1. /\ Same(b) /\ IsSize(b)' = IsSize(b)
      /\ \A d \in Calls \ {c} : gpc'[d] = gpc[d] /\ saved'[d] = saved[d]
  BY OthersKept DEF Same, IsSize
<1>2. b \in Busy' => Busy' = {b}
  BY <1>1, Apart DEF Same, Alone, Busy, Quiet
<1>3. \A d \in Calls : gpc'[d] \in Holds /\ saved'[d] = b => gpc[b] \in Ended
  BY <1>1, Apart DEF Same, Alone
<1> QED BY <1>1, <1>2, <1>3, Apart DEF Same, Alone

(* Its own steps.                                                          *)
LEMMA AloneStep ==
  ASSUME Typed, NEW c \in Calls, Alone(c), Stages(c), Flushed, c \notin mixed', StepOf(c)
  PROVE  Alone(c)'
<1>1. \A d \in Calls \ {c} : gpc'[d] = gpc[d] /\ saved'[d] = saved[d]
  BY OthersKept DEF Same
<1>2. c \in Busy' => Busy' = {c}
  <2>1. c \in Busy' => c \in Busy \/ Busy = {}
    <3> USE DEF Typed, Ranges, Busy
    <3>1. CASE Begin(c)
      BY <3>1 DEF Begin, names
    <3>2. CASE Stream(c)
      BY <3>2 DEF Stream, goroutine
    <3>3. CASE Dup(c)
      BY <3>3 DEF Dup, Moves, Fails, caller, names
    <3>4. CASE Dup2(c)
      BY <3>4 DEF Dup2, Moves, Fails, caller, names
    <3>5. CASE DoSend(c)
      BY <3>5 DEF DoSend, Moves, Fails, caller
    <3>6. CASE SendPanics(c)
      BY <3>6 DEF SendPanics, goroutine, caller
    <3>7. CASE Fflush(c)
      BY <3>7 DEF Fflush, Moves, caller, names
    <3>8. CASE Restore(c)
      BY <3>8 DEF Restore, Moves, caller, names
    <3>9. CASE CloseW(c)
      BY <3>9 DEF CloseW, Moves, caller, names
    <3>10. CASE PutOnClosed(c)
      BY <3>10 DEF PutOnClosed, Moves, caller, names
    <3>11. CASE ReadAll(c)
      BY <3>11 DEF ReadAll, Eof, goroutine, names
    <3>12. CASE Recv(c)
      BY <3>12 DEF Recv, Moves, names
    <3>13. CASE Timeout(c)
      BY <3>13 DEF Timeout, goroutine, names
    <3>14. CASE Deferred(c)
      BY <3>14 DEF Deferred, names
    <3> QED BY <3>1, <3>2, <3>3, <3>4, <3>5, <3>6, <3>7, <3>8, <3>9, <3>10, <3>11, <3>12, <3>13, <3>14 DEF StepOf, Goroutine, Caller
  <2> QED BY <1>1, <2>1 DEF Alone, Busy
<1>3. \A d \in Calls : gpc'[d] \in Holds /\ saved'[d] = c => gpc'[c] \in Ended
  <2>1. gpc'[c] \in Holds => saved'[c] # c
    <3> USE DEF Typed, Ranges, Alone, Holds, Redirects, Ended
    <3>1. CASE Begin(c)
      BY <3>1 DEF Begin, names
    <3>2. CASE Stream(c)
      BY <3>2 DEF Stream, goroutine
    <3>3. CASE Dup(c)
      BY <3>3 DEF Dup, Moves, Fails, caller, names
    <3>4. CASE Dup2(c)
      BY <3>4 DEF Dup2, Moves, Fails, caller, names
    <3>5. CASE DoSend(c)
      BY <3>5 DEF DoSend, Moves, Fails, caller
    <3>6. CASE SendPanics(c)
      BY <3>6 DEF SendPanics, goroutine, caller
    <3>7. CASE Fflush(c)
      BY <3>7 DEF Fflush, Moves, caller, names
    <3>8. CASE Restore(c)
      BY <3>8 DEF Restore, Moves, caller, names
    <3>9. CASE CloseW(c)
      BY <3>9 DEF CloseW, Moves, caller, names
    <3>10. CASE PutOnClosed(c)
      BY <3>10 DEF PutOnClosed, Moves, caller, names
    <3>11. CASE ReadAll(c)
      BY <3>11 DEF ReadAll, Eof, goroutine, names
    <3>12. CASE Recv(c)
      BY <3>12 DEF Recv, Moves, names
    <3>13. CASE Timeout(c)
      BY <3>13 DEF Timeout, goroutine, names
    <3>14. CASE Deferred(c)
      BY <3>14 DEF Deferred, names
    <3> QED BY <3>1, <3>2, <3>3, <3>4, <3>5, <3>6, <3>7, <3>8, <3>9, <3>10, <3>11, <3>12, <3>13, <3>14 DEF StepOf, Goroutine, Caller
  <2>2. gpc[c] \in Ended => gpc'[c] \in Ended
    BY DEF Typed, Ranges, Ended, StepOf, Goroutine, Caller, Begin, Stages, Stream, Dup, Dup2, DoSend, SendPanics,
           Fflush, Restore, CloseW, PutOnClosed, ReadAll, Recv, Timeout, Deferred, Moves, goroutine
  <2> QED BY <1>1, <2>1, <2>2 DEF Alone, Holds, Ended
<1>4. gpc[c] = "send" => buf = <<>>
  BY DEF Alone, Flushed, Busy
<1> DEFINE Rest ==
      /\ gpc[c] \in Redirects => stdout = c
      /\ stdout = c => gpc[c] \in Redirects \cup Ended
      /\ gpc[c] \notin {"restore"} \cup Ended => data[c] = <<>>
      /\ gpc[c] = "fflush" /\ tmpe[c] = "nil" => buf = <<c>>
      /\ gpc[c] \in {"restore"} \cup Ended /\ tmpe[c] = "nil" => data[c] # <<>> /\ Head(data[c]) = c
      /\ tmpe[c] = "nil" /\ (cpc[c] = "recv" \/ (IsSize(c) /\ result[c].err = "nil")) =>
           result[c].size = c
<1>5. Rest /\ (gpc[c] \in Holds => saved[c] # c)
  BY DEF Alone, Holds, Ended
<1>6. Rest'
  <2> HIDE DEF Rest
  <2>0. /\ Rest /\ (gpc[c] \in Holds => saved[c] # c) /\ (gpc[c] = "send" => buf = <<>>)
        /\ Stages(c) /\ Typed
    BY <1>4, <1>5
  <2> USE DEF Rest, Typed, Ranges, Stages, Holds, Redirects, Ended, IsSize
  <2>1. CASE Begin(c)
    BY <2>1, <2>0 DEF Begin, names
  <2>2. CASE Stream(c)
    BY <2>2, <2>0 DEF Stream, goroutine
  <2>3. CASE Dup(c)
    BY <2>3, <2>0 DEF Dup, Moves, Fails, caller, names
  <2>4. CASE Dup2(c)
    BY <2>4, <2>0 DEF Dup2, Moves, Fails, caller, names
  <2>5. CASE DoSend(c)
    BY <2>5, <2>0 DEF DoSend, Moves, Fails, caller
  <2>6. CASE SendPanics(c)
    BY <2>6, <2>0 DEF SendPanics, goroutine, caller
  <2>7. CASE Fflush(c)
    <3>1. tmpe[c] = "nil" => data'[c] = <<c>>
      <4>1. stdout = c /\ data[c] = <<>> /\ (tmpe[c] = "nil" => buf = <<c>>)
        BY <2>7, <2>0 DEF Fflush, Moves
      <4>2. data'[c] = data[c] \o buf
        BY <2>7, <4>1, CallsAssumption DEF Fflush
      <4> QED BY <4>1, <4>2
    <3>2. <<c>> # <<>> /\ Head(<<c>>) = c
      OBVIOUS
    <3> QED BY <3>2, <2>7, <2>0, <3>1 DEF Fflush, Moves, caller, names
  <2>8. CASE Restore(c)
    BY <2>8, <2>0 DEF Restore, Moves, caller, names
  <2>9. CASE CloseW(c)
    BY <2>9, <2>0 DEF CloseW, Moves, caller, names
  <2>10. CASE PutOnClosed(c)
    BY <2>10, <2>0 DEF PutOnClosed, Moves, caller, names
  <2>11. CASE ReadAll(c)
    <3>1. gpc[c] \in {"put", "done"}
      BY <2>11, <2>0 DEF ReadAll, Eof, Places
    <3>2. tmpe[c] = "nil" => result'[c].size = c
      <4>1. tmpe[c] = "nil" => data[c] # <<>> /\ Head(data[c]) = c
        BY <2>0, <3>1
      <4> QED BY <2>11, <4>1 DEF ReadAll
    <3> QED BY <2>11, <2>0, <3>1, <3>2 DEF ReadAll, goroutine, names
  <2>12. CASE Recv(c)
    BY <2>12, <2>0 DEF Recv, Moves, names
  <2>13. CASE Timeout(c)
    BY <2>13, <2>0 DEF Timeout, goroutine, names
  <2>14. CASE Deferred(c)
    BY <2>14, <2>0 DEF Deferred, names
  <2> QED BY <2>1, <2>2, <2>3, <2>4, <2>5, <2>6, <2>7, <2>8, <2>9, <2>10, <2>11, <2>12, <2>13, <2>14 DEF StepOf, Goroutine, Caller
<1> QED BY <1>2, <1>3, <1>6 DEF Alone

-----------------------------------------------------------------------------
(* What a step of c does to descriptor 1, to what c has saved and to c's   *)
(* place among the calls that did not restore it.                          *)
Lost(c) == gpc[c] \in Ended /\ sent[c] # Unsent /\ saved[c] # None

LEMMA NotRestoredLost == NotRestored = {c \in Calls : Lost(c)}
  BY DEF NotRestored, Lost, Ended

LEMMA PairedStep ==
  ASSUME Typed, Paired, \A b \in Calls : Alone(b), NEW c \in Calls, Stages(c), StepOf(c)
  PROVE  Paired'
<1>0. NotRestored' = {b \in Calls : Lost(b)'}
  BY DEF NotRestored, Lost, Ended
<1>1. \A d \in Calls \ {c} : gpc'[d] = gpc[d] /\ saved'[d] = saved[d] /\ Same(d)
  BY OthersKept DEF Same
<1>2. gpc[c] \in {"dup"} \cup Holds => \A d \in Calls \ {c} : gpc[d] \in Quiet
  BY DEF Alone, Busy, Holds, Quiet
<1>3. \A d \in Calls \ {c} : Lost(d)' <=> Lost(d)
  BY <1>1 DEF Same, Lost
<1>4. /\ gpc[c] = "dup" => stdout \in Outside
      /\ gpc[c] \in Holds => saved[c] \in Outside
      /\ gpc[c] = "dup2" => saved[c] = stdout
      /\ gpc[c] \in Redirects => stdout = c
  <2>1. gpc[c] = "dup" => \A d \in Calls : gpc[d] \notin Redirects
    BY <1>2 DEF Quiet, Redirects
  <2> QED BY <2>1 DEF Paired, Alone
<1>5. \/ /\ stdout' = stdout
         /\ saved'[c] = saved[c] \/ (gpc[c] = "dup" /\ saved[c] = None /\ saved'[c] = stdout)
         /\ gpc'[c] = "dup2" => saved'[c] = stdout'
      \/ /\ gpc[c] = "dup2" /\ gpc'[c] = "send" /\ stdout' = c /\ saved'[c] = saved[c]
      \/ /\ gpc[c] = "restore" /\ gpc'[c] = "close"
         /\ stdout' = saved[c] /\ saved'[c] = None
  <2> USE <1>4 DEF Typed, Ranges, Stages, Holds, Redirects
  <2>1. CASE Begin(c)
    BY <2>1, <1>4 DEF Begin, names
  <2>2. CASE Stream(c)
    BY <2>2, <1>4 DEF Stream, goroutine
  <2>3. CASE Dup(c)
    BY <2>3, <1>4 DEF Dup, Moves, Fails, caller, names
  <2>4. CASE Dup2(c)
    BY <2>4, <1>4 DEF Dup2, Moves, Fails, caller, names
  <2>5. CASE DoSend(c)
    BY <2>5, <1>4 DEF DoSend, Moves, Fails, caller
  <2>6. CASE SendPanics(c)
    BY <2>6, <1>4 DEF SendPanics, goroutine, caller
  <2>7. CASE Fflush(c)
    BY <2>7, <1>4 DEF Fflush, Moves, caller, names
  <2>8. CASE Restore(c)
    BY <2>8, <1>4 DEF Restore, Moves, caller, names
  <2>9. CASE CloseW(c)
    BY <2>9, <1>4 DEF CloseW, Moves, caller, names
  <2>10. CASE PutOnClosed(c)
    BY <2>10, <1>4 DEF PutOnClosed, Moves, caller, names
  <2>11. CASE ReadAll(c)
    BY <2>11, <1>4 DEF ReadAll, Eof, goroutine, names
  <2>12. CASE Recv(c)
    BY <2>12, <1>4 DEF Recv, Moves, names
  <2>13. CASE Timeout(c)
    BY <2>13, <1>4 DEF Timeout, goroutine, names
  <2>14. CASE Deferred(c)
    BY <2>14, <1>4 DEF Deferred, names
  <2> QED BY <2>1, <2>2, <2>3, <2>4, <2>5, <2>6, <2>7, <2>8, <2>9, <2>10, <2>11, <2>12, <2>13, <2>14 DEF StepOf, Goroutine, Caller
<1>6. /\ gpc'[c] \in Holds => gpc[c] \in Holds \/ (gpc[c] = "dup" /\ saved'[c] = stdout)
      /\ Lost(c) => Lost(c)'
      /\ Lost(c)' /\ ~Lost(c) => stdout' = c /\ cpc'[c] # "recv" /\ result'[c].err # "nil"
      /\ gpc[c] \in Redirects => gpc'[c] \in Redirects \/ Lost(c)' \/ stdout' = saved[c]
  <2> USE <1>4 DEF Typed, Ranges, Stages, Holds, Redirects, Ended, Lost, IsSize
  <2>1. CASE Begin(c)
    BY <2>1, <1>4 DEF Begin, names
  <2>2. CASE Stream(c)
    BY <2>2, <1>4 DEF Stream, goroutine
  <2>3. CASE Dup(c)
    BY <2>3, <1>4 DEF Dup, Moves, Fails, caller, names
  <2>4. CASE Dup2(c)
    BY <2>4, <1>4 DEF Dup2, Moves, Fails, caller, names
  <2>5. CASE DoSend(c)
    BY <2>5, <1>4 DEF DoSend, Moves, Fails, caller
  <2>6. CASE SendPanics(c)
    BY <2>6, <1>4 DEF SendPanics, goroutine, caller
  <2>7. CASE Fflush(c)
    BY <2>7, <1>4 DEF Fflush, Moves, caller, names
  <2>8. CASE Restore(c)
    BY <2>8, <1>4 DEF Restore, Moves, caller, names
  <2>9. CASE CloseW(c)
    BY <2>9, <1>4 DEF CloseW, Moves, caller, names
  <2>10. CASE PutOnClosed(c)
    BY <2>10, <1>4 DEF PutOnClosed, Moves, caller, names
  <2>11. CASE ReadAll(c)
    BY <2>11, <1>4 DEF ReadAll, Eof, goroutine, names
  <2>12. CASE Recv(c)
    BY <2>12, <1>4 DEF Recv, Moves, names
  <2>13. CASE Timeout(c)
    BY <2>13, <1>4 DEF Timeout, goroutine, names
  <2>14. CASE Deferred(c)
    BY <2>14, <1>4 DEF Deferred, names
  <2> QED BY <2>1, <2>2, <2>3, <2>4, <2>5, <2>6, <2>7, <2>8, <2>9, <2>10, <2>11, <2>12, <2>13, <2>14 DEF StepOf, Goroutine, Caller
<1>7. Lost(c) => cpc'[c] # "recv" /\ result'[c].err # "nil"
  <2>0. Lost(c) => ~Eof(c) /\ cpc[c] # "recv" /\ result[c].err # "nil" /\ IsSize(c)
    BY NotRestoredLost DEF Paired, Held, Eof, Lost, Stages, Ended
  <2> USE DEF Typed, Ranges, Stages, Ended, Lost, IsSize
  <2>1. CASE Begin(c)
    BY <2>1, <2>0 DEF Begin, names
  <2>2. CASE Stream(c)
    BY <2>2, <2>0 DEF Stream, goroutine
  <2>3. CASE Dup(c)
    BY <2>3, <2>0 DEF Dup, Moves, Fails, caller, names
  <2>4. CASE Dup2(c)
    BY <2>4, <2>0 DEF Dup2, Moves, Fails, caller, names
  <2>5. CASE DoSend(c)
    BY <2>5, <2>0 DEF DoSend, Moves, Fails, caller
  <2>6. CASE SendPanics(c)
    BY <2>6, <2>0 DEF SendPanics, goroutine, caller
  <2>7. CASE Fflush(c)
    BY <2>7, <2>0 DEF Fflush, Moves, caller, names
  <2>8. CASE Restore(c)
    BY <2>8, <2>0 DEF Restore, Moves, caller, names
  <2>9. CASE CloseW(c)
    BY <2>9, <2>0 DEF CloseW, Moves, caller, names
  <2>10. CASE PutOnClosed(c)
    BY <2>10, <2>0 DEF PutOnClosed, Moves, caller, names
  <2>11. CASE ReadAll(c)
    BY <2>11, <2>0 DEF ReadAll, Eof, goroutine, names
  <2>12. CASE Recv(c)
    BY <2>12, <2>0 DEF Recv, Moves, names
  <2>13. CASE Timeout(c)
    BY <2>13, <2>0 DEF Timeout, goroutine, names
  <2>14. CASE Deferred(c)
    BY <2>14, <2>0 DEF Deferred, names
  <2> QED BY <2>1, <2>2, <2>3, <2>4, <2>5, <2>6, <2>7, <2>8, <2>9, <2>10, <2>11, <2>12, <2>13, <2>14 DEF StepOf, Goroutine, Caller
<1>8. \A b \in Calls : Lost(b) => Lost(b)'
  BY <1>3, <1>6
<1>9. Outside \subseteq Outside'
  BY <1>0, <1>8, NotRestoredLost DEF Outside
<1>10. ASSUME NEW b \in Calls, gpc'[b] \in Holds PROVE saved'[b] \in Outside'
  <2>1. CASE b = c
    BY <1>4, <1>5, <1>6, <1>9, <1>10, <2>1 DEF Holds
  <2>2. CASE b # c
    BY <1>1, <1>9, <1>10, <2>2 DEF Paired
  <2> QED BY <2>1, <2>2
<1>11. ASSUME NEW b \in Calls, gpc'[b] = "dup2" PROVE saved'[b] = stdout'
  <2>1. CASE b = c
    BY <1>5, <1>11, <2>1
  <2>2. CASE b # c
    <3>1. gpc[b] = "dup2" /\ saved[b] = stdout /\ saved'[b] = saved[b]
      BY <1>1, <1>11, <2>2 DEF Paired
    <3>2. gpc[c] \in Quiet
      BY <3>1, <2>2 DEF Alone, Busy, Quiet
    <3> QED BY <1>5, <3>1, <3>2 DEF Quiet
  <2> QED BY <2>1, <2>2
<1>12. stdout' \notin Outside' => \E b \in Calls : gpc'[b] \in Redirects
  <2>1. CASE stdout' = stdout
    <3>1. ASSUME stdout \notin Outside'
          PROVE  \E b \in Calls : gpc'[b] \in Redirects
      <4>1. PICK b \in Calls : gpc[b] \in Redirects
        BY <1>9, <3>1 DEF Paired
      <4>2. CASE b # c
        BY <1>1, <4>1, <4>2
      <4>3. CASE b = c
        <5>1. stdout = c /\ stdout # saved[c]
          BY <1>4, <1>9, <3>1, <4>1, <4>3 DEF Holds, Redirects
        <5>2. ~Lost(c)'
          BY <1>0, <3>1, <5>1 DEF Outside
        <5> QED BY <1>6, <2>1, <4>1, <4>3, <5>1, <5>2
      <4> QED BY <4>2, <4>3
    <3> QED BY <2>1, <3>1
  <2>2. CASE gpc'[c] = "send"
    BY <2>2 DEF Redirects
  <2>3. CASE gpc[c] = "restore" /\ stdout' = saved[c]
    BY <1>4, <1>9, <2>3 DEF Holds
  <2> QED BY <1>5, <2>1, <2>2, <2>3
<1>13. ASSUME NEW b \in NotRestored' PROVE Held(b)' /\ cpc'[b] # "recv" /\ result'[b].err # "nil"
  <2>1. b \in Calls /\ Lost(b)'
    BY <1>0, <1>13
  <2>2. CASE ~Lost(b)
    <3>1. b = c
      BY <1>3, <2>1, <2>2
    <3> QED BY <1>6, <2>1, <2>2, <3>1 DEF Held
  <2>3. CASE Lost(b)
    <3>1. Held(b) /\ cpc[b] # "recv" /\ result[b].err # "nil"
      BY <2>1, <2>3, NotRestoredLost DEF Paired
    <3>2. Held(b)'
      <4>1. CASE stdout = b
        <5>1. gpc[c] = "restore" => b # c /\ stdout = c
          BY <1>4, <2>3 DEF Lost, Ended, Redirects
        <5> QED BY <1>4, <1>5, <2>1, <4>1, <5>1 DEF Held
      <4>2. CASE stdout # b
        <5>1. PICK a \in Calls : saved[a] = b
          BY <3>1, <4>2 DEF Held
        <5>2. CASE a # c
          BY <1>1, <5>1, <5>2 DEF Held
        <5>3. CASE a = c
          BY <1>5, <2>1, <5>1, <5>3, CallsAssumption DEF Held
        <5> QED BY <5>2, <5>3
      <4> QED BY <4>1, <4>2
    <3>3. cpc'[b] # "recv" /\ result'[b].err # "nil"
      BY <1>1, <1>7, <2>1, <2>3, <3>1 DEF Same
    <3> QED BY <3>2, <3>3
  <2> QED BY <2>2, <2>3
<1> QED BY <1>10, <1>11, <1>12, <1>13 DEF Paired

LEMMA FlushedStep ==
  ASSUME Typed, Flushed, NEW c \in Calls, Stages(c), StepOf(c)
  PROVE  Flushed'
<1>1. \A d \in Calls \ {c} : gpc'[d] = gpc[d]
  BY OthersKept DEF Same
<1>2. /\ buf' # <<>> => buf # <<>> \/ gpc'[c] = "fflush"
      /\ buf' # <<>> /\ gpc[c] = "fflush" => gpc'[c] = "fflush"
  <2> USE DEF Typed, Ranges, Stages
  <2>1. CASE Begin(c)
    BY <2>1 DEF Begin, names
  <2>2. CASE Stream(c)
    BY <2>2 DEF Stream, goroutine
  <2>3. CASE Dup(c)
    BY <2>3 DEF Dup, Moves, Fails, caller, names
  <2>4. CASE Dup2(c)
    BY <2>4 DEF Dup2, Moves, Fails, caller, names
  <2>5. CASE DoSend(c)
    BY <2>5 DEF DoSend, Moves, Fails, caller
  <2>6. CASE SendPanics(c)
    BY <2>6 DEF SendPanics, goroutine, caller
  <2>7. CASE Fflush(c)
    BY <2>7 DEF Fflush, Moves, caller, names
  <2>8. CASE Restore(c)
    BY <2>8 DEF Restore, Moves, caller, names
  <2>9. CASE CloseW(c)
    BY <2>9 DEF CloseW, Moves, caller, names
  <2>10. CASE PutOnClosed(c)
    BY <2>10 DEF PutOnClosed, Moves, caller, names
  <2>11. CASE ReadAll(c)
    BY <2>11 DEF ReadAll, Eof, goroutine, names
  <2>12. CASE Recv(c)
    BY <2>12 DEF Recv, Moves, names
  <2>13. CASE Timeout(c)
    BY <2>13 DEF Timeout, goroutine, names
  <2>14. CASE Deferred(c)
    BY <2>14 DEF Deferred, names
  <2> QED BY <2>1, <2>2, <2>3, <2>4, <2>5, <2>6, <2>7, <2>8, <2>9, <2>10, <2>11, <2>12, <2>13, <2>14 DEF StepOf, Goroutine, Caller
<1> QED BY <1>1, <1>2 DEF Flushed

LEMMA NextIInv == IInv /\ [Next]_vars => IInv'
<1> SUFFICES ASSUME IInv, [Next]_vars PROVE IInv'
  OBVIOUS
<1>1. CASE UNCHANGED vars
  <2>1. Typed' /\ Flushed' /\ (mixed' = {} <=> mixed = {})
    BY <1>1 DEF vars, IInv, Typed, Ranges, Flushed
  <2>2. ASSUME NEW b \in Calls PROVE Stages(b)' = Stages(b) /\ Alone(b)' = Alone(b)
    BY <1>1 DEF vars, Stages, Alone, Busy, IsSize
  <2>3. Paired' = Paired
    BY <1>1 DEF vars, Paired, Outside, NotRestored, Held
  <2> QED BY <1>1, <2>1, <2>2, <2>3 DEF IInv, vars
<1>2. CASE Next
  <2>1. PICK c \in Calls : StepOf(c)
    BY <1>2 DEF Next, StepOf
  <2>2. Typed'
    BY <2>1, TypedStep DEF IInv
  <2>3. ASSUME NEW b \in Calls PROVE Stages(b)'
    <3>1. CASE b = c
      BY <2>1, <3>1, StagesStep DEF IInv
    <3>2. CASE b # c
      BY <2>1, <3>2, OthersKept DEF IInv, Same, Stages, IsSize
    <3> QED BY <3>1, <3>2
  <2>4. mixed \subseteq mixed'
    BY <2>1 DEF StepOf, Goroutine, Caller, Begin, Stream, Dup, Dup2, DoSend, SendPanics, Fflush, Restore,
                CloseW, PutOnClosed, ReadAll, Recv, Timeout, Deferred
  <2>5. ASSUME NEW b \in Calls \ mixed' PROVE Alone(b)'
    <3>1. Alone(b)
      BY <2>4 DEF IInv
    <3>2. CASE b = c
      BY <2>1, <3>1, <3>2, AloneStep DEF IInv
    <3>3. CASE b # c
      BY <2>1, <3>1, <3>3, AloneKept DEF IInv
    <3> QED BY <3>2, <3>3
  <2>6. mixed' = {} => Paired'
    BY <2>1, <2>4, PairedStep DEF IInv
  <2>7. Flushed'
    BY <2>1, FlushedStep DEF IInv
  <2> QED BY <2>2, <2>3, <2>5, <2>6, <2>7 DEF IInv
<1> QED BY <1>1, <1>2

LEMMA Invariance == Spec => []IInv
BY InitIInv, NextIInv, PTL DEF Spec

-----------------------------------------------------------------------------
(* A nil error is the goroutine's own, given after all that it does: no    *)
(* failed send is reported as a success (sendrecv.go:244-255, 274).        *)
THEOREM SpecNilMeansSent == Spec => []NilMeansSent
<1>1. IInv => NilMeansSent
  BY DEF IInv, Stages, NilMeansSent, Answered, Ended
<1> QED BY <1>1, Invariance, PTL

(* A call whose goroutine ran alone and that returns no error returns the  *)
(* size libzfs printed for it (zfs_test.go:200-207).                       *)
THEOREM SpecNilMeansOwnSize == Spec => []NilMeansOwnSize
<1>1. IInv => NilMeansOwnSize
  BY DEF IInv, Stages, Alone, NilMeansOwnSize, Answered
<1> QED BY <1>1, Invariance, PTL

(* While goroutines do not mix, the standard output is restored, or it is  *)
(* the pipe of a call that could not restore it and that never reports a   *)
(* success; and no estimate is left in its buffer (common.c:56-77).        *)
THEOREM SpecStdoutRestored == Spec => []StdoutRestored
<1>1. IInv => StdoutRestored
  <2> SUFFICES ASSUME IInv, mixed = {}
               PROVE  /\ Busy = {} => buf = <<>> /\ stdout \in {Terminal} \cup NotRestored
                      /\ \A c \in NotRestored : result[c].err # "nil"
    BY DEF StdoutRestored
  <2>1. Paired /\ Flushed
    BY DEF IInv
  <2>2. Busy = {} => \A c \in Calls : gpc[c] \notin Redirects
    BY DEF Busy, Redirects
  <2> QED BY <2>1, <2>2 DEF Paired, Flushed, Redirects, Outside
<1> QED BY <1>1, Invariance, PTL

-----------------------------------------------------------------------------
(* What a call came to is the outcome of its own request.                  *)
LEMMA AnswersStep == IInv /\ Answers /\ [Next]_vars => Answers'
<1> SUFFICES ASSUME IInv, Answers, [Next]_vars PROVE Answers'
  OBVIOUS
<1>1. CASE UNCHANGED vars
  BY <1>1 DEF vars, Answers
<1>2. CASE Next
  <2>1. PICK c \in Calls : StepOf(c)
    BY <1>2 DEF Next, StepOf
  <2>2. asked' = asked
    BY <2>1, OthersKept DEF IInv
  <2>3. \/ sent' = sent
        \/ \E o \in BOOLEAN : sent' = [sent EXCEPT ![c] = Outcome(asked[c], o)]
    <3>1. CASE Begin(c)
      BY <3>1 DEF Begin, names
    <3>2. CASE Stream(c)
      BY <3>2 DEF Stream, goroutine
    <3>3. CASE Dup(c)
      BY <3>3 DEF Dup, Moves, Fails, caller, names
    <3>4. CASE Dup2(c)
      BY <3>4 DEF Dup2, Moves, Fails, caller, names
    <3>5. CASE DoSend(c)
      BY <3>5 DEF DoSend, Moves, Fails, caller
    <3>6. CASE SendPanics(c)
      BY <3>6 DEF SendPanics, goroutine, caller
    <3>7. CASE Fflush(c)
      BY <3>7 DEF Fflush, Moves, caller, names
    <3>8. CASE Restore(c)
      BY <3>8 DEF Restore, Moves, caller, names
    <3>9. CASE CloseW(c)
      BY <3>9 DEF CloseW, Moves, caller, names
    <3>10. CASE PutOnClosed(c)
      BY <3>10 DEF PutOnClosed, Moves, caller, names
    <3>11. CASE ReadAll(c)
      BY <3>11 DEF ReadAll, Eof, goroutine, names
    <3>12. CASE Recv(c)
      BY <3>12 DEF Recv, Moves, names
    <3>13. CASE Timeout(c)
      BY <3>13 DEF Timeout, goroutine, names
    <3>14. CASE Deferred(c)
      BY <3>14 DEF Deferred, names
    <3> QED BY <2>1, <3>1, <3>2, <3>3, <3>4, <3>5, <3>6, <3>7, <3>8, <3>9, <3>10, <3>11, <3>12, <3>13, <3>14 DEF StepOf, Goroutine, Caller
  <2>4. sent = [b \in Calls |-> sent[b]]
    BY DEF IInv, Typed
  <2> QED BY <2>2, <2>3, <2>4 DEF Answers
<1> QED BY <1>1, <1>2

LEMMA AnswersInvariant == Spec => []Answers
<1>1. Init => Answers
  BY DEF Init, Answers
<1> QED BY <1>1, AnswersStep, Invariance, PTL DEF Spec

(* Names of two parts, and sources cut off behind the "@" in front.        *)
LEMMA TwoParts ==
  ASSUME NEW S, NEW s \in Seq(S), Len(s) = 2
  PROVE  s = <<s[1], s[2]>>
OBVIOUS

LEMMA CutOff ==
  ASSUME NEW x
  PROVE  <<"", x>> # Empty /\ Source(<<"", x>>) = <<x>>
<1>1. /\ Tail(<<"", x>>) = <<x>> /\ Len(<<"", x>>) = 2
      /\ <<"", x>>[1] = "" /\ <<"", x>> # <<"">>
  OBVIOUS
<1> QED BY <1>1 DEF Source, Empty

(* What the names of a request select, when they select anything.          *)
LEMMA SourceSelected ==
  ASSUME NEW r \in Requests, NEW o \in BOOLEAN, Outcome(r, o).kind = "send"
  PROVE  LET out == Outcome(r, o) IN
         /\ <<out.parent, out.to>> = r.path
         /\ (r.how = "Send" \/ r.from = Empty) => out.from = "nil"
         /\ (r.how # "Send" /\ WellFormed(r)) =>
               r.from[1] \in {"", r.path[1]} /\ out.from = <<r.from[2]>>
<1> DEFINE from == IF r.how = "SendFrom" THEN <<"", r.from[2]>>
                   ELSE IF r.how = "Send" THEN Empty ELSE r.from
<1>1. /\ r.path \in Seq(Parts) /\ r.from \in Seq(Parts) \ {<<>>}
  BY RequestsAssumption
<1>2. Error.kind # "send" /\ Panic.kind # "send"
  BY DEF Error, Panic
<1>3. /\ Outcome(r, o) = SendIncremental(r.path, from, o)
      /\ r.how = "SendFrom" => r.from[1] \in {"", r.path[1]} /\ Len(r.from) >= 2
  <2>1. CASE r.how = "SendFrom"
    <3>1. Outcome(r, o) = SendFrom(r.path, r.origin, r.from, o)
      BY <2>1 DEF Outcome
    <3>2. /\ r.from[1] = "" \/ r.from[1] = r.path[1]
          /\ ~(Len(r.from) < 2)
          /\ Outcome(r, o) = SendIncremental(r.path, <<"", r.from[2]>>, o)
      BY <1>2, <3>1 DEF SendFrom
    <3>3. Len(r.from) \in Nat
      BY <1>1
    <3>4. from = <<"", r.from[2]>>
      BY <2>1
    <3> HIDE DEF from
    <3>5. Len(r.from) >= 2
      <4>1. ~(Len(r.from) < 2)
        BY <3>2
      <4> QED BY <3>3, <4>1
    <3>6. r.from[1] \in {"", r.path[1]}
      BY <3>2
    <3> QED BY <3>2, <3>4, <3>5, <3>6
  <2>2. CASE r.how # "SendFrom"
    BY <2>2 DEF Outcome
  <2> QED BY <2>1, <2>2
<1>4. /\ Len(r.path) = 2
      /\ Outcome(r, o) = Sends(r.path[1], r.path[2], IF from = Empty THEN "nil" ELSE Source(from))
  <2> HIDE DEF from
  <2> QED BY <1>2, <1>3 DEF SendIncremental, IsSnap
<1>5. <<r.path[1], r.path[2]>> = r.path
  BY <1>1, <1>4, TwoParts
<1>6. r.how = "Send" \/ r.from = Empty => from = Empty
  <2>1. CASE r.how = "SendFrom"
    <3>1. Len(Empty) = 1
      BY DEF Empty
    <3>2. Len(r.from) >= 2
      BY <1>3, <2>1
    <3>3. r.from # Empty
      <4>1. ASSUME r.from = Empty PROVE FALSE
        <5>1. Len(r.from) = 1
          BY <3>1, <4>1
        <5> QED BY <3>2, <5>1
      <4> QED BY <4>1
    <3> QED BY <2>1, <3>3
  <2>2. CASE r.how # "SendFrom"
    BY <2>2
  <2> QED BY <2>1, <2>2
<1>7. ASSUME r.how # "Send", WellFormed(r)
      PROVE  r.from[1] \in {"", r.path[1]} /\ from # Empty /\ Source(from) = <<r.from[2]>>
  <2>1. Len(r.from) = 2 /\ r.from = <<r.from[1], r.from[2]>>
    BY <1>1, <1>7, TwoParts DEF WellFormed
  <2>2. from = <<"", r.from[2]>> /\ r.from[1] \in {"", r.path[1]}
    BY <1>3, <1>7, <2>1 DEF WellFormed
  <2> QED BY <2>2, CutOff
<1> HIDE DEF from
<1>8. Outcome(r, o).parent = r.path[1] /\ Outcome(r, o).to = r.path[2]
  BY <1>4 DEF Sends
<1>9. Outcome(r, o).from = IF from = Empty THEN "nil" ELSE Source(from)
  BY <1>4 DEF Sends
<1> QED BY <1>5, <1>6, <1>7, <1>8, <1>9

(* What is sent is the dataset a call is made on, from the snapshot that a *)
(* well formed source names (sendrecv.go:205-225, 233-247).                *)
THEOREM SpecSourceAsAsked == Spec => []SourceAsAsked
<1>1. IInv /\ Answers => SourceAsAsked
  <2> SUFFICES ASSUME IInv, Answers, NEW c \in Calls, sent[c].kind = "send"
               PROVE  LET r == asked[c] IN
                      /\ <<sent[c].parent, sent[c].to>> = r.path
                      /\ (r.how = "Send" \/ r.from = Empty) => sent[c].from = "nil"
                      /\ (r.how # "Send" /\ WellFormed(r)) =>
                            r.from[1] \in {"", r.path[1]} /\ sent[c].from = <<r.from[2]>>
    BY DEF SourceAsAsked
  <2>1. asked[c] \in Requests
    BY DEF IInv, Typed, Ranges
  <2>2. PICK o \in BOOLEAN : sent[c] = Outcome(asked[c], o)
    BY DEF Answers, Unsent
  <2> DEFINE r == asked[c]
             out == Outcome(r, o)
  <2>3. out.kind = "send"
    BY <2>2
  <2>4. /\ <<out.parent, out.to>> = r.path
        /\ (r.how = "Send" \/ r.from = Empty) => out.from = "nil"
        /\ (r.how # "Send" /\ WellFormed(r)) =>
              r.from[1] \in {"", r.path[1]} /\ out.from = <<r.from[2]>>
    BY <2>1, <2>3, SourceSelected
  <2>5. sent[c] = out
    BY <2>2
  <2> HIDE DEF out
  <2> QED BY <2>4, <2>5
<1> QED BY <1>1, Invariance, AnswersInvariant, PTL

=============================================================================

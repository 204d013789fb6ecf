------------------------------ MODULE SendSize ------------------------------
(***************************************************************************)
(* Dataset.SendSize (sendrecv.go) and the redirection of the process's     *)
(* standard output that it rests on (common.c).                            *)
(*                                                                         *)
(* A call makes a pipe and an unbuffered channel, and starts a goroutine.  *)
(* The goroutine puts the pipe's write end in the place of descriptor 1,   *)
(* lets libzfs print its estimate, puts descriptor 1 back, closes the      *)
(* write end and sends its error.  The call reads the pipe to its end or   *)
(* for 60 seconds, parses the first size, and receives the error.          *)
(* Descriptor 1 and the C library's buffer for it belong to the process.   *)
(*                                                                         *)
(* A call is named by c; so are its pipe and the size libzfs prints for it.*)
(* Calls of Send and SendFrom, which share with SendSize the function that *)
(* reads the names and calls zfs_send, are single steps.                   *)
(***************************************************************************)
EXTENDS SendNames, FiniteSets

CONSTANTS
  Calls,     \* calls of SendSize in a behaviour
  Deadline,  \* TRUE iff 60 seconds may pass during a read
  Terminal,  \* what descriptor 1 is before any call
  NoCall,    \* no size was found
  Requests   \* what the calls may be: function, dataset and source

None == "none"

ASSUME CallsAssumption ==
  Terminal \notin Calls /\ NoCall \notin Calls /\ None \notin Calls \cup {Terminal}
ASSUME DeadlineAssumption == Deadline \in BOOLEAN
ASSUME RequestsAssumption ==
  \A r \in Requests : /\ r.path \in Seq(Parts) /\ r.origin \in Seq(Parts)
                      /\ r.from \in Seq(Parts) \ {<<>>}

VARIABLES
  stdout,   \* what descriptor 1 refers to: Terminal or a call's pipe
  buf,      \* lines in the C library's buffer for it
  data,     \* data[c]: lines in c's pipe
  saved,    \* saved[c]: what the descriptor saved by c's goroutine refers to
  wopen,    \* wopen[c]: the write end of c's pipe is open
  gpc,      \* gpc[c]: where c's goroutine is
  tmpe,     \* tmpe[c]: its error, "nil" or "error"
  cpc,      \* cpc[c]: where the call is
  errch,    \* errch[c]: c's channel, "open" or "closed"
  result,   \* result[c]: [size, err] returned
  panicked, \* why the process has ended: "no", "closed channel" or "name"
  asked,    \* asked[c]: the request the call is made with
  sent,     \* sent[c]: what it came to: an outcome of SendNames, or Unsent
  mixed     \* calls whose goroutine ran while another's did (for the properties)

vars == <<stdout, buf, data, saved, wopen, gpc, tmpe, cpc, errch, result, panicked,
          asked, sent, mixed>>
goroutine == <<stdout, buf, saved, wopen, gpc, tmpe>>
caller == <<cpc, errch, result>>
names == <<asked, sent>>

Pending == [size |-> NoCall, err |-> "pending"]
Unsent == [kind |-> "unsent"]
IsSize(c) == asked[c].how = "SendSize"

Init ==
  /\ stdout = Terminal
  /\ buf = <<>>
  /\ data = [c \in Calls |-> <<>>]
  /\ saved = [c \in Calls |-> None]
  /\ wopen = [c \in Calls |-> FALSE]
  /\ gpc = [c \in Calls |-> "none"]
  /\ tmpe = [c \in Calls |-> "nil"]
  /\ cpc = [c \in Calls |-> "idle"]
  /\ errch = [c \in Calls |-> "open"]
  /\ result = [c \in Calls |-> Pending]
  /\ panicked = "no"
  /\ asked \in [Calls -> Requests]
  /\ sent = [c \in Calls |-> Unsent]
  /\ mixed = {}

(* The goroutines between their first dup and their last close.            *)
Busy == {c \in Calls : gpc[c] \notin {"none", "put", "done"}}

(* os.Pipe, then go func.                                                  *)
Begin(c) ==
  /\ cpc[c] = "idle" /\ IsSize(c)
  /\ cpc' = [cpc EXCEPT ![c] = "read"]
  /\ wopen' = [wopen EXCEPT ![c] = TRUE]
  /\ gpc' = [gpc EXCEPT ![c] = "dup"]
  /\ mixed' = mixed \cup IF Busy = {} THEN {} ELSE Busy \cup {c}
  /\ UNCHANGED <<stdout, buf, data, saved, tmpe, errch, result, panicked, names>>

-----------------------------------------------------------------------------
(* The goroutine.                                                          *)
Moves(c, from, to) == gpc[c] = from /\ gpc' = [gpc EXCEPT ![c] = to]
Fails(c) == tmpe' = [tmpe EXCEPT ![c] = "error"]

(* save = dup(STDOUT_FILENO)                                               *)
Dup(c) ==
  /\ \/ /\ Moves(c, "dup", "dup2")
        /\ saved' = [saved EXCEPT ![c] = stdout]
        /\ UNCHANGED tmpe
     \/ /\ Moves(c, "dup", "close")
        /\ Fails(c)
        /\ UNCHANGED saved
  /\ UNCHANGED <<stdout, buf, data, wopen, caller, panicked, names, mixed>>

(* dup2(to, STDOUT_FILENO); when it fails the saved descriptor stays open. *)
Dup2(c) ==
  /\ \/ /\ Moves(c, "dup2", "send")
        /\ stdout' = c
        /\ UNCHANGED tmpe
     \/ /\ Moves(c, "dup2", "close")
        /\ Fails(c)
        /\ UNCHANGED stdout
  /\ UNCHANGED <<buf, data, saved, wopen, caller, panicked, names, mixed>>

(* d.send: libzfs prints the estimate, or the call fails without one, as   *)
(* it must when the names are refused.                                     *)
DoSend(c) ==
  /\ Moves(c, "send", "fflush")
  /\ \E opened \in BOOLEAN :
       LET out == Outcome(asked[c], opened) IN
       /\ out # Panic
       /\ sent' = [sent EXCEPT ![c] = out]
       /\ \/ out # Error /\ buf' = Append(buf, c) /\ UNCHANGED tmpe
          \/ Fails(c) /\ UNCHANGED buf
  /\ UNCHANGED <<stdout, data, saved, wopen, caller, panicked, asked, mixed>>

(* d.send reads behind the parts of the name.                              *)
SendPanics(c) ==
  /\ gpc[c] = "send"
  /\ Outcome(asked[c], TRUE) = Panic
  /\ panicked' = "name"
  /\ sent' = [sent EXCEPT ![c] = Panic]
  /\ UNCHANGED <<goroutine, data, caller, asked, mixed>>

(* Mutant: nothing is flushed.                                             *)
FflushForgotten(c) ==
  /\ Moves(c, "fflush", "restore")
  /\ UNCHANGED <<stdout, buf, data, saved, wopen, tmpe, caller, panicked, names, mixed>>

(* fflush(stdout); what reaches the terminal, or a pipe that nobody reads  *)
(* any more, is of no further interest.                                    *)
Fflush(c) ==
  /\ Moves(c, "fflush", "restore")
  /\ data' = IF stdout = Terminal THEN data ELSE [data EXCEPT ![stdout] = @ \o buf]
  /\ buf' = <<>>
  /\ UNCHANGED <<stdout, saved, wopen, tmpe, caller, panicked, names, mixed>>

(* Mutant: the saved descriptor is closed before it is put back.           *)
RestoreClosesFirst(c) ==
  /\ Moves(c, "restore", "close")
  /\ saved' = [saved EXCEPT ![c] = None]
  /\ UNCHANGED <<stdout, buf, data, wopen, tmpe, caller, panicked, names, mixed>>

(* dup2(saved, STDOUT_FILENO); close(saved).  When dup2 fails, descriptor  *)
(* 1 stays the pipe and the saved one stays open; the goroutine, which     *)
(* does not look at the result, goes on as if nothing was wrong.           *)
Restore(c) ==
  /\ Moves(c, "restore", "close")
  /\ \/ /\ stdout' = saved[c]
        /\ saved' = [saved EXCEPT ![c] = None]
     \/ UNCHANGED <<stdout, saved>>
  /\ UNCHANGED <<buf, data, wopen, tmpe, caller, panicked, names, mixed>>

CloseW(c) ==
  /\ Moves(c, "close", "put")
  /\ wopen' = [wopen EXCEPT ![c] = FALSE]
  /\ UNCHANGED <<stdout, buf, data, saved, tmpe, caller, panicked, names, mixed>>

(* errch <- tmpe when the call has closed errch.                           *)
PutOnClosed(c) ==
  /\ Moves(c, "put", "done")
  /\ errch[c] = "closed"
  /\ panicked' = "closed channel"
  /\ UNCHANGED <<stdout, buf, data, saved, wopen, tmpe, caller, names, mixed>>

-----------------------------------------------------------------------------
(* Send and SendFrom, from beginning to end.                               *)
Stream(c) ==
  /\ cpc[c] = "idle" /\ ~IsSize(c)
  /\ cpc' = [cpc EXCEPT ![c] = "returned"]
  /\ \E opened \in BOOLEAN, ok \in BOOLEAN :
       LET out == Outcome(asked[c], opened) IN
       /\ sent' = [sent EXCEPT ![c] = out]
       /\ panicked' = IF out = Panic THEN "name" ELSE panicked
       /\ result' = [result EXCEPT ![c].err = IF out.kind = "send" /\ ok THEN "nil" ELSE "error"]
  /\ UNCHANGED <<goroutine, data, errch, asked, mixed>>

-----------------------------------------------------------------------------
(* The call.                                                               *)

(* Every descriptor for the write end is closed.                           *)
Eof(c) == ~wopen[c] /\ stdout # c /\ \A b \in Calls : saved[b] # c

(* ioutil.ReadAll returns, the first size is parsed.                       *)
ReadAll(c) ==
  /\ cpc[c] = "read" /\ Eof(c)
  /\ cpc' = [cpc EXCEPT ![c] = "recv"]
  /\ result' = [result EXCEPT ![c].size = IF data[c] = <<>> THEN NoCall ELSE Head(data[c])]
  /\ UNCHANGED <<goroutine, data, errch, panicked, names, mixed>>

(* err = <-errch                                                           *)
Recv(c) ==
  /\ cpc[c] = "recv"
  /\ Moves(c, "put", "done")
  /\ cpc' = [cpc EXCEPT ![c] = "defer"]
  /\ result' = [result EXCEPT ![c].err = tmpe[c]]
  /\ UNCHANGED <<stdout, buf, data, saved, wopen, tmpe, errch, panicked, names, mixed>>

(* Mutants: no deadline is set; its error is dropped.                      *)
TimeoutNever(c) == FALSE

TimeoutAsNil(c) ==
  /\ Deadline
  /\ cpc[c] = "read"
  /\ cpc' = [cpc EXCEPT ![c] = "defer"]
  /\ result' = [result EXCEPT ![c].err = "nil"]
  /\ UNCHANGED <<goroutine, data, errch, panicked, names, mixed>>

(* The read deadline passes: the function returns its error.               *)
Timeout(c) ==
  /\ Deadline
  /\ cpc[c] = "read"
  /\ cpc' = [cpc EXCEPT ![c] = "defer"]
  /\ result' = [result EXCEPT ![c].err = "error"]
  /\ UNCHANGED <<goroutine, data, errch, panicked, names, mixed>>

(* The deferred functions: close the read end; receive if the goroutine is *)
(* waiting to send; close errch.                                           *)
Deferred(c) ==
  /\ cpc[c] = "defer"
  /\ cpc' = [cpc EXCEPT ![c] = "returned"]
  /\ IF gpc[c] = "put" THEN gpc' = [gpc EXCEPT ![c] = "done"] ELSE UNCHANGED gpc
  /\ errch' = [errch EXCEPT ![c] = "closed"]
  /\ UNCHANGED <<stdout, buf, data, saved, wopen, tmpe, result, panicked, names, mixed>>

Goroutine(c) ==
  \/ Dup(c) \/ Dup2(c) \/ DoSend(c) \/ SendPanics(c) \/ Fflush(c)
  \/ Restore(c) \/ CloseW(c) \/ PutOnClosed(c)

Caller(c) == ReadAll(c) \/ Recv(c) \/ Timeout(c) \/ Deferred(c)

(* A panic in a goroutine ends the process.                                *)
Next ==
  /\ panicked = "no"
  /\ \E c \in Calls : Begin(c) \/ Stream(c) \/ Goroutine(c) \/ Caller(c)

(* Both sides of a call are scheduled, and a deadline that may pass does.  *)
Fairness ==
  \A c \in Calls : /\ WF_vars(panicked = "no" /\ Goroutine(c))
                   /\ WF_vars(panicked = "no" /\ Caller(c))

Spec == Init /\ [][Next]_vars /\ Fairness

-----------------------------------------------------------------------------
Returned(c) == cpc[c] = "returned"
Answered(c) == Returned(c) /\ IsSize(c)

(* "if err != nil ... if size <= 0 ... Failed to fetch size"               *)
(* (zfs_test.go:200-207): a nil error comes with the size that libzfs      *)
(* printed for this snapshot, not with none and not with another's, unless *)
(* the goroutine of another call, one that timed out included, ran at the  *)
(* same time.                                                              *)
NilMeansOwnSize ==
  \A c \in Calls \ mixed : Answered(c) /\ result[c].err = "nil" => result[c].size = c

(* A nil error comes from the call's own goroutine, after everything it    *)
(* does: a failed send is not reported as a success, however calls overlap *)
(* and time out (sendrecv.go:244-255, 274).                                *)
NilMeansSent ==
  \A c \in Calls : Answered(c) /\ result[c].err = "nil" =>
    gpc[c] = "done" /\ tmpe[c] = "nil" /\ sent[c].kind = "send" /\ ~wopen[c]

(* redirect_libzfs_stdout and restore_libzfs_stdout (common.c:56-77) are   *)
(* used in a pair: while goroutines do not mix, the program prints where   *)
(* it printed before once they have ended, and nothing of an estimate is   *)
(* left for it to print.  Excepted is a restoration that failed: the       *)
(* program then prints into the pipe of such a call.  Nobody looks at that *)
(* failure (sendrecv.go:251), but it does not pass for a success: the pipe *)
(* has no end, and the call can only give up with an error.                *)
NotRestored ==
  {c \in Calls : gpc[c] \in {"close", "put", "done"} /\ sent[c] # Unsent /\ saved[c] # None}

StdoutRestored ==
  mixed = {} =>
    /\ Busy = {} => buf = <<>> /\ stdout \in {Terminal} \cup NotRestored
    /\ \A c \in NotRestored : result[c].err # "nil"

(* "Incremental source must be in same filesystem" (sendrecv.go:213): what *)
(* is sent is the dataset it was asked of, and, with a well formed source, *)
(* the source is the snapshot it names, of the same filesystem.  SendSize  *)
(* and send look at no filesystem, so of them that is said of a name that  *)
(* has none.                                                               *)
WellFormed(r) == Len(r.from) = 2 /\ (r.from[1] = "" \/ r.how = "SendFrom")

SourceAsAsked ==
  \A c \in Calls :
    LET r == asked[c] IN
    sent[c].kind = "send" =>
      /\ <<sent[c].parent, sent[c].to>> = r.path
      /\ (r.how = "Send" \/ r.from = Empty) => sent[c].from = "nil"
      /\ (r.how # "Send" /\ WellFormed(r)) =>
            r.from[1] \in {"", r.path[1]} /\ sent[c].from = <<r.from[2]>>

(* Every call returns, or the process has ended: a pipe that another       *)
(* call's saved descriptor keeps open, or that has stayed descriptor 1, is *)
(* given up at the deadline (sendrecv.go:257).                             *)
EveryCallReturns == \A c \in Calls : cpc[c] = "read" ~> (Returned(c) \/ panicked # "no")

(* "SendSize - estimate snapshot size to transfer" (sendrecv.go:225), with *)
(* a result (size int64, err error): a call that gives up reports an       *)
(* error, and the answer that comes too late does no harm.                 *)
LateAnswerHarmless == panicked # "closed channel"
=============================================================================

------------------------------- MODULE Streams -------------------------------
(***************************************************************************)
(* How the answer of a streaming actor reaches the caller: the actor       *)
(* writes into an io.Pipe, the HTTP server of its environment copies the   *)
(* pipe into a response (server.go, invokeDirect), the environment that    *)
(* was called copies that response into its own (server.go, invoke, over   *)
(* http_client.go), and the caller reads it.                               *)
(*                                                                         *)
(* link[s][1] is the pipe and link[s][h] for h > 1 the HTTP response       *)
(* between handler h - 1 and its reader: handler h or, at the end, the     *)
(* caller.  `n` counts the pieces that have been read from it, `end` says  *)
(* what its reader has seen.                                               *)
(***************************************************************************)
EXTENDS Integers

CONSTANTS
    Streams,        \* the answers under way
    Hops,           \* HTTP handlers between actor and caller
    StreamFaults,   \* which of "timeout", "crash" and "disconnect" may happen
    MaxFaults       \* bound: faults in one behaviour

ASSUME StreamsAssumption ==
    /\ Hops \in Nat \ {0} /\ MaxFaults \in Nat
    /\ StreamFaults \subseteq {"timeout", "crash", "disconnect"}

VARIABLES
    link,           \* stream -> link -> what its reader has seen
    faults          \* faults so far

Links == 1 .. Hops + 1
Handlers == 1 .. Hops

(***************************************************************************)
(* open: more may come; eof: the answer is complete; error: reading        *)
(* failed; closed: the reader has given up (Close, or the end of its       *)
(* process).                                                               *)
(***************************************************************************)
Ends == {"open", "eof", "error", "closed"}

LinkState == [n: Nat, end: Ends]

InitStreams ==
    /\ link = [s \in Streams |-> [h \in Links |-> [n |-> 0, end |-> "open"]]]
    /\ faults = 0

StreamFault(f) == f \in StreamFaults /\ faults < MaxFaults /\ faults' = faults + 1

SetEnd(s, h, e) == link' = [link EXCEPT ![s][h].end = e]

(* A piece goes through: handler h - 1 writes what it has read. *)
Copy(s, h) ==
    /\ h > 1
    /\ link[s][h].end = "open"
    /\ link[s][h - 1].end # "closed"
    /\ link[s][h].n < link[s][h - 1].n
    /\ link' = [link EXCEPT ![s][h].n = @ + 1]
    /\ UNCHANGED faults

(* io.Copy has returned nil: the handler returns and the response ends. *)
Return(s, h) ==
    /\ link[s][h].end = "eof"
    /\ link[s][h + 1].end = "open" /\ link[s][h + 1].n = link[s][h].n
    /\ SetEnd(s, h + 1, "eof")
    /\ UNCHANGED faults

(* A variant: the handler returns after an error as it does after success. *)
TerminateNot(s, h) ==
    /\ link[s][h].end = "error"
    /\ link[s][h + 1].end = "open" /\ link[s][h + 1].n = link[s][h].n
    /\ SetEnd(s, h + 1, "eof")
    /\ UNCHANGED faults

(***************************************************************************)
(* io.Copy has failed to read: terminateConnection.  What was written      *)
(* before and not read yet may be lost with the connection.                *)
(***************************************************************************)
Terminate(s, h) ==
    /\ link[s][h].end = "error"
    /\ link[s][h + 1].end = "open"
    /\ SetEnd(s, h + 1, "error")
    /\ UNCHANGED faults

(***************************************************************************)
(* io.Copy fails to write since the reader is gone: terminateConnection,   *)
(* and the deferred result.Close().  A handler that waits for its source   *)
(* does not notice.                                                        *)
(***************************************************************************)
GiveUp(s, h) ==
    /\ link[s][h].end = "open"
    /\ link[s][h + 1].end \in {"closed", "error"}
    /\ link[s][h + 1].n < link[s][h].n
    /\ SetEnd(s, h, "closed")
    /\ UNCHANGED faults

(* The context of the request to the next handler expires (5 s). *)
Timeout(s, h) ==
    /\ h > 1
    /\ link[s][h].end = "open"
    /\ StreamFault("timeout")
    /\ SetEnd(s, h, "error")

(* The process of a handler that only passes the answer on ends. *)
CrashHandler(s, h) ==
    /\ h > 1
    /\ link[s][h].end = "open" /\ link[s][h + 1].end = "open"
    /\ StreamFault("crash")
    /\ link' = [link EXCEPT ![s][h].end = "closed", ![s][h + 1].end = "error"]

(* The caller goes away. *)
Disconnect(s) ==
    /\ link[s][Hops + 1].end = "open"
    /\ StreamFault("disconnect")
    /\ SetEnd(s, Hops + 1, "closed")

Pass(s) ==
    \/ \E h \in Links: Copy(s, h)
    \/ \E h \in Handlers: Return(s, h) \/ Terminate(s, h) \/ GiveUp(s, h)

Break(s) ==
    \/ \E h \in Handlers: Timeout(s, h) \/ CrashHandler(s, h)
    \/ Disconnect(s)

(* The caller's end of a stream: everything is read, or it knows of an error. *)
Settled(s) == link[s][Hops + 1].end # "open"

TypeOKStreams ==
    /\ link \in [Streams -> [Links -> LinkState]]
    /\ faults \in 0 .. MaxFaults
=============================================================================

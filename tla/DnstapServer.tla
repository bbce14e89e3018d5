---------------------------- MODULE DnstapServer ----------------------------
(***************************************************************************)
(* The DNSTAP server of internal/adapter/inbound/dnstap/server.go: a       *)
(* goroutine that accepts connections, one goroutine per connection that   *)
(* decodes frames and passes each event to the pipeline, and Stop.  Stop   *)
(* waits for none of them.                                                 *)
(*                                                                         *)
(* A frame is the event decodeToEvent makes of it, or a frame without a    *)
(* message, for which it returns nil.                                      *)
(***************************************************************************)
EXTENDS Naturals, FiniteSets

CONSTANTS
  Conns,     \* the connections that clients may open
  Events,    \* the frames they may send
  Empty,     \* those without a message; each of the others is sent once
  NoFrame    \* what a handler holds before it has decoded a frame

ASSUME ServerAssumption == Empty \subseteq Events /\ NoFrame \notin Events

VARIABLES
  stop,        \* what Stop has ended so far: the "context", the "listener"
  acceptor,    \* acceptLoop: "accepting" or "returned"
  handler,     \* where each handleConn is
  frame,       \* the frame each handler has decoded
  delivered,   \* events passed to pipeline.Process
  late         \* per handler, frames it decoded with Stop already behind it

vars == <<stop, acceptor, handler, frame, delivered, late>>

Points == {"absent", "handshake", "check", "decode", "deliver", "returned"}

TypeOK ==
  /\ stop \subseteq {"context", "listener"}
  /\ acceptor \in {"accepting", "returned"}
  /\ handler \in [Conns -> Points]
  /\ frame \in [Conns -> (Events \ Empty) \cup {NoFrame}]
  /\ delivered \subseteq Events \ Empty
  /\ late \in [Conns -> Nat]

\* Start has a listener and has launched acceptLoop.
Init ==
  /\ stop = {}
  /\ acceptor = "accepting"
  /\ handler = [c \in Conns |-> "absent"]
  /\ frame = [c \in Conns |-> NoFrame]
  /\ delivered = {}
  /\ late = [c \in Conns |-> 0]

-----------------------------------------------------------------------------
(* acceptLoop *)

Accept(c) ==
  /\ acceptor = "accepting" /\ "listener" \notin stop
  /\ handler[c] = "absent"
  /\ handler' = [handler EXCEPT ![c] = "handshake"]
  /\ UNCHANGED <<stop, acceptor, frame, delivered, late>>

\* ctx.Done() is closed.
Cancelled == "context" \in stop

\* Accept fails: the listener is closed, or there is an error that the loop only
\* logs.  Which of the two it is, the loop tells by the context.
AcceptFails ==
  /\ acceptor = "accepting"
  /\ acceptor' = IF Cancelled THEN "returned" ELSE "accepting"
  /\ UNCHANGED <<stop, handler, frame, delivered, late>>

-----------------------------------------------------------------------------
(* handleConn *)

Goto(c, from, to) == handler[c] = from /\ handler' = [handler EXCEPT ![c] = to]

\* framestream.NewReader succeeds, or fails (after its 10 s timeout if need be)
Handshake(c) ==
  /\ Goto(c, "handshake", "check") \/ Goto(c, "handshake", "returned")
  /\ UNCHANGED <<stop, acceptor, frame, delivered, late>>

\* select on ctx.Done() with a default
Check(c) ==
  /\ Goto(c, "check", IF Cancelled THEN "returned" ELSE "decode")
  /\ UNCHANGED <<stop, acceptor, frame, delivered, late>>

Arrived == delivered \cup {frame[c] : c \in Conns}

\* decoder.Decode returns a frame; nothing interrupts the wait for one
Decode(c, e) ==
  /\ e \notin Arrived
  /\ Goto(c, "decode", IF e \in Empty THEN "check" ELSE "deliver")
  /\ frame' = [frame EXCEPT ![c] = IF e \in Empty THEN NoFrame ELSE e]
  /\ late' = IF Cancelled THEN [late EXCEPT ![c] = @ + 1] ELSE late
  /\ UNCHANGED <<stop, acceptor, delivered>>

\* the client has closed the connection, or the frame is not one
DecodeFails(c) ==
  /\ Goto(c, "decode", "returned")
  /\ UNCHANGED <<stop, acceptor, frame, delivered, late>>

\* s.pipeline.Process(*event), whose result is ignored
Deliver(c) ==
  /\ Goto(c, "deliver", "check")
  /\ delivered' = delivered \cup {frame[c]}
  /\ frame' = [frame EXCEPT ![c] = NoFrame]
  /\ UNCHANGED <<stop, acceptor, late>>

Handler(c) ==
  \/ Handshake(c) \/ Check(c) \/ DecodeFails(c) \/ Deliver(c)
  \/ \E e \in Events : Decode(c, e)

-----------------------------------------------------------------------------
(* Stop *)

\* s.cancel()
CancelServer ==
  /\ ~Cancelled
  /\ stop' = stop \cup {"context"}
  /\ UNCHANGED <<acceptor, handler, frame, delivered, late>>

CloseListenerFirst ==   \* mutant of CloseListener: may come before s.cancel()
  /\ "listener" \notin stop
  /\ stop' = stop \cup {"listener"}
  /\ UNCHANGED <<acceptor, handler, frame, delivered, late>>

Stopped == stop = {"context", "listener"}

\* s.ln.Close()
CloseListener ==
  /\ stop = {"context"}
  /\ stop' = stop \cup {"listener"}
  /\ UNCHANGED <<acceptor, handler, frame, delivered, late>>

-----------------------------------------------------------------------------
\* All goroutines may be blocked in Decode or have returned.
Quiet == Stopped /\ acceptor = "returned" /\ UNCHANGED vars

Next ==
  \/ \E c \in Conns : Accept(c) \/ Handler(c)
  \/ AcceptFails
  \/ CancelServer \/ CloseListener
  \/ Quiet

Spec == Init /\ [][Next]_vars

-----------------------------------------------------------------------------
(* Properties *)

\* Stop does not interrupt a handler that waits in Decode; that handler passes
\* on at most one more event, so at most one event per open connection reaches
\* the pipeline after Stop has returned.  With that one, it is past its last Decode.
OneLateFrame ==
  \A c \in Conns : late[c] # 0 => late[c] = 1 /\ Cancelled /\ handler[c] # "decode"

\* A frame is in the hands of at most one handler, and is not there any more
\* once it has been delivered: no event is offered to the pipeline twice.
OfferedOnce ==
  /\ \A c \in Conns : frame[c] \notin delivered
  /\ \A c, d \in Conns : frame[c] = frame[d] /\ frame[c] # NoFrame => c = d
  /\ \A c \in Conns : frame[c] # NoFrame <=> handler[c] = "deliver"

\* The accept loop never runs on over a closed listener, logging an error at every
\* turn: whenever Accept can fail for good, the context says so already.
NoSpin == acceptor = "accepting" /\ "listener" \in stop => Cancelled

\* All three, and the types: a handler offers each frame once, and at most one of
\* them after Stop, and the accept loop ends with its listener.
ServerInv == TypeOK /\ OneLateFrame /\ OfferedOnce /\ NoSpin
=============================================================================

------------------------------ MODULE Servers ------------------------------
(***************************************************************************)
(* The process of `goalruntime -mode server`: main starts the gRPC and the *)
(* HTTP server, waits for a signal and stops them (cmd/main.go), while     *)
(* streams of both servers read the event log (grpc/server.go,             *)
(* http/server.go, runtime/event_log.go).  The log counts its length in    *)
(* identifiers and reads by position: an identifier spent on a failed      *)
(* append leaves it shorter than its length.                               *)
(***************************************************************************)
EXTENDS Integers, Sequences, FiniteSets

LOCAL INSTANCE SequencesExt

CONSTANTS
  HTTPStreams, GRPCStreams,  \* the clients that may hold a stream
  MaxID                      \* bound on identifiers

VARIABLES
  phase,      \* where main is
  grpc, http, \* the field s.server: "nil", "up" or "stopping"
  closed,     \* shutdownCh is closed
  ids,        \* the identifiers of the events in memory, by position
  nextID,
  streams     \* streams[s]: [at, last, length, sent]

vars == <<phase, grpc, http, closed, ids, nextID, streams>>

Streams == HTTPStreams \cup GRPCStreams
Idle == [at |-> "off", last |-> 0, length |-> 0, sent |-> << >>]

Init ==
  /\ phase = "startGRPC"
  /\ grpc = "nil" /\ http = "nil" /\ closed = FALSE
  /\ ids = << >> /\ nextID = 1
  /\ streams = [s \in Streams |-> Idle]

-----------------------------------------------------------------------------
(* The event log. *)

Length == nextID - 1
Panics == <<-1>>

\* Range: the events at positions start to end.  Beyond the last event there is a zero one
\* (identifier 0) while the slice has room, and a panic when it has none.
RangeRead(start, end) ==
  LET from == IF start = 0 THEN 1 ELSE start
      to   == IF end > Length THEN Length ELSE end
      read == [i \in 1..(to - from + 1) |->
                 IF from + i - 1 \in DOMAIN ids THEN ids[from + i - 1] ELSE 0]
  IN  IF to <= Len(ids) THEN {read} ELSE {read, Panics}

\* SubmitEvent; `failed` identifiers were spent on failed appends before it.
AppendEvent(failed) ==
  /\ nextID + failed <= MaxID
  /\ ids' = Append(ids, nextID + failed)
  /\ nextID' = nextID + failed + 1
  /\ UNCHANGED <<phase, grpc, http, closed, streams>>

-----------------------------------------------------------------------------
(* HTTP streams. *)

Connect(s) ==
  /\ IF s \in HTTPStreams THEN http = "up" ELSE grpc = "up"
  /\ streams[s].at = "off"
  /\ streams' = [streams EXCEPT ![s] = [Idle EXCEPT !.at = "wait"]]
  /\ UNCHANGED <<phase, grpc, http, closed, ids, nextID>>

\* The client goes, or a write comes after the server's write timeout.
Disconnect(s) ==
  /\ streams[s].at = "wait"
  /\ streams' = [streams EXCEPT ![s].at = "off"]
  /\ UNCHANGED <<phase, grpc, http, closed, ids, nextID>>

\* A tick finds the log longer than lastID.
HTTPLook(s) ==
  /\ streams[s].at = "wait" /\ Length > streams[s].last
  /\ streams' = [streams EXCEPT ![s].at = "read", ![s].length = Length]
  /\ UNCHANGED <<phase, grpc, http, closed, ids, nextID>>

\* Mutant: the length is taken anew for lastID.
HTTPReadFresh(s) ==
  /\ streams[s].at = "read"
  /\ \E batch \in RangeRead(streams[s].last, streams[s].length) :
       streams' = [streams EXCEPT
         ![s].at = IF batch = Panics THEN "off" ELSE "wait",
         ![s].last = Length,
         ![s].sent = IF batch = Panics THEN @ ELSE @ \o batch]
  /\ UNCHANGED <<phase, grpc, http, closed, ids, nextID>>

\* Mutant: a panic of the handler is not recovered.
HTTPReadUnrecovered(s) ==
  /\ streams[s].at = "read"
  /\ \E batch \in RangeRead(streams[s].last, streams[s].length) :
       /\ phase' = IF batch = Panics THEN "died" ELSE phase
       /\ streams' = [streams EXCEPT ![s].at = "wait"]
  /\ UNCHANGED <<grpc, http, closed, ids, nextID>>

\* The events from lastID on, that one again; RecoveryMiddleware ends only the request.
HTTPRead(s) ==
  /\ streams[s].at = "read"
  /\ \E batch \in RangeRead(streams[s].last, streams[s].length) :
       streams' = [streams EXCEPT
         ![s].at = IF batch = Panics THEN "off" ELSE "wait",
         ![s].last = streams[s].length,
         ![s].sent = IF batch = Panics THEN @ ELSE @ \o batch]
  /\ UNCHANGED <<phase, grpc, http, closed, ids, nextID>>

-----------------------------------------------------------------------------
(* gRPC streams: each tick sends the log from its first event on. *)

GRPCLook(s) ==
  /\ streams[s].at = "wait" /\ Length > 0
  /\ streams' = [streams EXCEPT ![s].at = "read", ![s].length = Length]
  /\ UNCHANGED <<phase, grpc, http, closed, ids, nextID>>

\* Nothing recovers a panic of the handler.
GRPCRead(s) ==
  /\ streams[s].at = "read"
  /\ \E batch \in RangeRead(0, streams[s].length) :
       IF batch = Panics
       THEN phase' = "died" /\ UNCHANGED streams
       ELSE streams' = [streams EXCEPT ![s].at = "send", ![s].sent = batch] /\ UNCHANGED phase
  /\ UNCHANGED <<grpc, http, closed, ids, nextID>>

\* Send waits for a client that does not read.
GRPCSent(s) ==
  /\ streams[s].at = "send"
  /\ streams' = [streams EXCEPT ![s].at = "wait"]
  /\ UNCHANGED <<phase, grpc, http, closed, ids, nextID>>

GRPCExit(s) ==
  /\ streams[s].at = "wait" /\ closed
  /\ streams' = [streams EXCEPT ![s].at = "off"]
  /\ UNCHANGED <<phase, grpc, http, closed, ids, nextID>>

-----------------------------------------------------------------------------
(* main. *)

\* Listening may fail, which is logged and leaves s.server nil.
StartGRPC ==
  /\ phase = "startGRPC" /\ phase' = "startHTTP"
  /\ grpc' \in {"nil", "up"}
  /\ UNCHANGED <<http, closed, ids, nextID, streams>>

StartHTTP ==
  /\ phase = "startHTTP" /\ phase' = "serving"
  /\ http' \in {"nil", "up"}
  /\ UNCHANGED <<grpc, closed, ids, nextID, streams>>

\* waitForShutdown
Signal ==
  /\ phase = "serving" /\ phase' = "stopGRPC"
  /\ UNCHANGED <<grpc, http, closed, ids, nextID, streams>>

\* Mutant: the streams are not told.
StopGRPCSilently ==
  /\ phase = "stopGRPC"
  /\ phase' = IF grpc = "nil" THEN "died" ELSE "drainGRPC"
  /\ grpc' = IF grpc = "nil" THEN grpc ELSE "stopping"
  /\ UNCHANGED <<http, closed, ids, nextID, streams>>

\* grpcServer.Stop: GracefulStop of a nil server panics.
StopGRPC ==
  /\ phase = "stopGRPC"
  /\ closed' = TRUE
  /\ phase' = IF grpc = "nil" THEN "died" ELSE "drainGRPC"
  /\ grpc' = IF grpc = "nil" THEN grpc ELSE "stopping"
  /\ UNCHANGED <<http, ids, nextID, streams>>

\* GracefulStop returns when no call is left.
GRPCDrained ==
  /\ phase = "drainGRPC" /\ phase' = "stopHTTP"
  /\ \A s \in GRPCStreams : streams[s].at = "off"
  /\ UNCHANGED <<grpc, http, closed, ids, nextID, streams>>

\* httpServer.Stop: Shutdown of a nil server panics.
StopHTTP ==
  /\ phase = "stopHTTP"
  /\ phase' = IF http = "nil" THEN "died" ELSE "drainHTTP"
  /\ http' = IF http = "nil" THEN http ELSE "stopping"
  /\ UNCHANGED <<grpc, closed, ids, nextID, streams>>

\* Shutdown returns when no request is left, or after ten seconds.  Streams go on.
HTTPDrained ==
  /\ phase = "drainHTTP" /\ phase' = "stopRuntime"
  /\ UNCHANGED <<grpc, http, closed, ids, nextID, streams>>

\* rt.Stop, and main returns.
StopRuntime ==
  /\ phase = "stopRuntime" /\ phase' = "ended"
  /\ UNCHANGED <<grpc, http, closed, ids, nextID, streams>>

-----------------------------------------------------------------------------
Over == phase \in {"ended", "died"}

Main == StartGRPC \/ StartHTTP \/ StopGRPC \/ GRPCDrained \/ StopHTTP \/ HTTPDrained \/ StopRuntime

Next ==
  /\ ~Over
  /\ \/ Main \/ Signal
     \/ \E failed \in 0..1 : AppendEvent(failed)
     \/ \E s \in Streams : Connect(s) \/ Disconnect(s)
     \/ \E s \in HTTPStreams : HTTPLook(s) \/ HTTPRead(s)
     \/ \E s \in GRPCStreams : GRPCLook(s) \/ GRPCRead(s) \/ GRPCSent(s) \/ GRPCExit(s)

\* main and the handlers run.  A select whose two channels are ready takes either, so a
\* stream that comes back to it again and again sees shutdownCh.  Nothing makes a signal
\* come, a client read or a client go.
Fairness ==
  /\ WF_vars(~Over /\ Main)
  /\ \A s \in GRPCStreams : WF_vars(~Over /\ GRPCRead(s)) /\ SF_vars(~Over /\ GRPCExit(s))

Spec == Init /\ [][Next]_vars /\ Fairness

-----------------------------------------------------------------------------
(* Properties. *)

\* Shape of the state.
TypeOK ==
  /\ phase \in {"startGRPC", "startHTTP", "serving", "stopGRPC", "drainGRPC", "stopHTTP",
                "drainHTTP", "stopRuntime", "ended", "died"}
  /\ {grpc, http} \subseteq {"nil", "up", "stopping"} /\ closed \in BOOLEAN
  /\ ids \in Seq(1..MaxID) /\ nextID \in 1..(MaxID + 1)
  /\ \A s \in Streams :
       /\ streams[s].at \in {"off", "wait", "read", "send"}
       /\ streams[s].sent \in Seq(0..MaxID)
       /\ {streams[s].last, streams[s].length} \subseteq 0..MaxID

\* http/server.go:343-373: as long as no identifier was lost, a stream has sent every event
\* up to lastID, in order, and each at most twice, whatever was appended between the length
\* and the range it reads.
StreamsMissNothing ==
  Length = Len(ids) => \A s \in HTTPStreams :
    LET sent == streams[s].sent
    IN  /\ {sent[i] : i \in DOMAIN sent} = 1..streams[s].last
        /\ \A i, j \in DOMAIN sent : i < j => sent[i] <= sent[j]
        /\ \A i, j, k \in DOMAIN sent : i < j /\ j < k => sent[i] < sent[k]

\* main.go:157,162,627-629, event_log.go:168: what ends the process before rt.Stop is the
\* stop of a server that never listened, or a gRPC stream that reads a log with a hole.
DeathExplained ==
  phase = "died" =>
    \/ closed /\ "nil" \in {grpc, http}
    \/ Len(ids) < Length /\ \E s \in GRPCStreams : streams[s].at = "read"

\* grpc/server.go:84-89,195, http/server.go:115-121: after a signal the process ends, open
\* HTTP streams or not, unless a gRPC client holds on to a stream and never reads it.
ShutdownEnds ==
  phase = "stopGRPC" ~> (Over \/ [](\E s \in GRPCStreams : streams[s].at = "send"))
=============================================================================

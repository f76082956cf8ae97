----------------------------- MODULE PortScanner ------------------------------
(***************************************************************************)
(* PortScanner.swift: one scan of the ports of a host, with the part of    *)
(* SwiftSocket (TCPClient.connect and close over ytcpsocket.c) and of      *)
(* ReactiveCocoa (RACDynamicSignal, RACSubscriber, RACCompoundDisposable)  *)
(* that decides when a client is closed.                                   *)
(*                                                                         *)
(* The signals of the ports are joined and each does its work inside its   *)
(* subscription, so one thread of RAC's background scheduler takes the     *)
(* ports in order: it connects, sends the value, completes, and only then  *)
(* returns the disposable that closes the client to a subscription that    *)
(* has already ended.  The joined value goes to the main queue from inside *)
(* the last port's sendNext, while that port's client is still open.  The  *)
(* process is taken to have a descriptor to spare: socket() is not checked *)
(* by the code and does not fail here.                                     *)
(***************************************************************************)
EXTENDS Naturals, FiniteSets

CONSTANT LastPort   \* ports 1 .. LastPort are scanned; 100 in the code

ASSUME PortAssumption == LastPort \in Nat \ {0}

VARIABLES
  phase,      \* how far the scan has come
  port,       \* the port the thread is at
  at,         \* where it is in signalForPort
  fd,         \* [Ports -> BOOLEAN]: the client holds a descriptor
  open,       \* ports whose socket the kernel has open
  ended,      \* ports whose subscription is disposed of
  result,     \* [Ports -> Results]: what the port sent
  services    \* what the subscriber of scanPortsOn was sent

portVars == <<phase, port, at, fd, open, ended, result, services>>

Ports == 1 .. LastPort
Results == {"none", "service", "noService"}
Phases == {"idle", "dead", "queued", "scanning", "joined", "delivered"}
Steps == {"connect", "select", "send", "complete", "return", "finished"}

PortsTypeOK ==
  /\ phase \in Phases /\ port \in Ports /\ at \in Steps
  /\ fd \in [Ports -> BOOLEAN]
  /\ open \subseteq Ports /\ ended \subseteq Ports /\ services \subseteq Ports
  /\ result \in [Ports -> Results]

PortsInit ==
  /\ phase = "idle" /\ port = 1 /\ at = "connect"
  /\ fd = [p \in Ports |-> FALSE]
  /\ open = {} /\ ended = {} /\ services = {}
  /\ result = [p \in Ports |-> "none"]

-----------------------------------------------------------------------------
(* One port *)

\* scanPortsOn is subscribed to.  A host without an address gets a bare signal.
scanPortsOn ==
  /\ phase = "idle"
  /\ phase' \in {"queued", "dead"}
  /\ UNCHANGED <<port, at, fd, open, ended, result, services>>

\* The block on the global queue builds the join and subscribes; as that queue
\* has no scheduler the subscription runs on RAC's background scheduler.
subscribe ==
  /\ phase = "queued"
  /\ phase' = "scanning"
  /\ UNCHANGED <<port, at, fd, open, ended, result, services>>

Working(step) == phase # "queued" /\ phase # "idle" /\ phase # "dead" /\ at = step

\* ytcpsocket_connect: the name is not found, or a socket is made and connecting.
connect ==
  /\ Working("connect")
  /\ \/ at' = "send" /\ UNCHANGED open
     \/ at' = "select" /\ open' = open \cup {port}
  /\ UNCHANGED <<phase, port, fd, ended, result, services>>

\* The second half: select fails, times out or shows an error, each of which
\* closes the socket, or the client keeps the descriptor.
select ==
  /\ Working("select")
  /\ at' = "send"
  /\ \/ fd' = [fd EXCEPT ![port] = TRUE] /\ UNCHANGED open
     \/ open' = open \ {port} /\ UNCHANGED fd
  /\ UNCHANGED <<phase, port, ended, result, services>>

\* sendNext: the port or NO_SERVICE.  The value of the last port completes the
\* join, which posts the delivery to the main queue.
send ==
  /\ Working("send")
  /\ at' = "complete"
  /\ result' = [result EXCEPT ![port] = IF fd[port] THEN "service" ELSE "noService"]
  /\ phase' = IF \A p \in Ports : result'[p] # "none" THEN "joined" ELSE phase
  /\ UNCHANGED <<port, fd, open, ended, services>>

\* sendCompleted: the subscriber disposes of the subscription, which holds no
\* disposable of the port yet.
complete ==
  /\ Working("complete")
  /\ at' = "return"
  /\ ended' = ended \cup {port}
  /\ UNCHANGED <<phase, port, fd, open, result, services>>

\* mutant: addDisposable drops a disposable that comes after the end
addDisposableLate(p) == UNCHANGED <<fd, open>>

\* addDisposable of a subscription that has ended disposes at once, and the
\* disposable closes the client; close does nothing for a client without one.
addDisposable(p) ==
  IF p \in ended /\ fd[p]
  THEN fd' = [fd EXCEPT ![p] = FALSE] /\ open' = open \ {p}
  ELSE UNCHANGED <<fd, open>>

\* didSubscribe returns its disposable, and the pairs of the join subscribe to
\* the next port.
return ==
  /\ Working("return")
  /\ addDisposable(port)
  /\ IF port < LastPort
     THEN port' = port + 1 /\ at' = "connect"
     ELSE at' = "finished" /\ UNCHANGED port
  /\ UNCHANGED <<phase, ended, result, services>>

\* filter { $0 != Constants.NO_SERVICE }
Services == {p \in Ports : result[p] = "service"}

\* The main queue delivers the services to the device screen.
deliver ==
  /\ phase = "joined"
  /\ services' = Services
  /\ phase' = "delivered"
  /\ UNCHANGED <<port, at, fd, open, ended, result>>

PortsNext ==
  \/ scanPortsOn \/ subscribe \/ connect \/ select \/ send
  \/ complete \/ return \/ deliver

PortsSpec == PortsInit /\ [][PortsNext]_portVars

-----------------------------------------------------------------------------
(* Properties *)

\* A scan of a hundred ports needs one descriptor: the client of a port is closed
\* before the next port is tried, though its disposable is made only after the
\* subscription it belongs to has ended, and on every error path of connect.
OneDescriptor ==
  /\ open \subseteq {port}
  /\ at = "finished" => open = {}
  /\ \A p \in Ports : fd[p] => p \in open
=============================================================================

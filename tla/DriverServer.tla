---------------------------- MODULE DriverServer ----------------------------
(***************************************************************************)
(* The life of a plugin program: cmd/node/main.go and cmd/controller/main  *)
(* .go up to CSIDriver.Run, and Run itself (pkg/driver/driver.go), which   *)
(* serve gRPC on a Unix socket until a signal stops them.  What the        *)
(* requests do is not said here; a program that serves them composes its   *)
(* actions with these.  The control plane's login, the file system, gRPC   *)
(* and Kubernetes, which starts and stops the program, are external.       *)
(***************************************************************************)
CONSTANT Upsets  \* what may go wrong: members of UpsetKind

UpsetKind == {"login", "remove", "listen", "signal", "kill", "idleKill"}

VARIABLES
  phase,    \* where main and Run are
  signal,   \* SIGTERM or SIGINT: in sigChan ("queued"), or ctx is cancelled
  socket    \* the endpoint's path: our listener's, or left by a dead process

driverVars == <<phase, signal, socket>>

\* main has installed the signal channel, just before it calls Run.
Running == {"remove", "listen", "ready", "serve", "drain"}
Phase == {"down", "connect", "seed"} \cup Running

DriverTypeOK ==
  /\ phase \in Phase
  /\ signal \in {"none", "queued", "cancelled"}
  /\ socket \in {"absent", "bound", "stale"}

\* The first start on a fresh host is over.
DriverInit == phase = "serve" /\ signal = "none" /\ socket = "bound"

Goto(from, to) == phase = from /\ phase' = to

\* The process is gone; a listener it closed itself takes its socket file along.
Gone(left) == phase' = "down" /\ signal' = "none" /\ socket' = left

(***************************************************************************)
(* main.                                                                   *)
(***************************************************************************)
Start == Goto("down", "connect") /\ UNCHANGED <<signal, socket>>

\* The control plane clients and UserLogin.
Connect == Goto("connect", "seed") /\ UNCHANGED <<signal, socket>>

ConnectFails ==
  /\ "login" \in Upsets
  /\ phase = "connect"
  /\ Gone(socket)

\* UpdateNodeVolumeMap in the node program, nothing in the controller; then
\* signal.Notify.
Seed == Goto("seed", "remove") /\ UNCHANGED <<signal, socket>>

\* A signal waits in sigChan, which holds one, for the goroutine; before there
\* is a channel it ends the process.
Signal ==
  /\ "signal" \in Upsets
  /\ phase \in Running /\ signal = "none"
  /\ signal' = "queued"
  /\ UNCHANGED <<phase, socket>>

SignalKills ==
  /\ "signal" \in Upsets
  /\ phase \in {"connect", "seed"}
  /\ Gone(socket)

\* Mutant: the channel has no buffer, so that a signal is lost unless the
\* goroutine waits for it already.
LosesSignal ==
  /\ signal = "queued"
  /\ signal' = IF phase = "serve" THEN "cancelled" ELSE "none"
  /\ UNCHANGED <<phase, socket>>

\* The goroutine cancels ctx; it reads no further signal.
Cancel ==
  /\ signal = "queued"
  /\ signal' = "cancelled"
  /\ UNCHANGED <<phase, socket>>

(***************************************************************************)
(* CSIDriver.Run.                                                          *)
(***************************************************************************)

\* Mutant: the socket file is left to net.Listen.
LeavesSocket == Goto("remove", "listen") /\ UNCHANGED <<signal, socket>>

\* os.Remove, which may find nothing, and MkdirAll.
RemoveSocket ==
  /\ Goto("remove", "listen")
  /\ socket' = "absent"
  /\ UNCHANGED signal

RemoveFails ==
  /\ "remove" \in Upsets
  /\ phase = "remove"
  /\ Gone(socket)

\* A path that exists cannot be bound.
Listen ==
  /\ Goto("listen", "ready")
  /\ socket = "absent"
  /\ socket' = "bound"
  /\ UNCHANGED signal

ListenFails ==
  /\ phase = "listen"
  /\ socket # "absent" \/ "listen" \in Upsets
  /\ Gone(socket)

\* Requests are accepted from here on.
Serve == Goto("ready", "serve") /\ UNCHANGED <<signal, socket>>

\* The goroutine that waits for ctx is there before Serve is called: when it
\* stops the server first, Serve fails, and main exits with Run's error.
StopEarly ==
  /\ phase = "ready"
  /\ signal = "cancelled"
  /\ Gone("absent")

\* GracefulStop: no new requests.
GracefulStop ==
  /\ Goto("serve", "drain")
  /\ signal = "cancelled"
  /\ socket' = "absent"
  /\ UNCHANGED signal

\* Mutant: Stop instead of GracefulStop: requests in flight are cut off.
DropsRequests(answered) == phase = "drain" /\ Gone(socket)

\* Serve returns when every request has been answered, and so does main.
Exit(answered) ==
  /\ phase = "drain"
  /\ answered
  /\ Gone(socket)

\* SIGKILL, at the end of the grace period or of its own, or a panic; some runs
\* admit it only while no request is in flight.
Kill(idle) ==
  /\ "kill" \in Upsets \/ (idle /\ "idleKill" \in Upsets)
  /\ phase # "down"
  /\ Gone(IF socket = "bound" THEN "stale" ELSE socket)

-----------------------------------------------------------------------------
\* The program's own steps, but for what its requests take part in.
Proceed ==
  Start \/ Connect \/ RemoveSocket \/ Listen \/ Serve \/ Signal \/ Cancel \/ GracefulStop

Fail == ConnectFails \/ RemoveFails \/ ListenFails \/ StopEarly \/ SignalKills
=============================================================================

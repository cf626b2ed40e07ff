------------------------------- MODULE Daemon -------------------------------
(***************************************************************************)
(* The build daemon (src/super_q/daemon.py) and the commands that start,   *)
(* stop and ping it (cli.py): who listens at the socket path, and what     *)
(* becomes of those who call.                                              *)
(*                                                                         *)
(* A process that starts looks first whether a daemon answers at the path, *)
(* and looks again in serve(), which also removes a path where nothing     *)
(* answers.  A daemon told to stop closes its socket, then removes the     *)
(* path, whoever listens there by then, then closes its warm shells.       *)
(***************************************************************************)
EXTENDS Naturals, FiniteSets

CONSTANTS
  Servers,    \* processes that run `superq daemon start`, once each
  Callers,    \* commands: `superq daemon stop` and `superq daemon ping`
  Nowhere,
  MaxKills    \* bound on processes killed

ASSUME DaemonAssumption ==
  Nowhere \notin Servers /\ Servers \cap Callers = {} /\ MaxKills \in Nat

VARIABLES
  path,     \* whose socket the path names, alive or not; Nowhere for no path
  at,       \* where each process is
  conn,     \* the server a party has connected to
  pong,     \* parties whose latest ping was answered
  told,     \* servers whose shutdown_event is set
  asks,     \* what a command is for
  kills,
  clash     \* history: a start met another start, or a stop under way

daemonVars == <<path, at, conn, pong, told, asks, kills>>

Parties == Servers \cup Callers

Starting == {"serve", "reping", "pinged", "unlink", "state", "bind"}

\* The socket accepts connections, answered from the serving thread on.
Listening == {"bound", "up", "closing"}

\* Before it is done with the path, and when it has gone.
Stopping == {"closing", "closed"}

Gone == {"windup", "gone", "killed", "quit", "failed", "inuse"}

DaemonTypeOK ==
  /\ path \in Servers \cup {Nowhere}
  /\ at \in [Parties -> {"idle", "ask", "asked", "call", "calling"}
                          \cup Starting \cup Listening \cup Stopping \cup Gone]
  /\ conn \in [Parties -> Servers \cup {Nowhere}]
  /\ \A p \in Parties : conn[p] # Nowhere => at[p] \in {"asked", "calling", "reping", "killed"}
  /\ pong \subseteq Parties /\ told \subseteq Servers
  /\ asks \in [Callers -> {"stop", "ping"}]
  /\ kills \in 0..MaxKills
  /\ clash \in BOOLEAN

DaemonInit ==
  /\ path = Nowhere
  /\ at = [p \in Parties |-> "idle"]
  /\ conn = [p \in Parties |-> Nowhere]
  /\ pong = {} /\ told = {}
  /\ asks \in [Callers -> {"stop", "ping"}]
  /\ kills = 0
  /\ clash = FALSE

Goes(p, from, to) == at[p] = from /\ at' = [at EXCEPT ![p] = to]

-----------------------------------------------------------------------------
(* Client: one connection for each call.                                    *)

Reachable == path # Nowhere /\ at[path] \in Listening

\* The path is missing, nobody listens there, or the connection stands.
Connects(p, from, to, otherwise) ==
  IF Reachable
    THEN Goes(p, from, to) /\ conn' = [conn EXCEPT ![p] = path] /\ pong' = pong \ {p}
    ELSE Goes(p, from, otherwise) /\ UNCHANGED conn /\ pong' = pong \ {p}

Hangs(p) == conn[p] # Nowhere

\* _dispatch: every op is answered; a shutdown sets the event.
Answer(p) ==
  /\ Hangs(p) /\ at[conn[p]] \in {"up", "closing", "closed", "windup"}
  /\ conn' = [conn EXCEPT ![p] = Nowhere]
  /\ pong' = pong \cup {p}
  /\ told' = IF p \in Callers /\ at[p] = "calling" /\ asks[p] = "stop"
               THEN told \cup {conn[p]} ELSE told
  /\ UNCHANGED <<path, at, asks, kills>>

MutHangsUp(p) ==
  /\ Hangs(p) /\ at[conn[p]] \in {"gone", "failed"}
  /\ conn' = [conn EXCEPT ![p] = Nowhere]
  /\ UNCHANGED <<path, at, pong, told, asks, kills>>

\* The server closed its socket, or is dead, before it came to this call.
HangsUp(p) ==
  /\ Hangs(p) /\ at[conn[p]] \notin {"bound", "up", "closing"}
  /\ conn' = [conn EXCEPT ![p] = Nowhere]
  /\ UNCHANGED <<path, at, pong, told, asks, kills>>

\* is_running
is_running(p) ==
  /\ Connects(p, "ask", "asked", IF p \in Servers THEN "serve" ELSE "quit")
  /\ UNCHANGED <<path, told, asks, kills>>

-----------------------------------------------------------------------------
(* Commands.                                                                *)

Command(p) ==
  /\ Goes(p, "idle", "ask")
  /\ UNCHANGED <<path, conn, pong, told, asks, kills>>

MutRan(p) ==
  /\ Goes(p, "asked", IF p \in pong THEN IF p \in Servers THEN "quit" ELSE "call"
                                   ELSE IF p \in Servers THEN "serve" ELSE "quit")
  /\ UNCHANGED <<path, conn, pong, told, asks, kills>>

\* daemon start leaves when one answers; the others call the one that does.
Ran(p) ==
  /\ ~Hangs(p)
  /\ Goes(p, "asked", IF p \in pong THEN IF p \in Servers THEN "quit" ELSE "call"
                                   ELSE IF p \in Servers THEN "serve" ELSE "quit")
  /\ UNCHANGED <<path, conn, pong, told, asks, kills>>

Call(p) ==
  /\ Connects(p, "call", "calling", "failed")
  /\ UNCHANGED <<path, told, asks, kills>>

Called(p) ==
  /\ ~Hangs(p)
  /\ Goes(p, "calling", IF p \in pong THEN "gone" ELSE "failed")
  /\ UNCHANGED <<path, conn, pong, told, asks, kills>>

-----------------------------------------------------------------------------
(* serve()                                                                  *)

serve(d) ==
  /\ IF path = Nowhere
       THEN Goes(d, "serve", "state") /\ UNCHANGED <<conn, pong>>
       ELSE Connects(d, "serve", "reping", "unlink")
  /\ UNCHANGED <<path, told, asks, kills>>

\* The RuntimeError of an answered ping is caught with the others.
Repinged(d) ==
  /\ ~Hangs(d)
  /\ Goes(d, "reping", "unlink")
  /\ UNCHANGED <<path, conn, pong, told, asks, kills>>

Unlink(d) ==
  /\ Goes(d, "unlink", "state")
  /\ path' = Nowhere
  /\ UNCHANGED <<conn, pong, told, asks, kills>>

\* DaemonState: the store and the backend of the pool, which may be missing.
State(d) ==
  /\ \E to \in {"bind", "failed"} : Goes(d, "state", to)
  /\ UNCHANGED <<path, conn, pong, told, asks, kills>>

Bind(d) ==
  /\ IF path = Nowhere
       THEN Goes(d, "bind", "bound") /\ path' = d
       ELSE Goes(d, "bind", "inuse") /\ UNCHANGED path
  /\ UNCHANGED <<conn, pong, told, asks, kills>>

\* Signal handlers, and the thread that accepts.
ServeForever(d) ==
  /\ Goes(d, "bound", "up")
  /\ UNCHANGED <<path, conn, pong, told, asks, kills>>

_stop(d) ==
  /\ at[d] = "up"
  /\ told' = told \cup {d}
  /\ UNCHANGED <<path, at, conn, pong, asks, kills>>

Shutdown(d) ==
  /\ d \in told
  /\ Goes(d, "up", "closing")
  /\ UNCHANGED <<path, conn, pong, told, asks, kills>>

server_close(d) ==
  /\ Goes(d, "closing", "closed")
  /\ UNCHANGED <<path, conn, pong, told, asks, kills>>

UnlinkOwn(d) ==
  /\ Goes(d, "closed", "windup")
  /\ path' = Nowhere
  /\ UNCHANGED <<conn, pong, told, asks, kills>>

MutWindUp(d) ==
  /\ Goes(d, "windup", "gone")
  /\ path' = Nowhere
  /\ UNCHANGED <<conn, pong, told, asks, kills>>

\* The warm shells and the pool; the path is somebody else's by now.
WindUp(d) ==
  /\ Goes(d, "windup", "gone")
  /\ UNCHANGED <<path, conn, pong, told, asks, kills>>

\* A killed process leaves the path.
Kill(d) ==
  /\ kills < MaxKills
  /\ at[d] \in {"state", "bind", "windup"} \cup Listening \cup Stopping
  /\ at' = [at EXCEPT ![d] = "killed"]
  /\ kills' = kills + 1
  /\ UNCHANGED <<path, conn, pong, told, asks>>

-----------------------------------------------------------------------------
Steps(p) ==
  \/ is_running(p) \/ Ran(p) \/ Answer(p) \/ HangsUp(p)

Client(p) == Call(p) \/ Called(p)

Server(d) ==
  \/ serve(d) \/ Repinged(d) \/ Unlink(d) \/ State(d) \/ Bind(d) \/ ServeForever(d)
  \/ Shutdown(d) \/ server_close(d) \/ UnlinkOwn(d) \/ WindUp(d)

\* Two servers are on their way in or out.
Overlap ==
  \E d, e \in Servers : d # e /\ {at[d], at[e]} \subseteq
     {"ask", "asked", "bound"} \cup Starting \cup Stopping

DaemonNext ==
  /\ \/ \E p \in Parties : Command(p) \/ Steps(p)
     \/ \E p \in Callers : Client(p)
     \/ \E d \in Servers : Server(d) \/ _stop(d) \/ Kill(d)
  /\ clash' = (clash \/ Overlap')

-----------------------------------------------------------------------------
\* As long as no start meets another start, or a stop that is not over, a daemon
\* that listens is the one at the path, a path left by a killed one keeps nobody
\* from starting, and the long end of a stopped one disturbs nobody.
AloneIsReachable ==
  clash \/ \A d \in Servers : at[d] # "inuse" /\ (at[d] \in {"bound", "up"} => path = d)

\* Whoever has connected is answered or hung up on: no ping or call, which have no
\* timeout, waits for ever, be the daemon stopped or killed meanwhile.
CallsEnd == \A p \in Parties : Hangs(p) ~> ~Hangs(p)

\* "daemon already running" (src/super_q/daemon.py:208): who starts leaves a daemon
\* that has just answered alone.
AnsweredIsLeftAlone ==
  [][\A d \in Servers : Unlink(d) /\ d \in pong => ~Reachable]_daemonVars
=============================================================================

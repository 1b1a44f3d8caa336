------------------------------ MODULE Listeners ------------------------------
(***************************************************************************)
(* The listener supervisor (server/src/listeners.rs) that the admin switch  *)
(* talks to, the accept loops it starts and stops, and the SMTP connection  *)
(* tasks with the limiter every one of them passes (connection.rs).         *)
(*                                                                         *)
(* Each start of a family makes a new server, and with it a new limiter and *)
(* a new stop signal: a server is named by the number of the start. IMAP    *)
(* has accept loops here and no connections (its server counts them only).  *)
(* What a session says is in SmtpSession; here it is only where it waits.   *)
(***************************************************************************)
EXTENDS Naturals, FiniteSets

CONSTANTS
  Conns,           \* connections, each of one peer at a time
  Ips, IpOf,       \* source addresses and that of every connection
  MaxConnections,  \* limits.max_connections
  MaxPerIp,        \* limits.max_connections_per_ip
  MaxStarts,       \* bound: times a family is started
  MaxAsks          \* bound: uses of the switch

ASSUME ListenersAssumption ==
  /\ IsFiniteSet(Conns)
  /\ IpOf \in [Conns -> Ips]
  /\ {MaxConnections, MaxPerIp, MaxStarts} \subseteq Nat \ {0}
  /\ MaxAsks \in Nat

Families == {"smtp", "imap"}
Servers == 1 .. MaxStarts
Loops == {"none", "binding", "accepting", "stopped", "failed"}
Idle == [step |-> "idle"]
Job == {Idle} \cup [step : {"decide", "stopping"}, family : Families, want : BOOLEAN]

VARIABLES
  supervisor,  \* the command the supervisor is applying
  enabled,     \* ManagedListenerStates, as published
  server,      \* the newest server of a family, 0 for none
  loop,        \* its accept loop
  stop,        \* its shutdown signal
  at,          \* where a connection task is
  of,          \* the server that accepted it
  talking,     \* FALSE: the peer is gone without a word
  global,      \* Inner.global
  active,      \* IpState.active
  asks         \* uses of the switch so far

supervisorVars == <<supervisor, enabled, server, loop, stop, asks>>
connVars == <<at, of, talking, global, active>>
listenersVars == <<supervisorVars, connVars>>

Waiting == {"reading", "auth"}     \* read_command_until
Serving == Waiting \cup {"data", "working"}
Held == Serving \cup {"handshake", "closing"}
Places == {"away", "claimed"} \cup Held

ListenersInit ==
  /\ supervisor = Idle
  /\ enabled = [f \in Families |-> FALSE]
  /\ server = [f \in Families |-> 0]
  /\ loop = [f \in Families |-> [g \in Servers |-> "none"]]
  /\ stop = [f \in Families |-> [g \in Servers |-> FALSE]]
  /\ at = [c \in Conns |-> "away"]
  /\ of = [c \in Conns |-> 1]
  /\ talking = [c \in Conns |-> TRUE]
  /\ global = [g \in Servers |-> 0]
  /\ active = [g \in Servers |-> [ip \in Ips |-> 0]]
  /\ asks = 0
-----------------------------------------------------------------------------
(* The supervisor: one command after another.                               *)

(* The socket of a family is bound. *)
PortTaken(f) == \E g \in Servers : loop[f][g] = "accepting"

Ask(f, want) ==
  /\ supervisor = Idle
  /\ asks < MaxAsks
  /\ asks' = asks + 1
  /\ supervisor' = [step |-> "decide", family |-> f, want |-> want]
  /\ UNCHANGED <<enabled, server, loop, stop, connVars>>

(* Nothing to do, by what was published. *)
Keep ==
  /\ supervisor.step = "decide"
  /\ enabled[supervisor.family] = supervisor.want
  /\ supervisor' = Idle
  /\ UNCHANGED <<enabled, server, loop, stop, asks, connVars>>

(* apply: SMTP binds before it answers, IMAP in the task it spawns. *)
Start ==
  /\ supervisor.step = "decide"
  /\ supervisor.want /\ ~enabled[supervisor.family]
  /\ LET f == supervisor.family
         g == server[f] + 1
         bound == f = "imap" \/ ~PortTaken(f)
     IN /\ g \in Servers
        /\ server' = IF bound THEN [server EXCEPT ![f] = g] ELSE server
        /\ loop' = IF bound
                   THEN [loop EXCEPT ![f][g] = IF f = "imap" THEN "binding" ELSE "accepting"]
                   ELSE loop
        /\ enabled' = [enabled EXCEPT ![f] = bound]
  /\ supervisor' = Idle
  /\ UNCHANGED <<stop, asks, connVars>>

Stop ==
  /\ supervisor.step = "decide"
  /\ ~supervisor.want /\ enabled[supervisor.family]
  /\ LET f == supervisor.family IN stop' = [stop EXCEPT ![f][server[f]] = TRUE]
  /\ supervisor' = [step |-> "stopping", family |-> supervisor.family, want |-> FALSE]
  /\ UNCHANGED <<enabled, server, loop, asks, connVars>>

(* shutdown_and_wait for SMTP, the join of the serving task for IMAP. *)
Stopped_NoWait ==
  /\ supervisor.step = "stopping"
  /\ enabled' = [enabled EXCEPT ![supervisor.family] = FALSE]
  /\ supervisor' = Idle
  /\ UNCHANGED <<server, loop, stop, asks, connVars>>
Stopped ==
  /\ supervisor.step = "stopping"
  /\ LET f == supervisor.family IN loop[f][server[f]] \in {"stopped", "failed"}
  /\ enabled' = [enabled EXCEPT ![supervisor.family] = FALSE]
  /\ supervisor' = Idle
  /\ UNCHANGED <<server, loop, stop, asks, connVars>>
-----------------------------------------------------------------------------
(* The accept loops.                                                        *)

LoopBecomes(f, g, l) ==
  /\ loop' = [loop EXCEPT ![f][g] = l]
  /\ UNCHANGED <<supervisor, enabled, server, stop, asks, connVars>>

LoopStops(f, g) ==
  /\ loop[f][g] = "accepting"
  /\ stop[f][g]
  /\ LoopBecomes(f, g, "stopped")

(* serve_with_shutdown: the socket is bound inside the task, *)
ImapBinds(g) ==
  /\ loop["imap"][g] = "binding"
  /\ LoopBecomes("imap", g, IF PortTaken("imap") THEN "failed" ELSE "accepting")

(* and an accept that fails ends it; SMTP's loop pauses and goes on. *)
ImapAcceptFails(g) ==
  /\ loop["imap"][g] = "accepting"
  /\ LoopBecomes("imap", g, "failed")
-----------------------------------------------------------------------------
(* The SMTP connection tasks.                                               *)

Goes(c, place) == at' = [at EXCEPT ![c] = place]

(* The task of an accepted connection takes a global slot, or is refused.   *)
Claim(c, g) ==
  /\ at[c] = "away"
  /\ loop["smtp"][g] = "accepting"
  /\ global[g] < MaxConnections
  /\ Goes(c, "claimed")
  /\ of' = [of EXCEPT ![c] = g]
  /\ talking' = [talking EXCEPT ![c] = TRUE]
  /\ global' = [global EXCEPT ![g] = @ + 1]
  /\ UNCHANGED <<supervisorVars, active>>

(* The address is under its cap: the session begins, or a handshake does. *)
Admit(c) ==
  /\ at[c] = "claimed"
  /\ active[of[c]][IpOf[c]] < MaxPerIp
  /\ \E place \in {"reading", "handshake"} : Goes(c, place)
  /\ active' = [active EXCEPT ![of[c]][IpOf[c]] = @ + 1]
  /\ UNCHANGED <<supervisorVars, of, talking, global>>

(* or it is not: the global slot goes back. *)
Refuse_Leak(c) ==
  /\ at[c] = "claimed"
  /\ active[of[c]][IpOf[c]] >= MaxPerIp
  /\ Goes(c, "away")
  /\ UNCHANGED <<supervisorVars, of, talking, global, active>>
Refuse(c) ==
  /\ at[c] = "claimed"
  /\ active[of[c]][IpOf[c]] >= MaxPerIp
  /\ Goes(c, "away")
  /\ global' = [global EXCEPT ![of[c]] = @ - 1]
  /\ UNCHANGED <<supervisorVars, of, talking, active>>

Moves(c, from, to) ==
  /\ at[c] \in from
  /\ \E place \in to : Goes(c, place)
  /\ UNCHANGED <<supervisorVars, of, talking, global, active>>

Handshake(c) == talking[c] /\ Moves(c, {"handshake"}, {"reading", "closing"})

(* A line of the peer, or its end of stream. *)
Line(c) == talking[c] /\ Moves(c, Waiting, {"working"})
Eof(c) == talking[c] /\ Moves(c, Waiting \cup {"data"}, {"closing"})

(* dispatch and the handlers: the next line is a command, a step of AUTH or *)
(* a body; STARTTLS starts a handshake; QUIT, the command rate and an over- *)
(* long line end the session.                                               *)
Work(c) == Moves(c, {"working"}, Waiting \cup {"data", "handshake", "closing"})

(* The body is complete, or too large; delivering it belongs to the step. *)
Body(c) == talking[c] /\ Moves(c, {"data"}, {"reading"})

(* The deadline of a read: command_timeout, and data_timeout for a message. *)
Timeout_NotInAuth(c) == Moves(c, {"reading"}, {"closing"})
Timeout(c) == Moves(c, Waiting, {"closing"})
DataTimeout(c) == Moves(c, {"data"}, {"reading"})

(* read_command_until sees the stop signal of its server. *)
Notice_NotInAuth(c) == stop["smtp"][of[c]] /\ Moves(c, {"reading"}, {"closing"})
Notice(c) == stop["smtp"][of[c]] /\ Moves(c, Waiting, {"closing"})

(* ConnectionPermit::release, when the task ends. It holds the lock of the  *)
(* map that try_acquire takes; a claim that sees the counts in between is   *)
(* refused, never admitted.                                                 *)
Release(c) ==
  /\ at[c] = "closing"
  /\ Goes(c, "away")
  /\ active' = [active EXCEPT ![of[c]][IpOf[c]] = @ - 1]
  /\ global' = [global EXCEPT ![of[c]] = @ - 1]
  /\ UNCHANGED <<supervisorVars, of, talking>>

(* The peer is cut off: nothing comes from it any more, not even an end. *)
Vanish(c) ==
  /\ at[c] \in Held
  /\ talking[c]
  /\ talking' = [talking EXCEPT ![c] = FALSE]
  /\ UNCHANGED <<supervisorVars, at, of, global, active>>
-----------------------------------------------------------------------------
SupervisorNext == Keep \/ Start \/ Stop \/ Stopped
LoopNext == \/ \E f \in Families, g \in Servers : LoopStops(f, g)
            \/ \E g \in Servers : ImapBinds(g)
TaskNext(c) == \/ Admit(c) \/ Refuse(c) \/ Work(c) \/ DataTimeout(c) \/ Release(c)
PeerNext(c) == \/ \E g \in Servers : Claim(c, g)
               \/ Handshake(c) \/ Line(c) \/ Eof(c) \/ Body(c) \/ Vanish(c)

ListenersNext ==
  \/ SupervisorNext \/ LoopNext
  \/ \E f \in Families, want \in BOOLEAN : Ask(f, want)
  \/ \E g \in Servers : ImapAcceptFails(g)
  \/ \E c \in Conns : TaskNext(c) \/ PeerNext(c) \/ Timeout(c) \/ Notice(c)

(* The runtime runs every task that can run and fires every timer. A read   *)
(* that waits for a line and for the signal takes either when both are      *)
(* there (tokio::select! is random), so Notice needs strong fairness.       *)
Fairness ==
  /\ WF_listenersVars(SupervisorNext) /\ WF_listenersVars(LoopNext)
  /\ \A c \in Conns : WF_listenersVars(TaskNext(c)) /\ WF_listenersVars(Timeout(c)) /\ SF_listenersVars(Notice(c))

LimiterSpec == ListenersInit /\ [][ListenersNext]_listenersVars
ListenersSpec == LimiterSpec /\ Fairness
-----------------------------------------------------------------------------
(* Every variable has its type. *)
ListenersTypeOK ==
  /\ supervisor \in Job
  /\ enabled \in [Families -> BOOLEAN]
  /\ server \in [Families -> 0 .. MaxStarts]
  /\ loop \in [Families -> [Servers -> Loops]]
  /\ stop \in [Families -> [Servers -> BOOLEAN]]
  /\ at \in [Conns -> Places]
  /\ of \in [Conns -> Servers]
  /\ talking \in [Conns -> BOOLEAN]
  /\ global \in [Servers -> 0 .. MaxConnections]
  /\ active \in [Servers -> [Ips -> 0 .. MaxPerIp]]
  /\ asks \in 0 .. MaxAsks

(* The counts of a limiter are the connections themselves: the per-process  *)
(* count every task between its claim and the end of its release, the count *)
(* of an address every admitted one of that address (connection.rs: "Live   *)
(* global connection count. Mirrors sum(per_ip.active)"). A slot that leaks *)
(* on any way out shuts peers out for good; one given back twice admits too *)
(* many.                                                                    *)
Counted(g) == {c \in Conns : of[c] = g /\ at[c] # "away"}
CountedOf(g, ip) == {c \in Conns : of[c] = g /\ IpOf[c] = ip /\ at[c] \in Held}
SlotsExact ==
  \A g \in Servers : /\ global[g] = Cardinality(Counted(g))
                     /\ \A ip \in Ips : active[g][ip] = Cardinality(CountedOf(g, ip))

(* What the admin page shows for SMTP is so whenever no change is under     *)
(* way: enabled means that a loop accepts, disabled that none does, so the  *)
(* port is free for the next start (SmtpServerHandle::shutdown_and_wait).   *)
SwitchIsTrue == supervisor = Idle => (enabled["smtp"] <=> PortTaken("smtp"))

(* The same of IMAP: it fails, since a bind or an accept that fails ends    *)
(* the task and nobody tells the supervisor.                                *)
ImapSwitchIsTrue ==
  supervisor = Idle /\ enabled["imap"] => \E g \in Servers :
                                             loop["imap"][g] \in {"binding", "accepting"}

(* A session whose peer has vanished gives its slot back, wherever it was   *)
(* waiting: for a command, for a step of AUTH or for a body. (A TLS         *)
(* handshake has no deadline, so a peer that vanishes there is excluded.)   *)
VanishedPeerEnds ==
  \A c \in Conns : at[c] \in Serving /\ ~talking[c] ~> at[c] \in {"away", "handshake"}

(* Once SMTP is switched off, the sessions of the server end, even those    *)
(* whose peer never stops talking (docs/api.md: "Idle sessions receive the  *)
(* protocol shutdown response and disconnect").                             *)
SwitchedOffDrains ==
  \A c \in Conns : stop["smtp"][of[c]] /\ at[c] \in Serving ~> at[c] \in {"away", "handshake"}
=============================================================================

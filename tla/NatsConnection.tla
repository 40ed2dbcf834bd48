--------------------------- MODULE NatsConnection ---------------------------
(***************************************************************************)
(* NatsConnection and its health reporter: the initial connection, the     *)
(* callbacks of the client's events, probes, forced reconnects and the     *)
(* drain all write the same component of the health registry, each in two  *)
(* writes that others may come between.                                    *)
(*                                                                         *)
(* The client and the server behind it are external: `link` is what the    *)
(* connection is in truth, `events` what the callback has yet to hear.     *)
(***************************************************************************)
EXTENDS Naturals, Sequences, HealthRegistry

CONSTANTS
    MaxOutages,     \* bound: losses of the link
    MaxNuisances,   \* bound: slow consumers, errors and lame-duck notices
    MaxCommands     \* bound: forced reconnects and drains

VARIABLES
    link,           \* "new", "up", "down", "draining" or "closed"
    connection,     \* "connecting", "open", or "failed"
    events,
    writer,         \* what each reporter of health is in the middle of
    natsHealth, natsReadiness,
    outages, nuisances, commands

connectionVars == <<link, connection, events, writer, natsHealth, natsReadiness,
                    outages, nuisances, commands>>

Nats == "nats.jetstream"
Writers == {"callback", "prober", "operator"}
Resting == [pc |-> "idle", health |-> "Healthy", next |-> "idle"]

\* ready, degraded and unhealthy: the status to write, and where to go on after it.
Reporting(health, next) == [pc |-> "health", health |-> health, next |-> next]
Start(w, health, next) == writer' = [writer EXCEPT ![w] = Reporting(health, next)]
Writing(w, pc) == writer[w].pc = pc

----------------------------------------------------------------------------
(* The reporter.                                                            *)

WriteHealth(w) ==
    /\ Writing(w, "health")
    /\ natsHealth' = Reported(natsHealth, Nats, writer[w].health)
    /\ writer' = [writer EXCEPT ![w].pc = "readiness"]
    /\ UNCHANGED <<link, connection, events, natsReadiness, outages, nuisances, commands>>

WriteReadiness(w) ==
    /\ Writing(w, "readiness")
    /\ natsReadiness' = Reported(natsReadiness, Nats,
                            IF writer[w].health = "Healthy" THEN "Ready" ELSE "NotReady")
    /\ writer' = [writer EXCEPT ![w].pc = writer[w].next]
    /\ UNCHANGED <<link, connection, events, natsHealth, outages, nuisances, commands>>

----------------------------------------------------------------------------
(* connect.                                                                 *)

\* apply_credentials, or the reading of the servers' addresses, fails: nothing is
\* reported beyond the initializing connection.
Misconfigured ==
    /\ link = "new"
    /\ Writing("operator", "idle")
    /\ link' = "closed"
    /\ writer' = [writer EXCEPT !["operator"].pc = "failed"]
    /\ UNCHANGED <<connection, events, natsHealth, natsReadiness, outages, nuisances, commands>>

\* The client connects, or does not; or retry_on_initial_connect hands out a client
\* that is still connecting.
Establish(outcome) ==
    /\ link = "new"
    /\ Writing("operator", "idle")
    /\ link' = CASE outcome = "connected" -> "up"
                 [] outcome = "pending" -> "down"
                 [] outcome = "refused" -> "closed"
    /\ events' = IF outcome = "connected" THEN Append(events, "Connected") ELSE events
    /\ IF outcome = "refused" THEN Start("operator", "Unhealthy", "failed")
       ELSE writer' = [writer EXCEPT !["operator"].pc = "account"]
    /\ UNCHANGED <<connection, natsHealth, natsReadiness, outages, nuisances, commands>>

\* JetStream answers the account query, or connect fails although the link may be up.
QueryAccount(succeeds) ==
    /\ Writing("operator", "account")
    /\ succeeds => link = "up"
    /\ IF succeeds THEN Start("operator", "Healthy", "opened")
       ELSE Start("operator", "Degraded", "failed")
    /\ UNCHANGED <<link, connection, events, natsHealth, natsReadiness, outages, nuisances,
                   commands>>

\* connect returns; a client that is dropped with the error closes.
Connected ==
    /\ Writing("operator", "opened") \/ Writing("operator", "failed")
    /\ connection' = IF Writing("operator", "opened") THEN "open" ELSE "failed"
    /\ link' = IF Writing("operator", "opened") THEN link ELSE "closed"
    /\ writer' = [writer EXCEPT !["operator"] = Resting]
    /\ UNCHANGED <<events, natsHealth, natsReadiness, outages, nuisances, commands>>

----------------------------------------------------------------------------
(* The link.                                                                *)

\* An event reaches the callback, when there is one.
Emit(event) ==
    events' = IF Writing("callback", "absent") THEN events ELSE Append(events, event)

LoseLink ==
    /\ link = "up"
    /\ outages < MaxOutages
    /\ outages' = outages + 1
    /\ link' = "down"
    /\ Emit("Disconnected")
    /\ UNCHANGED <<connection, writer, natsHealth, natsReadiness, nuisances, commands>>

\* A reconnect, or the last one that max_reconnects allows.
RestoreLink(succeeds) ==
    /\ link = "down"
    /\ link' = IF succeeds THEN "up" ELSE "closed"
    /\ Emit(IF succeeds THEN "Connected" ELSE "Closed")
    /\ UNCHANGED <<connection, writer, natsHealth, natsReadiness, outages, nuisances, commands>>

Nuisance ==
    /\ link = "up"
    /\ nuisances < MaxNuisances
    /\ nuisances' = nuisances + 1
    /\ Emit("SlowConsumer")
    /\ UNCHANGED <<link, connection, writer, natsHealth, natsReadiness, outages, commands>>

FinishDrain ==
    /\ link = "draining"
    /\ link' = "closed"
    /\ Emit("Closed")
    /\ UNCHANGED <<connection, writer, natsHealth, natsReadiness, outages, nuisances, commands>>

\* report_event, one callback at a time.
HealthOfEvent(event) ==
    CASE event = "Connected" -> "Healthy"
      [] event = "Closed" -> "Unhealthy"
      [] OTHER -> "Degraded"

ReportEvent ==
    /\ Writing("callback", "idle")
    /\ events # <<>>
    /\ events' = Tail(events)
    /\ Start("callback", HealthOfEvent(Head(events)), "idle")
    /\ UNCHANGED <<link, connection, natsHealth, natsReadiness, outages, nuisances, commands>>

----------------------------------------------------------------------------
(* Operations on an open connection.                                        *)

\* Mutant: a probe reports failures, and leaves recovery to the events.
ProbeFailuresOnly(succeeds) ==
    /\ connection = "open"
    /\ Writing("prober", "idle")
    /\ ~succeeds /\ link # "up"
    /\ Start("prober", "Degraded", "idle")
    /\ UNCHANGED <<link, connection, events, natsHealth, natsReadiness, outages, nuisances,
                   commands>>

\* probe: the account query has been answered, as it may be until a drain has ended,
\* or has failed, as it does without the link (JetStream itself is taken to work), and
\* is now reported.
Probe(succeeds) ==
    /\ connection = "open"
    /\ Writing("prober", "idle")
    /\ IF succeeds THEN link \in {"up", "draining"} ELSE link # "up"
    /\ Start("prober", IF succeeds THEN "Healthy" ELSE "Degraded", "idle")
    /\ UNCHANGED <<link, connection, events, natsHealth, natsReadiness, outages, nuisances,
                   commands>>

\* force_reconnect and begin_drain report first, then submit their command; one that a
\* closed client cannot take is reported as well.
Command(next) ==
    /\ connection = "open"
    /\ Writing("operator", "idle")
    /\ commands < MaxCommands
    /\ commands' = commands + 1
    /\ Start("operator", "Degraded", next)
    /\ UNCHANGED <<link, connection, events, natsHealth, natsReadiness, outages, nuisances>>

Submit ==
    /\ Writing("operator", "reconnect") \/ Writing("operator", "drain")
    /\ IF link = "closed" THEN Start("operator", "Unhealthy", "idle") /\ UNCHANGED <<link, events>>
       ELSE /\ writer' = [writer EXCEPT !["operator"] = Resting]
            /\ IF Writing("operator", "drain")
               THEN link' = "draining" /\ Emit("Draining")
               ELSE IF link = "up" THEN link' = "down" /\ Emit("Disconnected")
               ELSE UNCHANGED <<link, events>>
    /\ UNCHANGED <<connection, natsHealth, natsReadiness, outages, nuisances, commands>>

----------------------------------------------------------------------------
\* NatsHealthReporter::new reports an initializing connection first.  Unless the
\* connection is watched it starts open, and nobody reports its health.
ConnectionInit(watched) ==
    /\ link = IF watched THEN "new" ELSE "up"
    /\ connection = IF watched THEN "connecting" ELSE "open"
    /\ events = <<>>
    /\ writer = [w \in Writers |-> IF watched THEN Resting ELSE [Resting EXCEPT !.pc = "absent"]]
    /\ natsHealth = [c \in {Nats} |-> IF watched THEN "Degraded" ELSE "Healthy"]
    /\ natsReadiness = [c \in {Nats} |-> IF watched THEN "NotReady" ELSE "Ready"]
    /\ outages = 0 /\ commands = 0
    /\ nuisances = IF watched THEN 0 ELSE MaxNuisances

ReporterStep(w) == WriteHealth(w) \/ WriteReadiness(w)

OperatorStep == (\E succeeds \in BOOLEAN : QueryAccount(succeeds)) \/ Connected \/ Submit

ConnectionNext ==
    \/ \E w \in Writers : ReporterStep(w)
    \/ Misconfigured
    \/ \E outcome \in {"connected", "pending", "refused"} : Establish(outcome)
    \/ OperatorStep
    \/ LoseLink
    \/ \E succeeds \in BOOLEAN : RestoreLink(succeeds)
    \/ Nuisance
    \/ FinishDrain
    \/ ReportEvent
    \/ \E succeeds \in BOOLEAN : Probe(succeeds)
    \/ \E next \in {"reconnect", "drain"} : Command(next)

----------------------------------------------------------------------------
\* Once the connection stays up the process becomes ready and stays so, whatever
\* failed probes and late callbacks were still to be reported.
ReadinessRecovers ==
    <>[](link = "up" /\ connection = "open") => <>[](Readiness(natsReadiness) = "Ready")
=============================================================================

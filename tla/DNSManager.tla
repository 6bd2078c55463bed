----------------------------- MODULE DNSManager -----------------------------
(***************************************************************************)
(* The DNSManager of lookup.py: which nameservers the lookups use.  It     *)
(* probes those of the network and then Google's, when it starts, when the *)
(* address of the machine changes, after a sleep, and again after a while  *)
(* when neither answered.                                                  *)
(***************************************************************************)
EXTENDS Naturals, Sequences

CONSTANT
  MaxNetworks   \* bound: changes of the network, and likewise wakings

VARIABLES
  prober,    \* proc (where _run is), commands, killed (with InterruptCommand), since
             \* (commands sent after that), timer, wakeup, read (the network
             \* whose nameservers are probed) and nameservers
  network    \* nr, local and google (what answers there), changed and woke (notifications on their way), and wakings

managerVars == <<prober, network>>

Local(nr) == [from |-> "network", nr |-> nr]
Google == [from |-> "google", nr |-> 0]
ManagerInit ==
  /\ prober = [proc |-> "none", commands |-> 0, killed |-> FALSE, since |-> 0, timer |-> FALSE, wakeup |-> "no", read |-> 0,
               nameservers |-> Local(1), stopped |-> FALSE]
  /\ network \in [nr : {1}, local : BOOLEAN, google : BOOLEAN, changed : {0}, woke : {0}, wakings : {0}]

OfTheManager == UNCHANGED network
-----------------------------------------------------------------------------
(* start, stop and _run.                                                   *)

ManagerStarts ==
  /\ prober.proc = "none" /\ ~prober.stopped
  /\ prober' = [prober EXCEPT !.proc = "idle", !.commands = @ + 1]
  /\ OfTheManager
ManagerStops ==
  /\ prober.proc # "none"
  /\ prober' = [prober EXCEPT !.proc = "none", !.killed = FALSE, !.since = 0, !.timer = FALSE, !.wakeup = "no", !.stopped = TRUE]
  /\ OfTheManager
\* except InterruptCommand
ProbeInterrupted ==
  /\ prober.killed /\ prober' = [prober EXCEPT !.killed = FALSE, !.since = 0, !.proc = "idle"]
  /\ OfTheManager
\* _CH_probe_dns: the nameservers are those of the network as it is now.  The interrupt comes before the
\* command that was sent after it.
TakesProbe ==
  /\ prober.proc = "idle" /\ prober.commands > prober.since
  /\ prober' = [prober EXCEPT !.commands = @ - 1, !.timer = FALSE, !.proc = "local", !.read = network.nr]
  /\ OfTheManager
\* those of a network that was left do not answer
LocalAnswers ==
  /\ prober.proc = "local" /\ network.local /\ prober.read = network.nr
  /\ prober' = [prober EXCEPT !.proc = "idle", !.nameservers = Local(prober.read)]
  /\ OfTheManager
LocalFails ==
  /\ prober.proc = "local" /\ ~(network.local /\ prober.read = network.nr)
  /\ prober' = [prober EXCEPT !.proc = "google"]
  /\ OfTheManager
GoogleAnswers ==
  /\ prober.proc = "google" /\ network.google
  /\ prober' = [prober EXCEPT !.proc = "idle", !.nameservers = Google]
  /\ OfTheManager
GoogleFails ==
  /\ prober.proc = "google" /\ ~network.google
  /\ prober' = [prober EXCEPT !.proc = "idle", !.nameservers = Local(prober.read), !.timer = TRUE]
  /\ OfTheManager
ProbeTimerFires ==
  /\ prober.timer /\ prober' = [prober EXCEPT !.timer = FALSE, !.commands = @ + 1]
  /\ OfTheManager

-----------------------------------------------------------------------------
(* The network, and what is told of it.  Before start() and after stop()   *)
(* there is nothing to kill, and the handler leaves with an AttributeError.*)

NetworkChanges ==
  /\ network.nr < MaxNetworks
  /\ \E local, google \in BOOLEAN :
       network' = [network EXCEPT !.nr = @ + 1, !.local = local, !.google = google, !.changed = @ + 1]
  /\ UNCHANGED prober
NetworkWakes ==
  /\ network.wakings < MaxNetworks /\ network' = [network EXCEPT !.wakings = @ + 1, !.woke = @ + 1]
  /\ UNCHANGED prober
ProbesAgain(p) == IF p.proc = "none" THEN p ELSE [p EXCEPT !.killed = TRUE, !.since = @ + 1, !.commands = @ + 1]
_NH_SystemIPAddressDidChange ==
  /\ network.changed > 0 /\ network' = [network EXCEPT !.changed = @ - 1]
  /\ prober' = ProbesAgain(prober)
_NH_SystemDidWakeUpFromSleep ==
  /\ network.woke > 0 /\ network' = [network EXCEPT !.woke = @ - 1]
  /\ prober' = [prober EXCEPT !.wakeup = IF @ = "no" THEN "set" ELSE @]
\* without a process it fails before it forgets the timer, and no waking is noticed from then on
wakeup_action ==
  /\ prober.wakeup = "set"
  /\ prober' = [ProbesAgain(prober) EXCEPT !.wakeup = IF prober.proc = "none" THEN "stuck" ELSE "no"]
  /\ OfTheManager

ManagerRuns ==
  \/ ProbeInterrupted \/ TakesProbe \/ LocalAnswers \/ LocalFails \/ GoogleAnswers \/ GoogleFails
  \/ _NH_SystemIPAddressDidChange \/ _NH_SystemDidWakeUpFromSleep
ManagerNext ==
  \/ ManagerStarts \/ ManagerStops \/ ManagerRuns \/ ProbeTimerFires \/ wakeup_action \/ NetworkChanges \/ NetworkWakes

-----------------------------------------------------------------------------
\* While it runs and once it has come to rest, the nameservers in use are those of the present network or
\* Google's, and they answer unless another probe is planned (_CH_probe_dns, and the interrupts of
\* _NH_SystemIPAddressDidChange and wakeup_action).
NameserversFollow ==
  prober.proc = "idle" /\ prober.commands = 0 /\ ~prober.killed /\ network.changed = 0 =>
    /\ prober.nameservers \in {Local(network.nr), Google}
    /\ ~prober.timer => IF prober.nameservers = Google THEN network.google ELSE network.local
=============================================================================

------------------------------ MODULE AtomicQuery ------------------------------
(***************************************************************************)
(* What Repository::query and Repository::ui promise a plugin, without     *)
(* buffers, sizes or retries.  A query is answered from the repository as  *)
(* it is at one moment of the call, whole, or it fails; a UI command is    *)
(* queued once, or not at all.  A failure has a reason the caller could    *)
(* name: no host, no answer, an answer that cannot be represented, a       *)
(* repository that kept changing, a command the tab does not accept.       *)
(***************************************************************************)
CONSTANTS
  DataQueries,      \* the queries that read the repository
  Commands,         \* the UI commands
  Acceptable(_),    \* the commands that the tab takes while it is open
  Sdk(_),           \* what the repository may hold for a query
  Reading(_, _)     \* the answer to a query when the repository holds a value

VARIABLES phase, query, command, attached, sdk, steady, open, queued, got

vars == <<phase, query, command, attached, sdk, steady, open, queued, got>>

Failure == [ok |-> FALSE]
Accepted == [ok |-> TRUE]

Init ==
  /\ phase = "idle"
  /\ attached \in BOOLEAN /\ open \in BOOLEAN
  /\ query = 0 /\ command = <<>> /\ sdk = <<>> /\ steady = TRUE
  /\ queued = <<>> /\ got = Failure

Ask ==
  /\ phase = "idle"
  /\ phase' = "asked"
  /\ \/ query' \in DataQueries /\ sdk' \in Sdk(query') /\ command' = <<>>
     \/ query' \notin DataQueries /\ sdk' = <<>> /\ command' \in Commands
  /\ steady' = TRUE /\ queued' = <<>> /\ got' = Failure
  /\ UNCHANGED <<attached, open>>

Change ==
  /\ phase = "asked" /\ query \in DataQueries
  /\ sdk' \in Sdk(query)
  /\ steady' = FALSE
  /\ UNCHANGED <<phase, query, command, attached, open, queued, got>>

Toggle ==
  /\ open' = ~open
  /\ UNCHANGED <<phase, query, command, attached, sdk, steady, queued, got>>

Answer ==
  /\ phase = "asked" /\ query \in DataQueries
  /\ phase' = "answered"
  /\ \/ attached /\ Reading(query, sdk).ok /\ got' = Reading(query, sdk)
     \/ (attached => ~Reading(query, sdk).ok \/ ~steady) /\ got' = Failure
  /\ UNCHANGED <<query, command, attached, sdk, steady, open, queued>>

Queue ==
  /\ phase = "asked" /\ query \notin DataQueries
  /\ phase' = "answered"
  /\ \/ /\ attached /\ open /\ Acceptable(command)
        /\ queued' = <<command>>
        /\ got' \in {Accepted, Failure}
     \/ /\ ~(attached /\ open /\ Acceptable(command))
        /\ queued' = <<>> /\ got' = Failure
  /\ UNCHANGED <<query, command, attached, sdk, steady, open>>

Return ==
  /\ phase = "answered"
  /\ phase' = "idle"
  /\ query' = 0 /\ command' = <<>> /\ sdk' = <<>> /\ steady' = TRUE
  /\ queued' = <<>> /\ got' = Failure
  /\ UNCHANGED <<attached, open>>

Next == Ask \/ Change \/ Toggle \/ Answer \/ Queue \/ Return

Spec == Init /\ [][Next]_vars
===============================================================================

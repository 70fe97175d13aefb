--------------------------- MODULE HeartbeatTracker ---------------------------
(***************************************************************************)
(* HeartbeatMessageToRemoteFacilityCommand (spec 4.2).  Only its          *)
(* declaration is under src/; the behaviour is modelled from the spec.    *)
(*                                                                         *)
(* A key stands for one (sender, facility) pair that matches both regexes; *)
(* its locator is fixed, so a key is the locator it advertises.  The      *)
(* tracker keeps, per key, the observed time of its last heartbeat and     *)
(* whether its last emitted action was Register.  Heartbeats and clock     *)
(* ticks reach processHeartbeatMessage on one thread, with the observed   *)
(* time of the moment they arrive (now).                                   *)
(***************************************************************************)
EXTENDS Naturals, Sequences, SequencesExt, Functions, TLC

CONSTANTS
  Keys,     \* (sender, facility) pairs that pass senderRE and facilityEntryRE
  TTL,      \* ttl, in clock units
  MaxTime   \* bound on the clock

VARIABLES
  now,        \* observed time of the current input
  lastSeen,   \* key -> last_seen_timestamp, for keys heard from at least once
  order,      \* insertion order of the tracker map
  registered  \* keys whose last emitted action is Register

trackerVars == <<now, lastSeen, order, registered>>

\* An entry is alive iff now - last_seen <= ttl.
Alive(k) == k \in DOMAIN lastSeen /\ now - lastSeen[k] <= TTL

\* The entries whose state changes at this tick, in insertion order.
ChangedAt == {i \in DOMAIN order : Alive(order[i]) # (order[i] \in registered)}
Changed == LET idx == SetToSortSeq(ChangedAt, <) IN [j \in DOMAIN idx |-> order[idx[j]]]

\* processHeartbeatMessage(1, tick): one action per changed entry.
TickActions ==
  [i \in DOMAIN Changed |->
     [type |-> IF Alive(Changed[i]) THEN "Register" ELSE "Deregister",
      loc  |-> Changed[i]]]

TrackerInit ==
  /\ now = 0
  /\ lastSeen = <<>>
  /\ order = <<>>
  /\ registered = {}

\* processHeartbeatMessage(0, heartbeat): last_seen_timestamp = observed time.
Heartbeat(k) ==
  /\ lastSeen' = (k :> now) @@ lastSeen
  /\ order' = IF k \in DOMAIN lastSeen THEN order ELSE Append(order, k)
  /\ UNCHANGED <<now, registered>>

\* The tick's bookkeeping: the emitted actions become the last actions.
TickUpdate ==
  /\ registered' = {k \in Range(order) : Alive(k)}
  /\ UNCHANGED <<now, lastSeen, order>>

\* Wall-clock time passes.
Advance ==
  /\ now < MaxTime
  /\ now' = now + 1
  /\ UNCHANGED <<lastSeen, order, registered>>

=============================================================================

--------------------------- MODULE IndexReconcile ---------------------------
(***************************************************************************)
(* createIndexes (data/db.js): every instance of the service reconciles    *)
(* the TTL index of the outbox as it boots, while others boot, run or are  *)
(* redeployed with another retention.                                      *)
(*                                                                         *)
(* The other indexes never change and are left out: their creation is part *)
(* of the step before the comparison.                                      *)
(***************************************************************************)
EXTENDS Integers

CONSTANTS
  Instances,      \* the service's processes
  Retentions,     \* values of OUTBOX_SENT_TTL_SECONDS in use
  Absent,         \* no index of that name
  Foreign,        \* an index of that name with another key or partial filter
  ReadSecondary,  \* READ_PREFERENCE
  MaxFaults       \* bound on deaths of processes

ASSUME IndexAssumption ==
  /\ Absent # Foreign
  /\ Absent \notin Retentions
  /\ Foreign \notin Retentions
  /\ ReadSecondary \in BOOLEAN
  /\ MaxFaults \in Nat

Index == Retentions \cup {Absent, Foreign}

VARIABLES
  index,     \* outbox_sent_ttl_idx: one of ours is its expireAfterSeconds
  replica,   \* as a secondary shows it
  stage,     \* where each instance is
  config,    \* messaging.outboxSentTtlSeconds of each instance
  faults

vars == <<index, replica, stage, config, faults>>

Stages == {"down", "comparing", "dropping", "modifying", "creating", "up"}

Init ==
  /\ index \in Index
  /\ replica = index
  /\ stage = [i \in Instances |-> "down"]
  /\ config \in [Instances -> Retentions]
  /\ faults = 0

At(i, s) == stage' = [stage EXCEPT ![i] = s]

-----------------------------------------------------------------------------

\* The process starts, with the retention of its deployment, and connects.
Boot(i, c) ==
  /\ stage[i] = "down"
  /\ At(i, "comparing")
  /\ config' = [config EXCEPT ![i] = c]
  /\ UNCHANGED <<index, replica, faults>>

\* indexes(): a missing collection has none.
Existing == IF ReadSecondary THEN replica ELSE index

\* Mutant of Reconcile: a changed retention is treated like a changed key.
AlwaysDrop(existing, c) ==
  IF existing \in {Absent, c} THEN "creating" ELSE "dropping"

\* Mutant of Reconcile: an index that looks right is not created again.
TrustReading(existing, c) ==
  CASE existing = Absent -> "creating"
    [] existing = Foreign -> "dropping"
    [] existing = c -> "up"
    [] OTHER -> "modifying"

\* Mutant of Reconcile: a changed retention is not noticed.
NeverModify(existing, c) == IF existing = Foreign THEN "dropping" ELSE "creating"

\* What an instance does about the index it read.
Reconcile(existing, c) ==
  CASE existing = Foreign -> "dropping"
    [] existing \in Retentions \ {c} -> "modifying"
    [] OTHER -> "creating"

Compare(i) ==
  /\ stage[i] = "comparing"
  /\ At(i, Reconcile(Existing, config[i]))
  /\ UNCHANGED <<index, replica, config, faults>>

\* dropIndex drops whatever has the name by now, and throws if nothing has: an
\* instance whose boot throws exits.
DropIndex(i) ==
  /\ stage[i] = "dropping"
  /\ index' = Absent
  /\ At(i, IF index = Absent THEN "down" ELSE "creating")
  /\ UNCHANGED <<replica, config, faults>>

\* collMod changes the retention in place, and throws without an index.
CollMod(i) ==
  /\ stage[i] = "modifying"
  /\ IF index \in Retentions
     THEN index' = config[i] /\ At(i, "creating")
     ELSE index' = index /\ At(i, "down")
  /\ UNCHANGED <<replica, config, faults>>

\* createIndexes accepts an index that exists as specified, and throws if one
\* of the same name differs.
CreateIndexes(i) ==
  /\ stage[i] = "creating"
  /\ IF index \in {Absent, config[i]}
     THEN index' = config[i] /\ At(i, "up")
     ELSE index' = index /\ At(i, "down")
  /\ UNCHANGED <<replica, config, faults>>

\* The process is stopped or killed, or a call to the database fails.
Die(i) ==
  /\ stage[i] # "down"
  /\ faults < MaxFaults
  /\ faults' = faults + 1
  /\ At(i, "down")
  /\ UNCHANGED <<index, replica, config>>

Replicate ==
  /\ replica # index
  /\ replica' = index
  /\ UNCHANGED <<index, stage, config, faults>>

BootStep(i) == \/ \E c \in Retentions : Boot(i, c)
               \/ Compare(i)
               \/ DropIndex(i)
               \/ CollMod(i)
               \/ CreateIndexes(i)

Next == Replicate \/ \E i \in Instances : BootStep(i) \/ Die(i)

\* The platform restarts what is down, boots proceed and the secondary catches
\* up.
Fairness == WF_vars(Replicate) /\ \A i \in Instances : WF_vars(BootStep(i))

Spec == Init /\ [][Next]_vars

FairSpec == Spec /\ Fairness

-----------------------------------------------------------------------------
(* Properties                                                              *)

\* The index, its copy and every instance keep values of their types.
TypeOK ==
  /\ index \in Index
  /\ replica \in Index
  /\ stage \in [Instances -> Stages]
  /\ config \in [Instances -> Retentions]
  /\ faults \in 0 .. MaxFaults

AllUp == \A i \in Instances : stage[i] = "up"

OneRetention == \A i, j \in Instances : config[i] = config[j]

\* However boots, deaths and a change of retention interleave, a deployment
\* that is complete has the index, with its own retention: an instance that is
\* still to drop or to change it is not up.
DeploymentIsApplied ==
  AllUp /\ OneRetention => \A i \in Instances : index = config[i]

\* Nobody has seen an index of another kind that it may still drop.
Ours ==
  /\ index \in Retentions
  /\ replica # Foreign
  /\ \A i \in Instances : stage[i] # "dropping"

\* The comment on collMod: it never leaves the collection without the index.
\* Once the index is of our kind and nobody acts on an older reading, no
\* change of retention removes it, whoever boots.
IndexStays == [][Ours => Ours']_vars

\* Concurrent boots may make each other fail (both drop, or one drops what the
\* other created or was about to change), but they do not do so for ever: all
\* instances come up once the retention no longer differs between them.
EveryInstanceBoots == <>[]OneRetention => <>[]AllUp

=============================================================================

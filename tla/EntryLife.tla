------------------------------ MODULE EntryLife ------------------------------
(***************************************************************************)
(* What a status request can see of a file's delivery: the status of its   *)
(* outbox entry, a claim aside, and whether its metadata has a             *)
(* publishedAt.  An entry is inserted once, is delivered and marked        *)
(* published in one step or is given up, and expires only once delivered.  *)
(*                                                                         *)
(* Outbox.tla, with its workers, leases and crashes, implements it, and so *)
(* does the poller that UploadVerdict.tla puts in their place.             *)
(***************************************************************************)

CONSTANT Files

VARIABLE life

Init == life = [f \in Files |-> [status |-> "ABSENT", published |-> FALSE]]

Insert(s, t) ==
  s.status = "ABSENT" /\ t = [s EXCEPT !.status = "PENDING"]

Deliver(s, t) ==
  s.status = "PENDING" /\ t = [status |-> "SENT", published |-> TRUE]

GiveUp(s, t) ==
  s.status = "PENDING" /\ t = [s EXCEPT !.status = "PERMANENT_FAILURE"]

Expire(s, t) ==
  s.status = "SENT" /\ t = [s EXCEPT !.status = "DELETED"]

\* One file goes from s to t.
FileStep(s, t) == Insert(s, t) \/ Deliver(s, t) \/ GiveUp(s, t) \/ Expire(s, t)

\* A transaction moves several files at once, each by its own step.
Next ==
  /\ DOMAIN life' = Files
  /\ \A f \in Files : life'[f] = life[f] \/ FileStep(life[f], life'[f])

Spec == Init /\ [][Next]_life

=============================================================================

------------------------------ MODULE Delivery ------------------------------
(***************************************************************************)
(* What the outbox promises for each file: delivery to the document upload *)
(* topic at least once or an explicit failure, with a bounded number of    *)
(* tries.  delivered has the tries that put a message on the topic; how    *)
(* many copies of it there are is left open (OneCallPerAttempt of Outbox   *)
(* has it).  A message may still arrive after the file was declared sent   *)
(* or failed: the try that produced it had lost its claim.  Nothing is     *)
(* said of workers, leases, batches or transactions.  Outbox.tla           *)
(* implements it.                                                          *)
(***************************************************************************)
EXTENDS Integers

CONSTANTS Files, MaxAttempts

VARIABLE file

Phases == {"none", "waiting", "sent", "failed"}

File == [phase : Phases, tries : 0 .. MaxAttempts,
         delivered : SUBSET (1 .. MaxAttempts)]

Init == file = [f \in Files |-> [phase |-> "none", tries |-> 0, delivered |-> {}]]

Submit(s, t) ==
  s.phase = "none" /\ t = [s EXCEPT !.phase = "waiting"]

Try(s, t) ==
  /\ s.phase = "waiting"
  /\ s.tries < MaxAttempts
  /\ t = [s EXCEPT !.tries = @ + 1]

Deliver(s, t) ==
  \E n \in (1 .. s.tries) \ s.delivered : t = [s EXCEPT !.delivered = @ \cup {n}]

Succeed(s, t) ==
  /\ s.phase = "waiting"
  /\ s.delivered # {}
  /\ t = [s EXCEPT !.phase = "sent"]

GiveUp(s, t) ==
  /\ s.phase = "waiting"
  /\ s.tries = MaxAttempts
  /\ t = [s EXCEPT !.phase = "failed"]

\* One file goes from s to t.
FileStep(s, t) ==
  Submit(s, t) \/ Try(s, t) \/ Deliver(s, t) \/ Succeed(s, t) \/ GiveUp(s, t)

\* A batch or a transaction moves several files at once, each by its own step.
Next ==
  /\ DOMAIN file' = Files
  /\ \A f \in Files : file'[f] = file[f] \/ FileStep(file[f], file'[f])

Spec == Init /\ [][Next]_file

=============================================================================

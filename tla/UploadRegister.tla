--------------------------- MODULE UploadRegister ---------------------------
(***************************************************************************)
(* What the intake promises for each upload: all of its files are stored   *)
(* at once, under one correlation id, each with an outbox entry and an     *)
(* accepting status record; that happens once and is never undone; and the *)
(* files are announced as created at most once, after it.  Nothing is said *)
(* of callbacks, sessions, duplicates or transactions.  Intake.tla         *)
(* implements it.                                                          *)
(***************************************************************************)
EXTENDS Naturals

CONSTANTS Uploads, Files, FilesOf, Ids, NoId

VARIABLES
  id,          \* per file: the id it is stored under
  queued,      \* the files with an outbox entry, then or now
  accepted,    \* the accepting status records
  announced    \* per file: "document created" events

Init ==
  /\ id = [f \in Files |-> NoId]
  /\ queued = {}
  /\ accepted = {}
  /\ announced = [f \in Files |-> 0]

Store(u, i) ==
  /\ \A f \in FilesOf[u] : id[f] = NoId
  /\ id' = [f \in Files |-> IF f \in FilesOf[u] THEN i ELSE id[f]]
  /\ queued' = queued \cup FilesOf[u]
  /\ accepted' = accepted \cup {[id |-> i, file |-> f] : f \in FilesOf[u]}
  /\ UNCHANGED announced

Announce(u) ==
  /\ \A f \in FilesOf[u] : id[f] # NoId /\ announced[f] = 0
  /\ announced' = [f \in Files |-> IF f \in FilesOf[u] THEN 1 ELSE announced[f]]
  /\ UNCHANGED <<id, queued, accepted>>

Next ==
  \E u \in Uploads : Announce(u) \/ \E i \in Ids : Store(u, i)

Spec == Init /\ [][Next]_<<id, queued, accepted, announced>>

=============================================================================

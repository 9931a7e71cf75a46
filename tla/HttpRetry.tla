------------------------------ MODULE HttpRetry ------------------------------
(***************************************************************************)
(* One call of httpClient (src/http/client.js): the retry policy of every  *)
(* request to CDP Uploader, and what it reports of the attempts it made.   *)
(* Two limits apply, one per class of failure, and attempts are counted in *)
(* two ways, one for each way a call can end.                              *)
(*                                                                         *)
(* The loop around the attempts is ffetch's (external): it asks            *)
(* shouldRetry after every attempt but the last one it would make, and     *)
(* hands it the error or the response of that attempt.                     *)
(***************************************************************************)
EXTENDS Integers, Sequences

CONSTANTS
  MaxAttempts,         \* retry.http.maxAttempts
  UnknownMaxAttempts   \* retry.http.unknownMaxAttempts

ASSUME LimitAssumption ==
  MaxAttempts \in Nat \ {0} /\ UnknownMaxAttempts \in Nat \ {0}

VARIABLES
  pc,         \* where the call is
  outcomes,   \* what came of each attempt
  state,      \* the call's entry of retryStateByRequest
  metadata,   \* what onCompleteHook reports
  logged      \* and as what it logs it

vars == <<pc, outcomes, state, metadata, logged>>

-----------------------------------------------------------------------------

\* A response below 400; 4xx; 429 or 5xx; a timeout or a network error; an
\* AbortError; any other error.
Outcomes == {"ok", "refused", "unavailable", "unreachable", "aborted", "strange"}

\* The outcomes that reject the call; the others are responses.
Thrown == {"unreachable", "aborted", "strange"}

Failed(outcome) == outcome # "ok"

Classes == {"retryable", "nonRetryable", "unknown"}

classifyError(outcome) ==
  CASE outcome \in {"unavailable", "unreachable"} -> "retryable"
    [] outcome \in {"refused", "aborted"} -> "nonRetryable"
    [] OTHER -> "unknown"

\* finalAttempt is 0 for null.
State == [lastAttempt : Nat, finalAttempt : Nat, category : Classes]

buildRetryState == [lastAttempt |-> 0, finalAttempt |-> 0, category |-> "unknown"]

Init ==
  /\ pc = "starting"
  /\ outcomes = <<>>
  /\ state = buildRetryState
  /\ metadata = [attempts |-> 0, category |-> "unknown"]
  /\ logged = "none"

Limit(class) == IF class = "unknown" THEN UnknownMaxAttempts ELSE MaxAttempts

\* The retries that makeClient allows ffetch.
Retries == (IF MaxAttempts > UnknownMaxAttempts THEN MaxAttempts
            ELSE UnknownMaxAttempts) - 1

attempt == Len(outcomes)

-----------------------------------------------------------------------------

BeforeHook ==
  /\ pc = "starting"
  /\ pc' = "sending"
  /\ state' = buildRetryState
  /\ UNCHANGED <<outcomes, metadata, logged>>

\* CDP Uploader answers, or does not (external).
Attempt(outcome) ==
  /\ pc = "sending"
  /\ outcomes' = Append(outcomes, outcome)
  /\ pc' = "deciding"
  /\ UNCHANGED <<state, metadata, logged>>

\* ffetch returns a success, and whatever its last attempt gave, unasked:
\* shouldRetryHook leaves the state alone for a success.
Return ==
  /\ pc = "deciding"
  /\ ~Failed(outcomes[attempt]) \/ attempt > Retries
  /\ pc' = "completing"
  /\ UNCHANGED <<outcomes, state, metadata, logged>>

\* Mutants of WillRetry: one budget for all classes; one attempt too few.
WillRetryOnOneBudget(class) == class # "nonRetryable" /\ attempt < MaxAttempts

WillRetryOnceLess(class) == class # "nonRetryable" /\ attempt + 1 < Limit(class)

WillRetry(class) == class # "nonRetryable" /\ attempt < Limit(class)

ShouldRetryHook ==
  /\ pc = "deciding"
  /\ Failed(outcomes[attempt])
  /\ attempt <= Retries
  /\ LET class == classifyError(outcomes[attempt])
     IN  /\ state' = [state EXCEPT
                        !.lastAttempt = IF attempt > @ THEN attempt ELSE @,
                        !.category = class,
                        !.finalAttempt = IF WillRetry(class) THEN @ ELSE attempt]
         /\ pc' = IF WillRetry(class) THEN "waiting" ELSE "completing"
  /\ UNCHANGED <<outcomes, metadata, logged>>

\* retryDelay has passed.
Backoff ==
  /\ pc = "waiting"
  /\ pc' = "sending"
  /\ UNCHANGED <<outcomes, state, metadata, logged>>

\* Mutant of ReportedAttempts: finalAttempt is not looked at.
ReportedPlusOne == state.lastAttempt + 1

ReportedAttempts ==
  IF state.finalAttempt # 0 THEN state.finalAttempt ELSE state.lastAttempt + 1

OnCompleteHook ==
  /\ pc = "completing"
  /\ metadata' = [attempts |-> ReportedAttempts, category |-> state.category]
  /\ logged' = CASE outcomes[attempt] \in Thrown -> "http_retry_terminal"
                 [] outcomes[attempt] \notin Thrown /\ ReportedAttempts > 1 ->
                      "http_retry_recovered"
                 [] outcomes[attempt] \notin Thrown /\ ReportedAttempts <= 1 -> "none"
  /\ pc' = "done"
  /\ UNCHANGED <<outcomes, state>>

Next ==
  \/ BeforeHook
  \/ \E outcome \in Outcomes : Attempt(outcome)
  \/ Return
  \/ ShouldRetryHook
  \/ Backoff
  \/ OnCompleteHook

Spec == Init /\ [][Next]_vars

-----------------------------------------------------------------------------
(* Properties                                                              *)

\* A call that is done reports at least one attempt, a failure class and a log
\* event that exists.
TypeOK ==
  /\ pc \in {"starting", "sending", "deciding", "waiting", "completing", "done"}
  /\ outcomes \in Seq(Outcomes)
  /\ state \in State
  /\ metadata \in [attempts : Nat, category : Classes]
  /\ pc = "done" => metadata.attempts > 0
  /\ logged \in {"none", "http_retry_terminal", "http_retry_recovered"}

\* However a call ends (success, a class's limit, the loop's own limit), the
\* attempts it reports are the requests that were sent.
AttemptsAreCounted == pc = "done" => metadata.attempts = Len(outcomes)

\* A request is only sent again after a failure whose class has budget left:
\* never after a refusal, and with failures of several classes in one call no
\* class borrows from the other's limit.
BudgetIsKept ==
  \A i \in 1 .. Len(outcomes) - 1 :
    /\ Failed(outcomes[i])
    /\ classifyError(outcomes[i]) # "nonRetryable"
    /\ i < Limit(classifyError(outcomes[i]))

\* No call gives up early: one that ends in a failure that may be retried has
\* spent the budget of that failure's class.
BudgetIsSpent ==
  pc = "done" /\ Failed(outcomes[Len(outcomes)]) =>
    LET class == classifyError(outcomes[Len(outcomes)])
    IN  class # "nonRetryable" => Len(outcomes) >= Limit(class)

=============================================================================

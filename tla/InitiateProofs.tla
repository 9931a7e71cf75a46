---------------------------- MODULE InitiateProofs ----------------------------
(***************************************************************************)
(* Proofs for all values of the two limits: what HttpRetry promises of a   *)
(* call, that the call initiate makes is one, and that initiate's answer   *)
(* is backed by an open upload and a session.                              *)
(***************************************************************************)
EXTENDS Initiate, TLAPS

-----------------------------------------------------------------------------
(* The inductive invariant                                                 *)

Retried(i) ==
  /\ Failed(outcomes[i])
  /\ classifyError(outcomes[i]) # "nonRetryable"
  /\ i < Limit(classifyError(outcomes[i]))

\* Between two attempts every attempt so far was decided upon and retried.
BetweenAttempts ==
  pc \in {"sending", "waiting"} =>
    /\ state.finalAttempt = 0
    /\ state.lastAttempt = Len(outcomes)
    /\ \A i \in 1 .. Len(outcomes) : Retried(i)

\* After an attempt, all but that one were.
AfterAttempt ==
  pc = "deciding" =>
    /\ Len(outcomes) > 0
    /\ state.finalAttempt = 0
    /\ state.lastAttempt = Len(outcomes) - 1
    /\ \A i \in 1 .. Len(outcomes) - 1 : Retried(i)

\* At the end, whichever end it is, the two counts agree, and the budget of
\* the last failure is spent.
AtTheEnd ==
  pc \in {"completing", "done"} =>
    /\ Len(outcomes) > 0
    /\ ReportedAttempts = Len(outcomes)
    /\ \A i \in 1 .. Len(outcomes) - 1 : Retried(i)
    /\ Failed(outcomes[Len(outcomes)]) =>
         LET class == classifyError(outcomes[Len(outcomes)])
         IN  class # "nonRetryable" => Len(outcomes) >= Limit(class)

Reported == pc = "done" => metadata.attempts = ReportedAttempts

IInv ==
  /\ TypeOK
  /\ pc = "starting" => outcomes = <<>>
  /\ BetweenAttempts
  /\ AfterAttempt
  /\ AtTheEnd
  /\ Reported

-----------------------------------------------------------------------------

\* A class has a positive limit, which ffetch's own allows.
LEMMA LimitFacts ==
  ASSUME NEW class
  PROVE  Limit(class) \in Nat \ {0} /\ Limit(class) <= Retries + 1 /\ Retries \in Nat
  BY LimitAssumption DEF Limit, Retries

\* Every failure has a class.
LEMMA ClassFacts ==
  ASSUME NEW outcome \in Outcomes PROVE classifyError(outcome) \in Classes
  BY DEF Outcomes, classifyError, Classes

\* The count that is reported is a number, and positive after the first attempt.
LEMMA ReportedFacts ==
  ASSUME TypeOK
  PROVE  ReportedAttempts \in Nat /\ ReportedAttempts > 0
  BY DEF TypeOK, State, ReportedAttempts

\* A call begins with nothing counted.
LEMMA InitIInv == Init => IInv
  BY DEF Init, IInv, TypeOK, State, Classes, buildRetryState, BetweenAttempts,
         AfterAttempt, AtTheEnd, Reported

\* Each hook and each attempt keeps the counts of its place.
LEMMA NextIInv == IInv /\ [Next]_vars => IInv'
  <1> SUFFICES ASSUME IInv, [Next]_vars PROVE IInv'
    OBVIOUS
  <1>a. /\ outcomes \in Seq(Outcomes) /\ Len(outcomes) \in Nat /\ state \in State
        /\ state.lastAttempt \in Nat /\ state.finalAttempt \in Nat
        /\ state.category \in Classes
    BY DEF IInv, TypeOK, State
  <1>1. CASE BeforeHook
    <2>1. /\ pc = "starting" /\ pc' = "sending" /\ outcomes' = outcomes
          /\ metadata' = metadata /\ logged' = logged /\ state' = buildRetryState
          /\ outcomes = <<>>
      BY <1>1 DEF BeforeHook, IInv
    <2>2. TypeOK'
      BY <2>1 DEF IInv, TypeOK, State, Classes, buildRetryState
    <2>3. BetweenAttempts'
      BY <2>1 DEF BetweenAttempts, buildRetryState
    <2> QED BY <2>1, <2>2, <2>3 DEF IInv, AfterAttempt, AtTheEnd, Reported
  <1>2. ASSUME NEW outcome \in Outcomes, Attempt(outcome) PROVE IInv'
    <2>1. /\ pc = "sending" /\ pc' = "deciding" /\ outcomes' = Append(outcomes, outcome)
          /\ state' = state /\ metadata' = metadata /\ logged' = logged
      BY <1>2 DEF Attempt
    <2>2. /\ outcomes' \in Seq(Outcomes) /\ Len(outcomes') = Len(outcomes) + 1
          /\ \A i \in 1 .. Len(outcomes) : outcomes'[i] = outcomes[i]
      BY <1>a, <2>1
    <2>3. TypeOK'
      BY <2>1, <2>2 DEF IInv, TypeOK
    <2>4. AfterAttempt'
      BY <1>a, <2>1, <2>2 DEF IInv, BetweenAttempts, AfterAttempt, Retried
    <2> QED BY <2>1, <2>3, <2>4 DEF IInv, BetweenAttempts, AtTheEnd, Reported
  <1>3. CASE Return
    <2>1. /\ pc = "deciding" /\ pc' = "completing" /\ outcomes' = outcomes
          /\ state' = state /\ metadata' = metadata /\ logged' = logged
          /\ ~Failed(outcomes[Len(outcomes)]) \/ Len(outcomes) > Retries
      BY <1>3 DEF Return, attempt
    <2>2. TypeOK'
      BY <2>1 DEF IInv, TypeOK
    <2>3. AtTheEnd'
      <3>1. ReportedAttempts' = Len(outcomes)
        BY <1>a, <2>1 DEF IInv, AfterAttempt, ReportedAttempts
      <3>2. \A class : Len(outcomes) > Retries => Len(outcomes) >= Limit(class)
        BY <1>a, LimitFacts
      <3> QED BY <2>1, <3>1, <3>2 DEF IInv, AfterAttempt, AtTheEnd, Retried
    <2> QED BY <2>1, <2>2, <2>3 DEF IInv, BetweenAttempts, AfterAttempt, Reported
  <1>4. CASE ShouldRetryHook
    <2> DEFINE last == Len(outcomes)
               class == classifyError(outcomes[last])
    <2>1. /\ pc = "deciding" /\ outcomes' = outcomes /\ metadata' = metadata
          /\ logged' = logged /\ Failed(outcomes[last])
          /\ last > 0 /\ state.finalAttempt = 0 /\ state.lastAttempt = last - 1
          /\ \A i \in 1 .. last - 1 : Retried(i)
      BY <1>4 DEF ShouldRetryHook, attempt, IInv, AfterAttempt
    <2>2. outcomes[last] \in Outcomes /\ class \in Classes
      BY <1>a, <2>1, ClassFacts
    <2>3. /\ state'.lastAttempt = last
          /\ state'.category = class
          /\ state'.finalAttempt = IF WillRetry(class) THEN 0 ELSE last
          /\ pc' = IF WillRetry(class) THEN "waiting" ELSE "completing"
          /\ state' \in State
      <3> DEFINE retry == WillRetry(class)
      <3>1. /\ state' = [state EXCEPT !.lastAttempt = IF last > @ THEN last ELSE @,
                                      !.category = class,
                                      !.finalAttempt = IF retry THEN @ ELSE last]
            /\ pc' = IF retry THEN "waiting" ELSE "completing"
        BY <1>4 DEF ShouldRetryHook, attempt
      <3>2. last \in Nat /\ last > state.lastAttempt
        BY <1>a, <2>1
      <3> HIDE DEF last, class, retry
      <3>3. state' = [lastAttempt |-> last, finalAttempt |-> IF retry THEN 0 ELSE last,
                      category |-> class]
        BY <1>a, <2>1, <3>1, <3>2 DEF State
      <3>4. state' \in State
        BY <2>2, <3>2, <3>3 DEF State
      <3>5. pc' = IF retry THEN "waiting" ELSE "completing"
        BY <3>1
      <3> QED BY <3>3, <3>4, <3>5 DEF retry
    <2> HIDE DEF last, class
    <2>4. TypeOK'
      BY <2>1, <2>3 DEF IInv, TypeOK
    <2>5. CASE WillRetry(class)
      <3>1. Retried(last)
        BY <2>1, <2>5 DEF Retried, WillRetry, attempt, last, class
      <3>2. BetweenAttempts'
        BY <1>a, <2>1, <2>3, <2>5, <3>1 DEF BetweenAttempts, Retried, last
      <3> QED BY <2>1, <2>3, <2>4, <2>5, <3>2
              DEF IInv, AfterAttempt, AtTheEnd, Reported
    <2>6. CASE ~WillRetry(class)
      <3>1. class # "nonRetryable" => last >= Limit(class)
        BY <1>a, <2>6, LimitFacts DEF WillRetry, attempt, last
      <3>2. ReportedAttempts' = last
        BY <1>a, <2>1, <2>3, <2>6 DEF ReportedAttempts, last
      <3>3. AtTheEnd'
        BY <1>a, <2>1, <2>3, <2>6, <3>1, <3>2 DEF AtTheEnd, Retried, last, class
      <3> QED BY <2>1, <2>3, <2>4, <2>6, <3>3
              DEF IInv, BetweenAttempts, AfterAttempt, Reported
    <2> QED BY <2>5, <2>6
  <1>5. CASE Backoff
    BY <1>5 DEF Backoff, IInv, TypeOK, BetweenAttempts, AfterAttempt, AtTheEnd,
                Reported, Retried
  <1>6. CASE OnCompleteHook
    <2>1. /\ pc = "completing" /\ pc' = "done" /\ outcomes' = outcomes /\ state' = state
          /\ metadata' = [attempts |-> ReportedAttempts, category |-> state.category]
          /\ logged' \in {"none", "http_retry_terminal", "http_retry_recovered"}
      <3>1. \/ outcomes[attempt] \in Thrown
            \/ outcomes[attempt] \notin Thrown /\ ReportedAttempts > 1
            \/ outcomes[attempt] \notin Thrown /\ ReportedAttempts <= 1
        BY ReportedFacts DEF IInv
      <3> QED BY <1>6, <3>1 DEF OnCompleteHook
    <2>2. TypeOK'
      BY <1>a, <2>1, ReportedFacts DEF IInv, TypeOK
    <2>3. AtTheEnd' /\ Reported'
      BY <2>1 DEF IInv, AtTheEnd, Reported, Retried, ReportedAttempts
    <2> QED BY <2>1, <2>2, <2>3 DEF IInv, BetweenAttempts, AfterAttempt
  <1>7. CASE UNCHANGED vars
    BY <1>7 DEF vars, IInv, TypeOK, BetweenAttempts, AfterAttempt, AtTheEnd, Reported,
                Retried, ReportedAttempts
  <1> QED BY <1>1, <1>2, <1>3, <1>4, <1>5, <1>6, <1>7 DEF Next

\* The inductive invariant holds of every reachable state.
THEOREM CallInvariance == Spec => []IInv
  BY InitIInv, NextIInv, PTL DEF Spec

\* Whatever the limits, the reported attempts are the requests that were sent.
THEOREM CountIsRight == Spec => []AttemptsAreCounted
  <1>1. IInv => AttemptsAreCounted
    BY DEF IInv, AtTheEnd, Reported, AttemptsAreCounted
  <1> QED BY <1>1, CallInvariance, PTL

\* Whatever the limits, no request is sent again beyond the limit of the class
\* of the failure it follows.
THEOREM NoClassOverspends == Spec => []BudgetIsKept
  <1>1. IInv => BudgetIsKept
    <2> SUFFICES ASSUME IInv, NEW i \in 1 .. Len(outcomes) - 1 PROVE Retried(i)
      BY DEF BudgetIsKept, Retried
    <2>1. outcomes \in Seq(Outcomes) /\ Len(outcomes) \in Nat
      BY DEF IInv, TypeOK
    <2>2. pc # "starting"
      BY <2>1 DEF IInv
    <2> QED BY <2>1, <2>2
            DEF IInv, TypeOK, BetweenAttempts, AfterAttempt, AtTheEnd
  <1> QED BY <1>1, CallInvariance, PTL

\* Whatever the limits, a call that ends in a retryable or unknown failure has
\* spent the budget of its class.
THEOREM NoCallGivesUpEarly == Spec => []BudgetIsSpent
  <1>1. IInv => BudgetIsSpent
    BY DEF IInv, AtTheEnd, BudgetIsSpent
  <1> QED BY <1>1, CallInvariance, PTL

-----------------------------------------------------------------------------
(* initiate                                                                *)

\* What is proved of a call of httpClient holds of the one that initiate makes.
THEOREM CallIsHttpRetry == InitiateSpec => Spec
  <1>1. InitiateInit => Init
    BY DEF InitiateInit
  <1>2. [InitiateNext]_initiateVars => [Next]_vars
    <2> SUFFICES ASSUME [InitiateNext]_initiateVars PROVE [Next]_vars
      OBVIOUS
    <2>1. CASE Forward
      BY <2>1 DEF Forward, Next
    <2>2. CASE CallAttempt
      BY <2>2 DEF CallAttempt, Next
    <2>3. CASE CallStep
      BY <2>3 DEF CallStep, Next
    <2>4. CASE RefusePayload \/ CallFails \/ UploadIsOpen \/ InsertSession
                 \/ InsertSessionThrows \/ OpenLate
      BY <2>4 DEF RefusePayload, CallFails, UploadIsOpen, InsertSession, InsertSessionThrows,
                  OpenLate
    <2>5. CASE UNCHANGED initiateVars
      BY <2>5 DEF initiateVars
    <2> QED BY <2>1, <2>2, <2>3, <2>4, <2>5 DEF InitiateNext, HandlerStep
  <1> QED BY <1>1, <1>2, PTL DEF InitiateSpec, Spec

-----------------------------------------------------------------------------

\* Nothing is stored before the call is over, and the upload that is named was opened
\* by the last attempt.
IInitiate ==
  /\ outcomes \in Seq(Outcomes)
  /\ InitiateTypeOK
  /\ handler # "answered" => sessions = {} /\ code = 0
  /\ handler = "storing" => body.uploadId # NoUpload
  /\ body.uploadId # NoUpload => /\ body.uploadId = Len(outcomes)
                                 /\ outcomes[body.uploadId] = "ok"
                                 /\ body.uploadId \in opened
  /\ handler = "validating" => body = NoBody
  /\ AnswerIsBacked

\* Appending an outcome.
LEMMA Appended ==
  ASSUME NEW s \in Seq(Outcomes), NEW o \in Outcomes
  PROVE  /\ Append(s, o) \in Seq(Outcomes) /\ Len(Append(s, o)) = Len(s) + 1
         /\ Append(s, o)[Len(s) + 1] = o /\ Len(s) \in Nat
  OBVIOUS

\* The invariant is inductive.
LEMMA InitiateInvariant == InitiateSpec => []IInitiate
  <1>1. InitiateInit => IInitiate
    BY DEF InitiateInit, Init, IInitiate, InitiateTypeOK, Body, NoBody, NoUpload, AnswerIsBacked
  <1>2. IInitiate /\ [InitiateNext]_initiateVars => IInitiate'
    <2> SUFFICES ASSUME IInitiate, [InitiateNext]_initiateVars PROVE IInitiate'
      OBVIOUS
    <2> USE DEF IInitiate, InitiateTypeOK, AnswerIsBacked
    <2>1. CASE RefusePayload
      BY <2>1 DEF RefusePayload, AnswerWith, vars
    <2>2. CASE Forward
      BY <2>2 DEF Forward, BeforeHook, NoBody, NoUpload
    <2>3. CASE CallAttempt
      <3>1. PICK outcome \in Outcomes : Attempt(outcome) /\ OpensWith(outcome)
        BY <2>3 DEF CallAttempt
      <3>2. handler = "calling" /\ UNCHANGED <<handler, code, sessions>>
        BY <2>3 DEF CallAttempt
      <3>3. outcomes' = Append(outcomes, outcome)
        BY <3>1 DEF Attempt
      <3>4. /\ outcomes' \in Seq(Outcomes) /\ Len(outcomes') = Len(outcomes) + 1
            /\ outcomes'[Len(outcomes) + 1] = outcome /\ Len(outcomes) \in Nat
        BY <3>3, Appended
      <3>5. opened' \in SUBSET Nat
        BY <3>1, <3>4 DEF OpensWith, attempt
      <3>6. /\ body' \in Body
            /\ body'.uploadId # NoUpload => /\ body'.uploadId = Len(outcomes')
                                            /\ outcome = "ok"
                                            /\ body'.uploadId \in opened'
        <4>0. NoBody \in Body /\ NoBody.uploadId = NoUpload
          BY DEF Body, NoBody, NoUpload
        <4>1. CASE body' = NoBody
          BY <4>0, <4>1
        <4>2. CASE body' # NoBody
          <5>1. /\ outcome = "ok" /\ Len(outcomes) + 1 \in opened'
                /\ body' \in [uploadId : {Len(outcomes) + 1}, isGuid : BOOLEAN]
            BY <3>1, <4>2 DEF OpensWith, attempt
          <5>2. body' \in Body /\ body'.uploadId = Len(outcomes) + 1
            BY <3>4, <5>1 DEF Body
          <5> QED BY <3>4, <5>1, <5>2
        <4> QED BY <4>1, <4>2
      <3> QED BY <3>2, <3>4, <3>5, <3>6
    <2>4. CASE CallStep
      <3>1. UNCHANGED <<outcomes, handler, code, opened, body, sessions>> /\ handler = "calling"
        BY <2>4 DEF CallStep, Return, ShouldRetryHook, Backoff, OnCompleteHook
      <3> QED BY <3>1
    <2>5. CASE CallFails
      BY <2>5 DEF CallFails, AnswerWith, vars
    <2>6. CASE UploadIsOpen
      BY <2>6 DEF UploadIsOpen, vars
    <2>7. CASE InsertSession
      <3>1. /\ sessions' = {body.uploadId} /\ handler' = "answered" /\ code' \in {200, 500}
            /\ UNCHANGED <<outcomes, opened, body>> /\ body.uploadId # NoUpload
        <4>1. sessions = {} /\ body.uploadId # NoUpload
          BY <2>7 DEF InsertSession
        <4>2. sessions' = sessions \cup {body.uploadId} /\ UNCHANGED <<outcomes, opened, body>>
          BY <2>7 DEF InsertSession, vars
        <4>3. handler' = "answered" /\ code' \in {200, 500}
          BY <2>7 DEF InsertSession, AnswerWith
        <4> QED BY <4>1, <4>2, <4>3
      <3>2. body.uploadId \in Nat
        BY DEF Body
      <3> QED BY <3>1, <3>2
    <2>8. CASE InsertSessionThrows
      <3>1. /\ sessions' \in {{}, {body.uploadId}} /\ handler' = "answered" /\ code' = 503
            /\ UNCHANGED <<outcomes, opened, body>> /\ body.uploadId # NoUpload
        <4>1. sessions = {} /\ body.uploadId # NoUpload
          BY <2>8 DEF InsertSessionThrows
        <4>2. /\ sessions' \in {sessions, sessions \cup {body.uploadId}}
              /\ UNCHANGED <<outcomes, opened, body>>
          BY <2>8 DEF InsertSessionThrows, vars
        <4>3. handler' = "answered" /\ code' = 503
          BY <2>8 DEF InsertSessionThrows, AnswerWith
        <4> QED BY <4>1, <4>2, <4>3
      <3>2. body.uploadId \in Nat
        BY DEF Body
      <3> QED BY <3>1, <3>2
    <2>9. CASE OpenLate
      <3>1. PICK i \in DOMAIN outcomes : opened' = opened \cup {i}
        BY <2>9 DEF OpenLate
      <3>2. i \in Nat /\ opened \in SUBSET Nat
        OBVIOUS
      <3>3. UNCHANGED <<outcomes, handler, code, body, sessions>>
        BY <2>9 DEF OpenLate, vars
      <3>4. opened' \in SUBSET Nat /\ opened \subseteq opened'
        <4> HIDE DEF IInitiate
        <4> QED BY <3>1, <3>2
      <3> QED BY <3>3, <3>4
    <2>10. CASE UNCHANGED initiateVars
      BY <2>10 DEF initiateVars, vars
    <2> QED BY <2>1, <2>2, <2>3, <2>4, <2>5, <2>6, <2>7, <2>8, <2>9, <2>10
            DEF InitiateNext, HandlerStep
  <1> QED BY <1>1, <1>2, PTL DEF InitiateSpec

\* Whatever becomes of the attempts before the last, an upload that is handed out is
\* open and the only one with a session.
THEOREM AnswerBacked == InitiateSpec => []AnswerIsBacked
  <1>1. IInitiate => AnswerIsBacked
    BY DEF IInitiate
  <1> QED BY <1>1, InitiateInvariant, PTL

=============================================================================

------------------------- MODULE DocumentReadsProofs -------------------------
(***************************************************************************)
(* Proofs about DocumentReads for all records, page sizes, clients and     *)
(* configurations, whichever member is read.                               *)
(***************************************************************************)
EXTENDS DocumentReads, FiniteSetTheorems, WellFoundedInduction, TLAPS

-----------------------------------------------------------------------------
(* Pages                                                                   *)

\* A set of natural numbers has a least element.
LEMMA LeastElement ==
  ASSUME NEW S \in SUBSET Nat, S # {}
  PROVE  \E m \in S : \A i \in S : m <= i
  <1>1. IsWellFoundedOn(OpToRel(<, Nat), Nat)
    BY NatLessThanWellFounded
  <1>2. PICK m \in S : \A i \in S : <<i, m>> \notin OpToRel(<, Nat)
    <2> HIDE DEF OpToRel
    <2> QED BY <1>1, WFMin
  <1>3. \A i \in S : ~(i < m)
    BY <1>2 DEF OpToRel
  <1> QED BY <1>3

\* Of some records, the newest n.
LEMMA NewestFacts ==
  ASSUME NEW ids \in SUBSET Ids, NEW n \in Nat \ {0}
  PROVE  /\ Newest(ids, n) \subseteq ids
         /\ \A d \in Newest(ids, n), e \in ids \ Newest(ids, n) : e < d
         /\ ids # {} => Newest(ids, n) # {}
         /\ HasMore(ids, n) => ids \ Newest(ids, n) # {}
         /\ ~HasMore(ids, n) => Newest(ids, n) = ids
  <1> DEFINE Above(d) == {i \in ids : i > d}
  <1>a. ids \subseteq Nat /\ IsFiniteSet(ids) /\ Cardinality(ids) \in Nat
    BY RecordAssumption, FS_Subset, FS_CardinalityType
  <1>b. \A d \in ids : /\ IsFiniteSet(Above(d)) /\ Cardinality(Above(d)) \in Nat
                       /\ Cardinality(Above(d)) < Cardinality(ids)
    <2> SUFFICES ASSUME NEW d \in ids
                 PROVE  /\ IsFiniteSet(Above(d)) /\ Cardinality(Above(d)) \in Nat
                        /\ Cardinality(Above(d)) < Cardinality(ids)
      OBVIOUS
    <2>1. Above(d) \in SUBSET ids /\ d \notin Above(d)
      BY <1>a
    <2> HIDE DEF Above
    <2>2. IsFiniteSet(Above(d)) /\ Cardinality(Above(d)) \in Nat
      BY <1>a, <2>1, FS_Subset, FS_CardinalityType
    <2>3. /\ Cardinality(Above(d)) <= Cardinality(ids)
          /\ Cardinality(Above(d)) = Cardinality(ids) => Above(d) = ids
      BY <1>a, <2>1, FS_Subset
    <2> QED BY <1>a, <2>1, <2>2, <2>3
  <1>c. \A d \in ids : d \in Newest(ids, n) <=> Cardinality(Above(d)) < n
    BY DEF Newest
  <1>1. Newest(ids, n) \subseteq ids
    BY DEF Newest
  <1>2. ASSUME NEW d \in Newest(ids, n), NEW e \in ids \ Newest(ids, n) PROVE e < d
    <2> SUFFICES ASSUME ~(e < d) PROVE FALSE
      OBVIOUS
    <2>1. d \in ids /\ e \in ids /\ d \in Nat /\ e \in Nat /\ d <= e
      <3>1. d \in ids /\ e \in ids
        BY <1>1
      <3>2. d \in Nat /\ e \in Nat
        BY <1>a, <3>1
      <3> QED BY <3>1, <3>2
    <2>2. Above(e) \in SUBSET Above(d)
      <3>1. ASSUME NEW i \in ids, i > e PROVE i > d
        <4>1. i \in Nat
          BY <1>a
        <4> QED BY <2>1, <3>1, <4>1
      <3> QED BY <3>1
    <2> HIDE DEF Above
    <2>3. Cardinality(Above(e)) <= Cardinality(Above(d))
      BY <1>b, <2>1, <2>2, FS_Subset
    <2> QED BY <1>b, <1>c, <2>1, <2>3
  <1>3. ASSUME ids # {} PROVE Newest(ids, n) # {}
    <2> DEFINE ranks == {Cardinality(Above(d)) : d \in ids}
    <2>1. ranks \in SUBSET Nat /\ ranks # {}
      BY <1>b, <1>3
    <2>2. PICK r \in ranks : \A q \in ranks : r <= q
      <3> HIDE DEF ranks
      <3> QED BY <2>1, LeastElement
    <2>3. PICK d \in ids : r = Cardinality(Above(d))
      BY <2>2
    <2>4. Above(d) = {}
      <3> SUFFICES ASSUME NEW e \in Above(d) PROVE FALSE
        OBVIOUS
      <3>0. e \in ids /\ d \in Nat /\ e \in Nat /\ e > d
        BY <1>a
      <3>1. e \in ids /\ Above(e) \in SUBSET Above(d) /\ e \notin Above(e)
        <4>1. ASSUME NEW i \in ids PROVE i > e => i > d
          <5>1. i \in Nat
            BY <1>a
          <5> QED BY <3>0, <5>1
        <4>2. ~(e > e)
          BY <3>0
        <4> QED BY <3>0, <4>1, <4>2
      <3>2. Cardinality(Above(d)) <= Cardinality(Above(e))
        <4>1. Cardinality(Above(e)) \in ranks
          BY <3>1
        <4> HIDE DEF ranks, Above
        <4> QED BY <2>2, <2>3, <4>1
      <3> HIDE DEF Above
      <3>3. /\ Cardinality(Above(e)) <= Cardinality(Above(d))
            /\ Cardinality(Above(e)) = Cardinality(Above(d)) => Above(e) = Above(d)
        BY <1>b, <3>1, FS_Subset
      <3> QED BY <1>b, <3>1, <3>2, <3>3
    <2>5. Cardinality(Above(d)) = 0
      BY <2>4, FS_EmptySet
    <2> QED BY <1>c, <2>3, <2>5
  <1>4. ASSUME HasMore(ids, n) PROVE ids \ Newest(ids, n) # {}
    <2>1. ids # {}
      BY <1>4, FS_EmptySet DEF HasMore
    <2>2. PICK m \in ids : \A i \in ids : m <= i
      BY <1>a, <2>1, LeastElement
    <2>3. Above(m) = ids \ {m}
      <3>1. ASSUME NEW i \in ids PROVE i > m <=> i # m
        <4>1. i \in Nat /\ m \in Nat /\ m <= i
          BY <1>a, <2>2
        <4> QED BY <4>1
      <3> QED BY <3>1
    <2>4. Cardinality(Above(m)) = Cardinality(ids) - 1
      BY <1>a, <2>2, <2>3, FS_RemoveElement
    <2>5. ~(Cardinality(Above(m)) < n)
      BY <1>a, <1>4, <2>4 DEF HasMore
    <2> QED BY <1>c, <2>2, <2>5
  <1>5. ASSUME ~HasMore(ids, n) PROVE Newest(ids, n) = ids
    <2>1. ASSUME NEW d \in ids PROVE d \in Newest(ids, n)
      <3>1. Cardinality(Above(d)) < Cardinality(ids) /\ Cardinality(Above(d)) \in Nat
        BY <1>b
      <3>2. Cardinality(ids) <= n
        BY <1>a, <1>5 DEF HasMore
      <3> HIDE DEF Above
      <3>3. Cardinality(Above(d)) < n
        BY <1>a, <3>1, <3>2
      <3> QED BY <1>c, <3>3
    <2> QED BY <1>1, <2>1
  <1> QED BY <1>1, <1>2, <1>3, <1>4, <1>5

\* The cursor is the oldest record of the page.
LEMMA CursorFacts ==
  ASSUME NEW page \in SUBSET Ids, page # {}
  PROVE  NextCursor(page) \in page /\ \A i \in page : NextCursor(page) <= i
  <1>1. \E m \in page : \A i \in page : m <= i
    BY RecordAssumption, LeastElement
  <1> QED BY <1>1 DEF NextCursor

-----------------------------------------------------------------------------
(* Access                                                                  *)

\* A tenant that is configured has a last entry.
LEMMA LastEntry ==
  ASSUME NEW s \in Seq(TenantConfig), NEW i \in DOMAIN s
  PROVE  \E k \in DOMAIN s : /\ s[k].tenant = s[i].tenant
                             /\ \A j \in DOMAIN s : j > k => s[j].tenant # s[i].tenant
  <1> DEFINE entries == {k \in DOMAIN s : s[k].tenant = s[i].tenant}
             distances == {Len(s) - k : k \in entries}
  <1>1. Len(s) \in Nat /\ DOMAIN s = 1 .. Len(s)
    OBVIOUS
  <1>2. distances \in SUBSET Nat /\ distances # {}
    <2>1. \A k \in entries : Len(s) - k \in Nat
      BY <1>1
    <2>2. i \in entries
      OBVIOUS
    <2> QED BY <2>1, <2>2
  <1>3. PICK m \in distances : \A n \in distances : m <= n
    <2> HIDE DEF distances
    <2> QED BY <1>2, LeastElement
  <1>4. PICK k \in entries : m = Len(s) - k
    BY <1>3
  <1>5. ASSUME NEW j \in DOMAIN s, j > k PROVE j \notin entries
    <2>1. j \in entries => Len(s) - k <= Len(s) - j
      BY <1>3, <1>4
    <2>2. j \in Int /\ k \in Int
      BY <1>1
    <2> HIDE DEF entries
    <2> QED BY <1>1, <1>5, <2>1, <2>2
  <1> QED BY <1>5

\* The strategy lets in whom the configuration lets in, unless a tenant has two
\* entries; and nobody else.
THEOREM AuthenticationIsOwn ==
  ASSUME NEW c, IsConfiguration(c), NEW token \in Token, Issuers(c) # {}
  PROVE  /\ Authenticated(c, token) => Entitled(c, token)
         /\ Entitled(c, token) => Authenticated(c, token) \/ IsListedTwice(c, token.iss)
  <1> DEFINE listed == \E i \in DOMAIN c.tenants : c.tenants[i].tenant = token.iss
             IsLast(k) == /\ c.tenants[k].tenant = token.iss
                          /\ \A j \in DOMAIN c.tenants : j > k => c.tenants[j].tenant # token.iss
             last == CHOOSE k \in DOMAIN c.tenants : IsLast(k)
  <1>1. listed => last \in DOMAIN c.tenants /\ IsLast(last)
    <2>1. c.tenants \in Seq(TenantConfig)
      BY DEF IsConfiguration
    <2>2. ASSUME listed PROVE \E k \in DOMAIN c.tenants : IsLast(k)
      BY <2>1, <2>2, LastEntry
    <2> HIDE DEF IsLast
    <2> QED BY <2>2
  <1>2. AllowedGroupIds(c, token.iss) = c.tenants[last].groups
    BY DEF AllowedGroupIds
  <1>3. token.iss = UserPool => ~listed
    <2>1. c.tenants \in Seq(TenantConfig)
      BY DEF IsConfiguration
    <2>2. ASSUME NEW i \in DOMAIN c.tenants PROVE c.tenants[i].tenant # UserPool
      <3>1. c.tenants[i] \in TenantConfig
        BY <2>1
      <3> QED BY <3>1, AccessAssumption DEF TenantConfig
    <2> QED BY <2>2
  <1>4. token.iss \in Issuers(c) <=> (c.entra /\ listed) \/ (c.cognito /\ token.iss = UserPool)
    BY DEF Issuers
  <1>5. Authenticated(c, token) =>
          token.sound /\ token.iss \in Issuers(c) /\ token.typ # "other" /\ CheckAllowed(c, token)
    BY DEF Authenticated, Validate
  <1>6. ASSUME Authenticated(c, token) PROVE Entitled(c, token)
    <2>1. CASE token.iss = UserPool
      BY <1>3, <1>4, <1>5, <1>6, <2>1 DEF CheckAllowed, Entitled
    <2>2. CASE token.iss # UserPool
      <3>1. c.entra /\ last \in DOMAIN c.tenants /\ c.tenants[last].tenant = token.iss
        BY <1>1, <1>4, <1>5, <1>6, <2>2
      <3>2. token.groups \cap c.tenants[last].groups # {}
        BY <1>2, <1>5, <1>6, <2>2 DEF CheckAllowed
      <3> HIDE DEF last
      <3>3. c.tenants[last].groups \cap token.groups # {}
        BY <3>2
      <3> QED BY <1>5, <1>6, <3>1, <3>3 DEF Entitled
    <2> QED BY <2>1, <2>2
  <1>7. ASSUME Entitled(c, token), ~IsListedTwice(c, token.iss) PROVE Authenticated(c, token)
    <2>1. token.sound /\ token.typ # "other"
      BY <1>7 DEF Entitled
    <2>2. CASE token.iss = UserPool
      <3>1. c.cognito /\ token.client \in c.clientIds
        BY <1>3, <1>7, <2>2 DEF Entitled
      <3> QED BY <1>4, <2>1, <2>2, <3>1 DEF Authenticated, Validate, CheckAllowed
    <2>3. CASE token.iss # UserPool
      <3>1. /\ c.entra
            /\ \E i \in DOMAIN c.tenants :
                 c.tenants[i].tenant = token.iss /\ c.tenants[i].groups \cap token.groups # {}
        BY <1>7, <2>3 DEF Entitled
      <3>2. PICK i \in DOMAIN c.tenants :
              c.tenants[i].tenant = token.iss /\ c.tenants[i].groups \cap token.groups # {}
        BY <3>1
      <3>3. last \in DOMAIN c.tenants /\ c.tenants[last].tenant = token.iss
        BY <1>1, <3>2
      <3> HIDE DEF last
      <3>4. last = i
        BY <1>7, <3>2, <3>3 DEF IsListedTwice
      <3>5. token.groups \cap AllowedGroupIds(c, token.iss) # {}
        BY <1>2, <3>2, <3>4
      <3> QED BY <1>4, <2>1, <2>3, <3>1, <3>2, <3>5 DEF Authenticated, Validate, CheckAllowed
    <2> QED BY <2>2, <2>3
  <1> QED BY <1>6, <1>7

-----------------------------------------------------------------------------
(* The inductive invariant                                                 *)

\* What a walk knows of the records the member that is read has in view.  Before
\* the first answer nothing is returned; while it goes on, all that existed and
\* is not returned lies below the cursor, and something does.
WalkHolds(view, w) ==
  /\ w.returned \subseteq view
  /\ w.existed \subseteq {id \in view : SbiOf[id] = w.sbi}
  /\ w.over => w.existed \subseteq w.returned
  /\ ~w.over /\ w.after = NoId => w.returned = {}
  /\ ~w.over /\ w.after # NoId =>
       /\ \A r \in w.returned : w.after <= r
       /\ \A id \in w.existed : id \in w.returned \/ id < w.after
       /\ Matching(view, w.sbi, w.after) # {}

\* What a request for a page knows, and what its page does once it is read.
PageHolds(view, w, r) ==
  /\ ~w.over
  /\ r.size \in 1 .. MaxPageSize
  /\ IsRead(r) =>
       /\ r.docs \subseteq Matching(view, w.sbi, w.after)
       /\ w.after # NoId => r.docs # {}
       /\ r.hasMore => /\ r.docs # {}
                       /\ \E id \in Matching(view, w.sbi, w.after) :
                            \A d \in r.docs : id < d
       /\ \A id \in w.existed :
            w.after = NoId \/ id < w.after =>
              id \in r.docs \/ (r.hasMore /\ \A d \in r.docs : id < d)

\* A listed file that was looked up was found.
BlobHolds(view, w, r) ==
  IsRead(r) => (r.id \in w.returned => r.found)

RequestHolds(view, w, r) ==
  /\ r.pc # "idle" /\ r.kind = "page" => PageHolds(view, w, r)
  /\ r.pc # "idle" /\ r.kind = "blob" => BlobHolds(view, w, r)

ClientHolds(view, w, r) == WalkHolds(view, w) /\ RequestHolds(view, w, r)

IInv == /\ TypeOK
        /\ \A c \in Clients : ClientHolds(ReadView, walk[c], request[c])
        /\ EveryReadIsAudited
        /\ AccessIsOwn

-----------------------------------------------------------------------------
(* Types                                                                   *)

\* Initially everything has its type.
LEMMA TypeInit == Init => TypeOK
  <1> SUFFICES ASSUME Init PROVE TypeOK
    OBVIOUS
  <1>1. request \in [Clients -> Request \cup {Idle}]
    BY DEF Init
  <1>2. \A s \in Sbis : [sbi |-> s, after |-> NoId, existed |-> {}, returned |-> {},
                         over |-> FALSE] \in Walk
    BY DEF Walk
  <1>3. walk \in [Clients -> Walk]
    BY <1>2 DEF Init
  <1> QED BY <1>1, <1>3 DEF Init, TypeOK

\* Events and answers move the balances of one client's records.
LEMMA AddIs ==
  ASSUME balance \in [Clients -> [Ids -> Int]],
         NEW c \in Clients, NEW ids, NEW n \in Int, Add(c, ids, n)
  PROVE  /\ balance' \in [Clients -> [Ids -> Int]]
         /\ \A d \in Clients \ {c} : balance'[d] = balance[d]
         /\ \A id \in Ids : balance'[c][id] = IF id \in ids THEN balance[c][id] + n
                                              ELSE balance[c][id]
  <1> DEFINE moved == [id \in Ids |-> IF id \in ids THEN balance[c][id] + n
                                     ELSE balance[c][id]]
  <1>1. balance' = [balance EXCEPT ![c] = moved]
    BY DEF Add
  <1>2. moved \in [Ids -> Int]
    OBVIOUS
  <1>3. \A id \in Ids : moved[id] = IF id \in ids THEN balance[c][id] + n ELSE balance[c][id]
    OBVIOUS
  <1> HIDE DEF moved
  <1> QED BY <1>1, <1>2, <1>3

LEMMA AddType ==
  ASSUME TypeOK, NEW c \in Clients, NEW ids, NEW n \in Int, Add(c, ids, n)
  PROVE  balance' \in [Clients -> [Ids -> Int]]
  BY AddIs DEF TypeOK

\* Every step keeps the types; an answer with hasMore has a record to be the cursor.
LEMMA TypeStep ==
  ASSUME TypeOK, [Next]_vars,
         \A c \in Clients : IsRead(request[c]) /\ request[c].kind = "page"
                              /\ request[c].hasMore => request[c].docs # {}
  PROVE  TypeOK'
  <1> USE DEF TypeOK, trail
  <1>0. \A c \in Clients : request[c].pc # "idle" => request[c] \in Request
    BY DEF Idle
  <1>1. ASSUME NEW ids \in SUBSET Ids \ {{}}, InsertMany(ids) PROVE TypeOK'
    BY <1>1 DEF InsertMany
  <1>2. CASE Replicate
    BY <1>2 DEF Replicate
  <1>b. ASSUME NEW c \in Clients, NEW kind \in {"page", "blob"}, NEW token \in Tokens,
               NEW size \in 0 .. MaxPageSize, NEW id \in Ids \cup {NoId},
               Send(c, Ask(kind, token, size, id))
        PROVE  TypeOK'
    <2>1. [Ask(kind, token, size, id) EXCEPT !.pc = "reading"] \in Request
      BY DEF Ask, Request
    <2>2. [Ask(kind, token, size, id) EXCEPT !.pc = "refused"] \in Request
      BY DEF Ask, Request
    <2>3. request' \in [Clients -> Request \cup {Idle}]
      <3> DEFINE ask == Ask(kind, token, size, id)
      <3> HIDE DEF ask
      <3> QED BY <1>b, <2>1, <2>2 DEF Send, ask
    <2> QED BY <1>b, <2>3 DEF Send
  <1>3. ASSUME NEW c \in Clients, NEW token \in Tokens, NEW size \in 1 .. MaxPageSize,
               AskPage(c, token, size)
        PROVE  TypeOK'
    <2>1. size \in 0 .. MaxPageSize
      BY PageAssumption
    <2> QED BY <1>3, <1>b, <2>1 DEF AskPage
  <1>4. ASSUME NEW c \in Clients, NEW token \in Tokens, NEW id \in Ids, AskBlob(c, token, id)
        PROVE  TypeOK'
    <2>1. 0 \in 0 .. MaxPageSize
      BY PageAssumption
    <2> QED BY <1>4, <1>b, <2>1 DEF AskBlob
  <1>5. ASSUME NEW c \in Clients, Refuse(c) PROVE TypeOK'
    BY <1>5 DEF Refuse
  <1>6. ASSUME NEW c \in Clients, ReadPage(c) PROVE TypeOK'
    <2>1. request[c] \in Request /\ walk[c] \in Walk
      BY <1>0, <1>6 DEF ReadPage
    <2> DEFINE ids == Matching(ReadView, walk[c].sbi, walk[c].after)
    <2>2. ids \in SUBSET Ids /\ Newest(ids, request[c].size) \in SUBSET Ids
      BY DEF Matching, Newest, ReadView
    <2>3. HasMore(ids, request[c].size) \in BOOLEAN
      BY DEF HasMore
    <2>4. request' \in [Clients -> Request \cup {Idle}]
      <3> HIDE DEF ids
      <3> QED BY <1>6, <2>1, <2>2, <2>3 DEF ReadPage, Request, ids
    <2>5. walk' \in [Clients -> Walk]
      <3> HIDE DEF ids
      <3> QED BY <1>6, <2>1, <2>2 DEF ReadPage, Walk, ids
    <2> QED BY <1>6, <2>4, <2>5 DEF ReadPage
  <1>7. ASSUME NEW c \in Clients, ReadBlob(c) PROVE TypeOK'
    <2>1. request[c] \in Request
      BY <1>0, <1>7 DEF ReadBlob
    <2> DEFINE docs == {request[c].id} \cap ReadView
               found == request[c].id \in ReadView
               next == IF found THEN "auditing" ELSE "answering"
    <2>2. docs \in SUBSET Ids /\ found \in BOOLEAN /\ next \in {"auditing", "answering"}
      BY DEF ReadView
    <2>3. request' \in [Clients -> Request \cup {Idle}]
      <3>1. request' = [request EXCEPT ![c].pc = next, ![c].docs = docs, ![c].found = found]
        BY <1>7 DEF ReadBlob
      <3> HIDE DEF docs, found, next
      <3> QED BY <2>1, <2>2, <3>1 DEF Request
    <2> QED BY <1>7, <2>3 DEF ReadBlob
  <1>8. ASSUME NEW c \in Clients, Answer(c) PROVE TypeOK'
    <2>1. request[c] \in Request /\ walk[c] \in Walk
      BY <1>0, <1>8 DEF Answer
    <2>2. request[c].docs \in SUBSET Ids /\ request[c].hasMore \in BOOLEAN
      BY <2>1 DEF Request
    <2>3. walk' \in [Clients -> Walk]
      <3>1. CASE request[c].kind = "blob"
        BY <1>8, <3>1 DEF Answer
      <3>2. CASE request[c].kind # "blob"
        <4> DEFINE next == IF request[c].hasMore THEN NextCursor(request[c].docs)
                           ELSE walk[c].after
        <4>0. request[c].kind = "page"
          BY <2>1, <3>2 DEF Request
        <4>1. next \in Ids \cup {NoId}
          <5>1. CASE request[c].hasMore
            <6>1. request[c].docs # {}
              BY <1>8, <4>0, <5>1 DEF Answer, IsRead
            <6> QED BY <2>2, <5>1, <6>1, CursorFacts
          <5>2. CASE ~request[c].hasMore
            BY <2>1, <5>2 DEF Walk
          <5> QED BY <5>1, <5>2
        <4> HIDE DEF next
        <4>2. walk' = [walk EXCEPT ![c].returned = @ \cup request[c].docs,
                                   ![c].over = ~request[c].hasMore,
                                   ![c].after = next]
          BY <1>8, <3>2 DEF Answer, next
        <4> QED BY <2>1, <2>2, <4>1, <4>2 DEF Walk
      <3> QED BY <3>1, <3>2
    <2> QED BY <1>8, <2>3, AddType DEF Answer
  <1>9. ASSUME NEW c \in Clients, RequestThrows(c) PROVE TypeOK'
    BY <1>9 DEF RequestThrows
  <1>11. ASSUME NEW c \in Clients, SendReadEvent(c) PROVE TypeOK'
    <2>1. request[c] \in Request
      BY <1>0, <1>11 DEF SendReadEvent
    <2>2. request' \in [Clients -> Request \cup {Idle}]
      BY <1>11, <2>1 DEF SendReadEvent, Request
    <2>3. balance' \in [Clients -> [Ids -> Int]] /\ refusals' \in Nat
      BY <1>11, AddType DEF SendReadEvent, Publish
    <2> QED BY <1>11, <2>2, <2>3 DEF SendReadEvent
  <1>10. CASE UNCHANGED vars
    BY <1>10 DEF vars, trail
  <1> QED BY <1>1, <1>2, <1>3, <1>4, <1>5, <1>6, <1>7, <1>8, <1>9, <1>10, <1>11
          DEF Next, Handle

-----------------------------------------------------------------------------
(* Walks                                                                   *)

\* Nothing a client knows is undone by records that appear.
LEMMA ViewGrows ==
  ASSUME NEW view, NEW view2, view \subseteq view2, NEW w, NEW r, ClientHolds(view, w, r)
  PROVE  ClientHolds(view2, w, r)
  <1>1. Matching(view, w.sbi, w.after) \subseteq Matching(view2, w.sbi, w.after)
    BY DEF Matching
  <1>2. WalkHolds(view2, w)
    BY <1>1 DEF ClientHolds, WalkHolds
  <1>3. PageHolds(view, w, r) => PageHolds(view2, w, r)
    BY <1>1 DEF PageHolds, IsRead
  <1>4. BlobHolds(view, w, r) => BlobHolds(view2, w, r)
    BY DEF BlobHolds, IsRead
  <1> QED BY <1>2, <1>3, <1>4 DEF ClientHolds, RequestHolds

\* Reading a page keeps what a client knows.
LEMMA PageIsRead ==
  ASSUME NEW view \in SUBSET Ids, NEW w \in Walk, NEW w2 \in Walk, NEW r, NEW r2,
         ClientHolds(view, w, r),
         r.pc = "reading", r.kind = "page", r2.pc = "auditing", r2.kind = "page",
         r2.size = r.size,
         r2.docs = Newest(Matching(view, w.sbi, w.after), r.size),
         r2.hasMore = HasMore(Matching(view, w.sbi, w.after), r.size),
         w2.sbi = w.sbi, w2.after = w.after, w2.returned = w.returned, w2.over = w.over,
         w2.existed = IF w.after = NoId THEN Matching(view, w.sbi, w.after) ELSE w.existed
  PROVE  ClientHolds(view, w2, r2)
  <1> DEFINE ids == Matching(view, w.sbi, w.after)
  <1>1. WalkHolds(view, w) /\ ~w.over /\ r.size \in 1 .. MaxPageSize
    BY DEF ClientHolds, RequestHolds, PageHolds
  <1>2. ids \in SUBSET Ids /\ ids \subseteq view
    BY DEF Matching
  <1>3. r.size \in Nat \ {0}
    BY <1>1, PageAssumption
  <1>4. /\ r2.docs \subseteq ids
        /\ \A d \in r2.docs, e \in ids \ r2.docs : e < d
        /\ ids # {} => r2.docs # {}
        /\ r2.hasMore => ids \ r2.docs # {}
        /\ ~r2.hasMore => r2.docs = ids
    <2> HIDE DEF ids
    <2>1. r2.docs = Newest(ids, r.size) /\ r2.hasMore = HasMore(ids, r.size)
      BY DEF ids
    <2> QED BY <1>2, <1>3, <2>1, NewestFacts
  <1>5. WalkHolds(view, w2)
    <2>1. ids \subseteq {id \in view : SbiOf[id] = w.sbi}
      BY DEF Matching
    <2> HIDE DEF ids
    <2>2. w2.existed = IF w.after = NoId THEN ids ELSE w.existed
      BY DEF ids
    <2> QED BY <1>1, <2>1, <2>2 DEF WalkHolds
  <1>6. w2.after # NoId => r2.docs # {}
    BY <1>1, <1>4 DEF WalkHolds
  <1>7. r2.hasMore => r2.docs # {} /\ \E id \in ids : \A d \in r2.docs : id < d
    BY <1>4
  <1>8. ASSUME NEW id \in w2.existed, w2.after = NoId \/ id < w2.after
        PROVE  id \in ids
    <2>1. CASE w.after = NoId
      BY <1>8, <2>1
    <2>2. CASE w.after # NoId
      <3>1. id \in w.existed /\ id < w.after
        BY <1>8, <2>2
      <3>2. id \in view /\ SbiOf[id] = w.sbi
        BY <1>1, <3>1 DEF WalkHolds
      <3> QED BY <3>1, <3>2 DEF Matching
    <2> QED BY <2>1, <2>2
  <1>9. ASSUME NEW id \in w2.existed, w2.after = NoId \/ id < w2.after
        PROVE  id \in r2.docs \/ (r2.hasMore /\ \A d \in r2.docs : id < d)
    <2>1. id \in ids
      BY <1>8, <1>9
    <2> HIDE DEF ids
    <2>2. id \in r2.docs \/ id \in ids \ r2.docs
      BY <2>1
    <2>3. id \in ids \ r2.docs => r2.hasMore
      BY <1>4
    <2>4. id \in ids \ r2.docs => \A d \in r2.docs : id < d
      BY <1>4
    <2>5. CASE id \in r2.docs
      BY <2>5
    <2>6. CASE id \in ids \ r2.docs
      <3>1. r2.hasMore
        BY <2>3, <2>6
      <3>2. \A d \in r2.docs : id < d
        BY <2>4, <2>6
      <3> QED BY <3>1, <3>2
    <2> QED BY <2>2, <2>5, <2>6
  <1>10. PageHolds(view, w2, r2)
    <2>1. Matching(view, w2.sbi, w2.after) = ids
      OBVIOUS
    <2> HIDE DEF ids
    <2> QED BY <1>1, <1>4, <1>6, <1>7, <1>9, <2>1 DEF PageHolds, IsRead
  <1> QED BY <1>5, <1>10 DEF ClientHolds, RequestHolds

\* Answering with a page keeps what a client knows.
LEMMA PageIsAnswered ==
  ASSUME NEW view \in SUBSET Ids, NEW w \in Walk, NEW w2 \in Walk, NEW r \in Request,
         ClientHolds(view, w, r), IsRead(r), r.kind = "page",
         w2.sbi = w.sbi, w2.existed = w.existed,
         w2.returned = w.returned \cup r.docs,
         w2.over = ~r.hasMore,
         w2.after = IF r.hasMore THEN NextCursor(r.docs) ELSE w.after
  PROVE  ClientHolds(view, w2, Idle)
  <1>1. WalkHolds(view, w) /\ PageHolds(view, w, r)
    BY DEF ClientHolds, RequestHolds, IsRead
  <1>2. ~w.over /\ r.docs \subseteq Matching(view, w.sbi, w.after) /\ r.hasMore \in BOOLEAN
    BY <1>1 DEF PageHolds, Request
  <1>3. r.docs \in SUBSET Ids /\ Ids \subseteq Nat \ {0} /\ w.after \in Ids \cup {NoId}
    BY RecordAssumption DEF Request, Walk
  <1>4. r.docs \subseteq view
    BY <1>2 DEF Matching
  <1>5. w2.returned \subseteq view /\ w2.existed \subseteq {id \in view : SbiOf[id] = w2.sbi}
    BY <1>1, <1>4 DEF WalkHolds
  <1>6. ASSUME NEW id \in w.existed
        PROVE  \/ id \in w2.returned
               \/ r.hasMore /\ \A d \in r.docs : id < d
    <2>1. id \in w.returned \/ w.after = NoId \/ id < w.after
      BY <1>1, <1>2 DEF WalkHolds
    <2>2. w.after = NoId \/ id < w.after =>
            id \in r.docs \/ (r.hasMore /\ \A d \in r.docs : id < d)
      BY <1>1, <1>6 DEF PageHolds
    <2> QED BY <2>1, <2>2
  <1>7. CASE ~r.hasMore
    <2>1. w2.over /\ w2.existed \subseteq w2.returned
      BY <1>6, <1>7
    <2> QED BY <1>5, <2>1 DEF ClientHolds, WalkHolds, RequestHolds, Idle
  <1>8. CASE r.hasMore
    <2>1. ~w2.over /\ w2.after = NextCursor(r.docs)
      BY <1>8
    <2>2. r.docs # {}
      BY <1>1, <1>8 DEF PageHolds
    <2>3. w2.after \in r.docs /\ \A d \in r.docs : w2.after <= d
      BY <1>3, <2>1, <2>2, CursorFacts
    <2>4. w2.after \in Nat /\ w2.after # NoId
      BY <1>3, <2>3 DEF NoId
    <2>5. w.after # NoId => w2.after < w.after
      BY <1>2, <2>3 DEF Matching
    <2>6. ASSUME NEW x \in w2.returned PROVE w2.after <= x
      <3>1. CASE x \in r.docs
        BY <2>3, <3>1
      <3>2. CASE x \in w.returned
        <4>1. w.after # NoId /\ w.after <= x
          BY <1>1, <1>2, <3>2 DEF WalkHolds
        <4>2. x \in Nat /\ w.after \in Nat
          <5>1. x \in view
            BY <1>1, <3>2 DEF WalkHolds
          <5> QED BY <1>3, <4>1, <5>1
        <4> QED BY <2>4, <2>5, <4>1, <4>2
      <3> QED BY <3>1, <3>2
    <2>7. ASSUME NEW id \in w2.existed PROVE id \in w2.returned \/ id < w2.after
      BY <1>6, <2>3
    <2>8. Matching(view, w2.sbi, w2.after) # {}
      <3>1. PICK id \in Matching(view, w.sbi, w.after) : \A d \in r.docs : id < d
        BY <1>1, <1>8 DEF PageHolds
      <3>2. id < w2.after /\ id \in view /\ SbiOf[id] = w2.sbi
        BY <2>3, <3>1 DEF Matching
      <3> QED BY <3>2 DEF Matching
    <2>9. WalkHolds(view, w2)
      BY <1>5, <2>1, <2>4, <2>6, <2>7, <2>8 DEF WalkHolds
    <2> QED BY <2>9 DEF ClientHolds, RequestHolds, Idle
  <1> QED BY <1>2, <1>7, <1>8

-----------------------------------------------------------------------------
(* The invariant is inductive                                              *)

\* Records are never deleted, on either member.
LEMMA ViewStep == TypeOK /\ [Next]_vars => ReadView \subseteq ReadView'
  <1> SUFFICES ASSUME TypeOK, [Next]_vars PROVE ReadView \subseteq ReadView'
    OBVIOUS
  <1>1. ASSUME NEW ids \in SUBSET Ids \ {{}}, InsertMany(ids) PROVE ReadView \subseteq ReadView'
    BY <1>1 DEF InsertMany, ReadView
  <1>2. CASE Replicate
    BY <1>2 DEF Replicate, ReadView, TypeOK
  <1>3. CASE UNCHANGED <<stored, replica>>
    BY <1>3 DEF ReadView
  <1>4. ASSUME NEW c \in Clients,
               \/ \E token \in Tokens, size \in 1 .. MaxPageSize : AskPage(c, token, size)
               \/ \E token \in Tokens, id \in Ids : AskBlob(c, token, id)
               \/ Handle(c)
               \/ RequestThrows(c)
        PROVE  UNCHANGED <<stored, replica>>
    BY <1>4 DEF AskPage, AskBlob, Send, Handle, Refuse, ReadPage, ReadBlob, SendReadEvent,
       Answer, RequestThrows
  <1> QED BY <1>1, <1>2, <1>3, <1>4 DEF Next, vars, trail

\* Every step keeps what the clients know.
LEMMA ClientStep ==
  ASSUME IInv, [Next]_vars, TypeOK', NEW d \in Clients
  PROVE  ClientHolds(ReadView', walk'[d], request'[d])
  <1>0. ClientHolds(ReadView, walk[d], request[d]) /\ TypeOK
    BY DEF IInv
  <1>a. ReadView \subseteq ReadView'
    BY <1>0, ViewStep
  <1>b. CASE walk'[d] = walk[d] /\ request'[d] = request[d]
    BY <1>0, <1>a, <1>b, ViewGrows
  <1>c. CASE walk'[d] = walk[d] /\ request'[d] = Idle
    <2>1. ClientHolds(ReadView, walk'[d], request'[d])
      BY <1>0, <1>c DEF ClientHolds, RequestHolds, Idle
    <2> QED BY <1>a, <2>1, ViewGrows
  <1>1. ASSUME NEW c \in Clients, NEW kind, NEW token, NEW size, NEW id,
               Send(c, Ask(kind, token, size, id)), kind \in {"page", "blob"},
               kind = "page" => ~walk[c].over /\ size \in 1 .. MaxPageSize
        PROVE  ClientHolds(ReadView', walk'[d], request'[d])
    <2>1. CASE c # d
      BY <1>1, <1>b, <2>1 DEF Send, TypeOK
    <2>2. CASE c = d
      <3>1. walk'[d] = walk[d] /\ ReadView' = ReadView
        BY <1>1 DEF Send, ReadView
      <3>2. /\ request'[d].pc \in {"reading", "refused"}
            /\ request'[d].kind = kind /\ request'[d].size = size
        <4>1. request'[d] = [Ask(kind, token, size, id) EXCEPT !.pc =
                IF Authenticated(config, Ask(kind, token, size, id).token)
                THEN "reading" ELSE "refused"]
          BY <1>0, <1>1, <2>2 DEF Send, TypeOK
        <4> QED BY <4>1 DEF Ask
      <3>3. RequestHolds(ReadView, walk[d], request'[d])
        BY <1>1, <2>2, <3>2 DEF RequestHolds, PageHolds, BlobHolds, IsRead
      <3> QED BY <1>0, <3>1, <3>3 DEF ClientHolds
    <2> QED BY <2>1, <2>2
  <1>2. ASSUME NEW c \in Clients, ReadPage(c)
        PROVE  ClientHolds(ReadView', walk'[d], request'[d])
    <2>1. CASE c # d
      <3>1. walk'[d] = walk[d] /\ request'[d] = request[d]
        BY <1>0, <1>2, <2>1 DEF ReadPage, TypeOK
      <3> QED BY <1>b, <3>1
    <2>2. CASE c = d
      <3>1. ReadView' = ReadView /\ ReadView \in SUBSET Ids
        BY <1>0, <1>2 DEF ReadPage, ReadView, TypeOK
      <3>2. walk[d] \in Walk /\ walk'[d] \in Walk
        BY <1>0 DEF TypeOK
      <3> DEFINE ids == Matching(ReadView, walk[d].sbi, walk[d].after)
                 more == HasMore(ids, request[d].size)
                 found == walk[d].after # NoId \/ ids # {}
      <3>3. request[d] \in Request
        BY <1>0, <1>2, <2>2 DEF ReadPage, TypeOK, Idle
      <3>4. request'[d] = [request[d] EXCEPT !.pc = "auditing",
                                             !.docs = Newest(ids, request[d].size),
                                             !.hasMore = more, !.found = found]
        BY <1>0, <1>2, <2>2 DEF ReadPage, TypeOK
      <3>5. walk'[d] = [walk[d] EXCEPT !.existed = IF walk[d].after = NoId THEN ids ELSE @]
        BY <1>0, <1>2, <2>2 DEF ReadPage, TypeOK
      <3>6. /\ request[d].pc = "reading" /\ request[d].kind = "page"
            /\ request'[d].pc = "auditing" /\ request'[d].kind = "page"
            /\ request'[d].size = request[d].size
            /\ request'[d].docs = Newest(ids, request[d].size)
            /\ request'[d].hasMore = more
        <4>1. request[d].pc = "reading" /\ request[d].kind = "page"
          BY <1>2, <2>2 DEF ReadPage
        <4> HIDE DEF ids, more, found
        <4> QED BY <3>3, <3>4, <4>1 DEF Request
      <3>7. /\ walk'[d].sbi = walk[d].sbi /\ walk'[d].after = walk[d].after
            /\ walk'[d].returned = walk[d].returned /\ walk'[d].over = walk[d].over
            /\ walk'[d].existed = IF walk[d].after = NoId THEN ids ELSE walk[d].existed
        <4> HIDE DEF ids
        <4> QED BY <3>2, <3>5 DEF Walk
      <3> QED BY <1>0, <3>1, <3>2, <3>6, <3>7, PageIsRead
    <2> QED BY <2>1, <2>2
  <1>3. ASSUME NEW c \in Clients, ReadBlob(c)
        PROVE  ClientHolds(ReadView', walk'[d], request'[d])
    <2>1. CASE c # d
      <3>1. walk'[d] = walk[d] /\ request'[d] = request[d]
        BY <1>0, <1>3, <2>1 DEF ReadBlob, TypeOK
      <3> QED BY <1>b, <3>1
    <2>2. CASE c = d
      <3>1. ReadView' = ReadView /\ walk'[d] = walk[d]
        BY <1>3 DEF ReadBlob, ReadView
      <3> DEFINE found == request[d].id \in ReadView
                 next == IF found THEN "auditing" ELSE "answering"
      <3>2. request[d] \in Request
        BY <1>0, <1>3, <2>2 DEF ReadBlob, TypeOK, Idle
      <3>3. request'[d] = [request[d] EXCEPT !.pc = next,
                                             !.docs = {request[d].id} \cap ReadView,
                                             !.found = found]
        BY <1>0, <1>3, <2>2 DEF ReadBlob, TypeOK
      <3>4. /\ request'[d].kind = "blob"
            /\ request'[d].id = request[d].id /\ request'[d].found = found
        <4>1. request[d].kind = "blob"
          BY <1>3, <2>2 DEF ReadBlob
        <4> HIDE DEF found, next
        <4> QED BY <3>2, <3>3, <4>1 DEF Request
      <3>5. walk[d].returned \subseteq ReadView
        BY <1>0 DEF ClientHolds, WalkHolds
      <3>6. RequestHolds(ReadView, walk[d], request'[d])
        BY <3>4, <3>5 DEF RequestHolds, BlobHolds
      <3> QED BY <1>0, <3>1, <3>6 DEF ClientHolds
    <2> QED BY <2>1, <2>2
  <1>4. ASSUME NEW c \in Clients, Answer(c)
        PROVE  ClientHolds(ReadView', walk'[d], request'[d])
    <2>1. CASE c # d
      <3>1. walk'[d] = walk[d] /\ request'[d] = request[d]
        BY <1>0, <1>4, <2>1 DEF Answer, TypeOK
      <3> QED BY <1>b, <3>1
    <2>2. CASE c = d /\ request[d].kind = "blob"
      BY <1>0, <1>4, <1>c, <2>2 DEF Answer, TypeOK
    <2>3. CASE c = d /\ request[d].kind # "blob"
      <3>1. request'[d] = Idle /\ ReadView' = ReadView /\ ReadView \in SUBSET Ids
        BY <1>0, <1>4, <2>3 DEF Answer, ReadView, TypeOK
      <3>2. walk[d] \in Walk /\ walk'[d] \in Walk /\ request[d] \in Request
        BY <1>0, <1>4, <2>3 DEF Answer, TypeOK, Idle
      <3>3. IsRead(request[d]) /\ request[d].kind = "page"
        BY <1>4, <2>3, <3>2 DEF Answer, Request, IsRead
      <3> DEFINE next == IF request[d].hasMore THEN NextCursor(request[d].docs)
                         ELSE walk[d].after
      <3>4. walk'[d] = [walk[d] EXCEPT !.returned = @ \cup request[d].docs,
                                       !.over = ~request[d].hasMore,
                                       !.after = next]
        BY <1>0, <1>4, <2>3 DEF Answer, TypeOK
      <3>5. /\ walk'[d].sbi = walk[d].sbi /\ walk'[d].existed = walk[d].existed
            /\ walk'[d].returned = walk[d].returned \cup request[d].docs
            /\ walk'[d].over = ~request[d].hasMore
            /\ walk'[d].after = next
        <4> HIDE DEF next
        <4> QED BY <3>2, <3>4 DEF Walk
      <3> QED BY <1>0, <3>1, <3>2, <3>3, <3>5, PageIsAnswered
    <2> QED BY <2>1, <2>2, <2>3
  <1>11. ASSUME NEW c \in Clients, SendReadEvent(c)
         PROVE  ClientHolds(ReadView', walk'[d], request'[d])
    <2>1. CASE c # d
      <3>1. walk'[d] = walk[d] /\ request'[d] = request[d]
        BY <1>0, <1>11, <2>1 DEF SendReadEvent, TypeOK
      <3> QED BY <1>b, <3>1
    <2>2. CASE c = d
      <3>1. ReadView' = ReadView /\ walk'[d] = walk[d]
        BY <1>11 DEF SendReadEvent, ReadView
      <3>2. /\ request[d] \in Request /\ request[d].pc = "auditing"
            /\ request'[d] = [request[d] EXCEPT !.pc = "answering"]
        BY <1>0, <1>11, <2>2 DEF SendReadEvent, TypeOK, Idle
      <3>3. /\ IsRead(request[d]) /\ request'[d].pc = "answering"
            /\ request'[d].kind = request[d].kind /\ request'[d].size = request[d].size
            /\ request'[d].id = request[d].id /\ request'[d].docs = request[d].docs
            /\ request'[d].hasMore = request[d].hasMore
            /\ request'[d].found = request[d].found
        BY <3>2 DEF Request, IsRead
      <3>4. request[d].pc # "idle"
        BY <3>2
      <3>5. PageHolds(ReadView, walk[d], request[d]) =>
              PageHolds(ReadView, walk[d], request'[d])
        BY <3>3 DEF PageHolds
      <3>6. BlobHolds(ReadView, walk[d], request[d]) =>
              BlobHolds(ReadView, walk[d], request'[d])
        BY <3>3 DEF BlobHolds
      <3> QED BY <1>0, <3>1, <3>3, <3>4, <3>5, <3>6 DEF ClientHolds, RequestHolds
    <2> QED BY <2>1, <2>2
  <1>5. ASSUME NEW c \in Clients, Refuse(c) \/ RequestThrows(c)
        PROVE  ClientHolds(ReadView', walk'[d], request'[d])
    BY <1>0, <1>5, <1>b, <1>c DEF Refuse, RequestThrows, TypeOK
  <1>6. ASSUME NEW ids, InsertMany(ids) PROVE ClientHolds(ReadView', walk'[d], request'[d])
    BY <1>6, <1>b DEF InsertMany
  <1>7. CASE Replicate
    BY <1>7, <1>b DEF Replicate
  <1>8. CASE UNCHANGED vars
    BY <1>8, <1>b DEF vars, trail
  <1>9. ASSUME NEW c \in Clients, NEW token \in Tokens, NEW size \in 1 .. MaxPageSize,
               AskPage(c, token, size)
        PROVE  ClientHolds(ReadView', walk'[d], request'[d])
    BY <1>1, <1>9 DEF AskPage
  <1>10. ASSUME NEW c \in Clients, NEW token \in Tokens, NEW id \in Ids, AskBlob(c, token, id)
         PROVE  ClientHolds(ReadView', walk'[d], request'[d])
    BY <1>1, <1>10 DEF AskBlob
  <1> QED BY <1>2, <1>3, <1>4, <1>5, <1>6, <1>7, <1>8, <1>9, <1>10, <1>11 DEF Next, Handle

\* Whoever is let in is entitled to it, and whoever is refused is not, or has a
\* tenant that is listed twice.
LEMMA AccessStep == TypeOK /\ AccessIsOwn /\ [Next]_vars => AccessIsOwn'
  <1> SUFFICES ASSUME TypeOK, AccessIsOwn, [Next]_vars PROVE AccessIsOwn'
    OBVIOUS
  <1> DEFINE Own(r) ==
        /\ r.pc = "reading" \/ IsRead(r) =>
             Issuers(config) = {} \/ Entitled(config, r.token)
        /\ r.pc = "refused" =>
             ~Entitled(config, r.token) \/ IsListedTwice(config, r.token.iss)
  <1>0. config' = config
    BY DEF Next, InsertMany, Replicate, AskPage, AskBlob, Send, Handle, Refuse, ReadPage,
           ReadBlob, SendReadEvent, Answer, RequestThrows, vars
  <1>1. \A c \in Clients : Own(request[c])
    BY DEF AccessIsOwn
  <1>2. Own(Idle)
    BY DEF Idle, IsRead
  <1>3. ASSUME NEW c \in Clients, NEW kind, NEW token \in Tokens, NEW size, NEW id,
               Send(c, Ask(kind, token, size, id)), NEW d \in Clients
        PROVE  Own(request'[d])
    <2>1. CASE d # c
      BY <1>1, <1>3, <2>1 DEF Send, TypeOK
    <2>2. CASE d = c
      <3>1. request'[d] = [Ask(kind, token, size, id) EXCEPT !.pc =
              IF Authenticated(config, Ask(kind, token, size, id).token)
              THEN "reading" ELSE "refused"]
        BY <1>3, <2>2 DEF Send, TypeOK
      <3>2. /\ request'[d].token = token
            /\ request'[d].pc = IF Authenticated(config, token) THEN "reading" ELSE "refused"
        BY <3>1 DEF Ask
      <3>3. IsConfiguration(config) /\ token \in Token
        BY ConfigurationAssumption DEF TypeOK
      <3>4. CASE Issuers(config) = {}
        <4>1. Authenticated(config, token)
          BY <3>4 DEF Authenticated
        <4> QED BY <3>2, <3>4, <4>1
      <3>5. CASE Issuers(config) # {}
        <4>1. /\ Authenticated(config, token) => Entitled(config, token)
              /\ Entitled(config, token) =>
                   Authenticated(config, token) \/ IsListedTwice(config, token.iss)
          BY <3>3, <3>5, AuthenticationIsOwn
        <4> QED BY <3>2, <4>1 DEF IsRead
      <3> QED BY <3>4, <3>5
    <2> QED BY <2>1, <2>2
  <1>4. ASSUME NEW c \in Clients, Handle(c) \/ RequestThrows(c), NEW d \in Clients
        PROVE  Own(request'[d])
    <2>1. \/ request'[d] = request[d]
          \/ request'[d] = Idle
          \/ /\ request[d].pc \in {"reading", "auditing"} /\ request[d] \in Request
             /\ IsRead(request'[d]) /\ request'[d].token = request[d].token
      <3>0. request[c].pc # "idle" => request[c] \in Request
        BY DEF TypeOK, Idle
      <3>1. CASE Refuse(c) \/ Answer(c) \/ RequestThrows(c)
        BY <3>1 DEF Refuse, Answer, RequestThrows, TypeOK
      <3>2. CASE ReadPage(c)
        <4> DEFINE ids == Matching(ReadView, walk[c].sbi, walk[c].after)
                   more == HasMore(ids, request[c].size)
                   found == walk[c].after # NoId \/ ids # {}
        <4>1. request' = [request EXCEPT ![c].pc = "auditing",
                                         ![c].docs = Newest(ids, request[c].size),
                                         ![c].hasMore = more, ![c].found = found]
          BY <3>2 DEF ReadPage
        <4>2. request[c].pc = "reading" /\ request[c] \in Request
          BY <3>0, <3>2 DEF ReadPage
        <4> HIDE DEF ids, more, found
        <4> QED BY <4>1, <4>2 DEF TypeOK, Request, IsRead
      <3>3. CASE ReadBlob(c)
        <4> DEFINE found == request[c].id \in ReadView
                   next == IF found THEN "auditing" ELSE "answering"
        <4>1. request' = [request EXCEPT ![c].pc = next,
                                         ![c].docs = {request[c].id} \cap ReadView,
                                         ![c].found = found]
          BY <3>3 DEF ReadBlob
        <4>2. request[c].pc = "reading" /\ request[c] \in Request
          BY <3>0, <3>3 DEF ReadBlob
        <4>3. next \in {"auditing", "answering"}
          OBVIOUS
        <4> HIDE DEF found, next
        <4> QED BY <4>1, <4>2, <4>3 DEF TypeOK, Request, IsRead
      <3>4. CASE SendReadEvent(c)
        <4>1. request[c].pc = "auditing" /\ request[c] \in Request
          BY <3>0, <3>4 DEF SendReadEvent
        <4> QED BY <3>4, <4>1 DEF SendReadEvent, TypeOK, Request, IsRead
      <3> QED BY <1>4, <3>1, <3>2, <3>3, <3>4 DEF Handle
    <2> QED BY <1>1, <1>2, <2>1 DEF IsRead
  <1>5. CASE UNCHANGED request
    BY <1>0, <1>1, <1>5 DEF AccessIsOwn
  <1>6. ASSUME NEW ids, InsertMany(ids) \/ Replicate PROVE UNCHANGED request
    BY <1>6 DEF InsertMany, Replicate
  <1>7. ASSUME \A d \in Clients : Own(request'[d]) PROVE AccessIsOwn'
    BY <1>0, <1>7 DEF AccessIsOwn
  <1> QED BY <1>3, <1>4, <1>5, <1>6, <1>7 DEF Next, AskPage, AskBlob, vars, trail

\* Of each client and record, the balance moves with the answer under way; only a
\* refused event and a failed answer make it differ, and both are counted.
LEMMA BalanceStep == TypeOK /\ EveryReadIsAudited /\ [Next]_vars => EveryReadIsAudited'
  <1> SUFFICES ASSUME TypeOK, EveryReadIsAudited, [Next]_vars PROVE EveryReadIsAudited'
    OBVIOUS
  <1> DEFINE UnderWay(r, id) == IF r.pc = "answering" /\ id \in r.docs THEN 1 ELSE 0
             Within(b, r, id, n, f) == b[id] - UnderWay(r, id) \in -n .. f
  <1>a. \A c \in Clients, id \in Ids : Within(balance[c], request[c], id, refusals, faults)
    BY DEF EveryReadIsAudited
  <1>b. /\ refusals \in Nat /\ faults \in Nat /\ balance \in [Clients -> [Ids -> Int]]
        /\ request \in [Clients -> Request \cup {Idle}]
    BY DEF TypeOK
  <1>c. ASSUME \A c \in Clients, id \in Ids :
                 Within(balance'[c], request'[c], id, refusals', faults')
        PROVE  EveryReadIsAudited'
    BY <1>c DEF EveryReadIsAudited
  \* Whoever makes a step, the other clients' balances stay as they were.
  <1>d. ASSUME NEW c \in Clients, refusals' \in Nat, faults' \in Nat,
               refusals <= refusals', faults <= faults',
               \A d \in Clients \ {c} : request'[d] = request[d] /\ balance'[d] = balance[d],
               \A id \in Ids : Within(balance'[c], request'[c], id, refusals', faults')
        PROVE  EveryReadIsAudited'
    <2>1. ASSUME NEW d \in Clients \ {c}, NEW id \in Ids
          PROVE  Within(balance'[d], request'[d], id, refusals', faults')
      <3>1. balance[d][id] - UnderWay(request[d], id) \in -refusals .. faults
        BY <1>a
      <3>2. UnderWay(request[d], id) \in Int /\ balance[d][id] \in Int
        BY <1>b
      <3>3. balance'[d] = balance[d] /\ request'[d] = request[d]
        BY <1>d
      <3> HIDE DEF UnderWay
      <3> QED BY <1>b, <1>d, <3>1, <3>2, <3>3
    <2> HIDE DEF Within
    <2> QED BY <1>c, <1>d, <2>1
  <1>e. \A c \in Clients, id \in Ids : balance[c][id] \in Int
    BY <1>b
  \* Steps that leave the trail alone do not enter or leave the state before the answer
  \* with records of their own.
  <1>1. ASSUME NEW c \in Clients, UNCHANGED trail,
               \A d \in Clients \ {c} : request'[d] = request[d],
               request[c].pc # "answering",
               request'[c].pc = "answering" => request'[c].docs = {}
        PROVE  EveryReadIsAudited'
    <2>1. ASSUME NEW id \in Ids
          PROVE  UnderWay(request'[c], id) = UnderWay(request[c], id)
      BY <1>1
    <2>2. \A id \in Ids : Within(balance'[c], request'[c], id, refusals', faults')
      BY <1>1, <1>a, <2>1 DEF trail
    <2>3. /\ refusals' = refusals /\ faults' = faults /\ balance' = balance
      BY <1>1 DEF trail
    <2> HIDE DEF Within
    <2> QED BY <1>1, <1>b, <1>d, <2>2, <2>3
  <1>2. ASSUME NEW c \in Clients, Refuse(c) PROVE EveryReadIsAudited'
    BY <1>2, <1>1, <1>b DEF Refuse, Idle
  <1>3. ASSUME NEW c \in Clients, ReadPage(c) PROVE EveryReadIsAudited'
    <2>1. request[c] \in Request
      BY <1>3, <1>b DEF ReadPage, Idle
    <2>2. request'[c].pc = "auditing"
      BY <1>3, <2>1, <1>b DEF ReadPage, Request
    <2> QED BY <1>3, <1>1, <1>b, <2>2 DEF ReadPage
  <1>4. ASSUME NEW c \in Clients, ReadBlob(c) PROVE EveryReadIsAudited'
    <2> DEFINE found == request[c].id \in ReadView
               docs == {request[c].id} \cap ReadView
               next == IF found THEN "auditing" ELSE "answering"
    <2>1. request[c] \in Request
      BY <1>4, <1>b DEF ReadBlob, Idle
    <2>2. request'[c] = [request[c] EXCEPT !.pc = next, !.docs = docs, !.found = found]
      BY <1>4, <1>b DEF ReadBlob
    <2>3. next = "answering" => docs = {}
      OBVIOUS
    <2>4. request'[c].pc = next /\ request'[c].docs = docs
      <3> HIDE DEF next, docs, found
      <3> QED BY <2>1, <2>2 DEF Request
    <2> HIDE DEF next, docs, found
    <2> QED BY <1>4, <1>1, <1>b, <2>3, <2>4 DEF ReadBlob
  <1>5. ASSUME NEW c \in Clients, NEW kind, NEW token, NEW size, NEW id,
               Send(c, Ask(kind, token, size, id))
        PROVE  EveryReadIsAudited'
    <2>1. request'[c] = [Ask(kind, token, size, id) EXCEPT !.pc =
            IF Authenticated(config, Ask(kind, token, size, id).token)
            THEN "reading" ELSE "refused"]
      BY <1>5, <1>b DEF Send
    <2>2. request'[c].pc # "answering"
      BY <2>1 DEF Ask
    <2> QED BY <1>5, <1>1, <1>b, <2>2 DEF Send
  <1>6. ASSUME NEW c \in Clients, SendReadEvent(c) PROVE EveryReadIsAudited'
    <2>1. request[c] \in Request /\ request[c].pc = "auditing" /\ faults' = faults
      BY <1>6, <1>b DEF SendReadEvent, Idle
    <2>2. request'[c].pc = "answering" /\ request'[c].docs = request[c].docs
      BY <1>6, <2>1, <1>b DEF SendReadEvent, Request
    <2>3. \A id \in Ids : balance[c][id] \in -refusals .. faults
      BY <1>a, <1>e, <2>1
    <2>4. \A d \in Clients \ {c} : request'[d] = request[d]
      BY <1>6, <1>b DEF SendReadEvent
    <2>5. CASE Add(c, request[c].docs, 1) /\ UNCHANGED refusals
      <3>1. \A d \in Clients \ {c} : balance'[d] = balance[d]
        BY <1>b, <2>5, AddIs
      <3>2. ASSUME NEW id \in Ids
            PROVE  Within(balance'[c], request'[c], id, refusals', faults')
        <4>1. balance'[c][id] = IF id \in request[c].docs THEN balance[c][id] + 1
                                ELSE balance[c][id]
          BY <1>b, <2>5, AddIs
        <4> QED BY <1>b, <1>e, <2>1, <2>2, <2>3, <2>5, <4>1
      <3> HIDE DEF Within
      <3> QED BY <1>b, <1>d, <2>1, <2>4, <2>5, <3>1, <3>2
    <2>6. CASE refusals' = refusals + 1 /\ UNCHANGED balance
      <3>1. ASSUME NEW id \in Ids
            PROVE  Within(balance'[c], request'[c], id, refusals', faults')
        BY <1>b, <1>e, <2>1, <2>2, <2>3, <2>6
      <3> HIDE DEF Within
      <3> QED BY <1>b, <1>d, <2>1, <2>4, <2>6, <3>1
    <2> QED BY <1>6, <2>5, <2>6 DEF SendReadEvent, Publish
  <1>7. ASSUME NEW c \in Clients, Answer(c) PROVE EveryReadIsAudited'
    <2>1. /\ request[c].pc = "answering" /\ request'[c] = Idle
          /\ refusals' = refusals /\ faults' = faults
          /\ \A d \in Clients \ {c} : request'[d] = request[d]
      BY <1>7, <1>b DEF Answer
    <2>2. Add(c, request[c].docs, -1)
      BY <1>7 DEF Answer
    <2>3. \A d \in Clients \ {c} : balance'[d] = balance[d]
      BY <1>b, <2>2, AddIs
    <2>4. ASSUME NEW id \in Ids
          PROVE  Within(balance'[c], request'[c], id, refusals', faults')
      <3>1. balance'[c][id] = IF id \in request[c].docs THEN balance[c][id] + (-1)
                              ELSE balance[c][id]
        BY <1>b, <2>2, AddIs
      <3>2. UnderWay(request'[c], id) = 0
        BY <2>1 DEF Idle
      <3>3. balance[c][id] - (IF id \in request[c].docs THEN 1 ELSE 0) \in -refusals .. faults
        BY <1>a, <2>1
      <3> HIDE DEF UnderWay
      <3> QED BY <1>b, <1>e, <2>1, <3>1, <3>2, <3>3
    <2> HIDE DEF Within
    <2> QED BY <1>b, <1>d, <2>1, <2>3, <2>4
  <1>8. ASSUME NEW c \in Clients, RequestThrows(c) PROVE EveryReadIsAudited'
    <2>1. /\ request'[c] = Idle /\ balance' = balance
          /\ refusals' = refusals /\ faults' = faults + 1
          /\ \A d \in Clients \ {c} : request'[d] = request[d]
      BY <1>8, <1>b DEF RequestThrows
    <2>2. ASSUME NEW id \in Ids
          PROVE  Within(balance'[c], request'[c], id, refusals', faults')
      <3>1. UnderWay(request'[c], id) = 0
        BY <2>1 DEF Idle
      <3>2. /\ balance[c][id] - UnderWay(request[c], id) \in -refusals .. faults
            /\ UnderWay(request[c], id) \in {0, 1}
        BY <1>a
      <3> HIDE DEF UnderWay
      <3> QED BY <1>b, <1>e, <2>1, <3>1, <3>2
    <2> HIDE DEF Within
    <2> QED BY <1>b, <1>d, <2>1, <2>2
  <1>9. CASE UNCHANGED <<request, trail>>
    BY <1>9, <1>a, <1>c DEF trail
  <1>10. ASSUME NEW ids, InsertMany(ids) \/ Replicate PROVE UNCHANGED <<request, trail>>
    BY <1>10 DEF InsertMany, Replicate
  <1> QED BY <1>2, <1>3, <1>4, <1>5, <1>6, <1>7, <1>8, <1>9, <1>10
          DEF Next, AskPage, AskBlob, Handle, vars

\* The invariant holds initially and is kept.
LEMMA Invariant == Spec => []IInv
  <1>1. Init => IInv
    <2> SUFFICES ASSUME Init PROVE IInv
      OBVIOUS
    <2>1. TypeOK
      BY TypeInit
    <2>2. ASSUME NEW c \in Clients PROVE ClientHolds(ReadView, walk[c], request[c])
      <3>1. request[c] = Idle
        BY DEF Init
      <3>2. /\ walk[c].after = NoId /\ walk[c].existed = {} /\ walk[c].returned = {}
            /\ walk[c].over = FALSE
        BY DEF Init
      <3> QED BY <3>1, <3>2 DEF ClientHolds, WalkHolds, RequestHolds, Idle
    <2>3. EveryReadIsAudited /\ AccessIsOwn
      BY DEF Init, EveryReadIsAudited, AccessIsOwn, Idle, IsRead
    <2> QED BY <2>1, <2>2, <2>3 DEF IInv
  <1>2. IInv /\ [Next]_vars => IInv'
    <2> SUFFICES ASSUME IInv, [Next]_vars PROVE IInv'
      OBVIOUS
    <2>1. TypeOK'
      BY TypeStep DEF IInv, ClientHolds, RequestHolds, PageHolds, IsRead
    <2>2. \A d \in Clients : ClientHolds(ReadView', walk'[d], request'[d])
      BY <2>1, ClientStep
    <2>3. EveryReadIsAudited'
      BY BalanceStep DEF IInv
    <2>4. AccessIsOwn'
      BY AccessStep DEF IInv
    <2> QED BY <2>1, <2>2, <2>3, <2>4 DEF IInv
  <1> QED BY <1>1, <1>2, PTL DEF Spec

-----------------------------------------------------------------------------
(* Theorems                                                                *)

\* Every collection, request and walk keeps its type.
THEOREM TypeCorrect == Spec => []TypeOK
  <1>1. IInv => TypeOK
    BY DEF IInv
  <1> QED BY <1>1, Invariant, PTL

\* No record that the first page's read saw is skipped or repeated, for every page
\* size, changed at will, and every order in which records are stored.
THEOREM ListingCorrect == Spec => []ListingIsExact
  <1>1. IInv => ListingIsExact
    <2> SUFFICES ASSUME IInv, NEW c \in Clients
                 PROVE  /\ walk[c].existed \subseteq
                             walk[c].returned \cup
                               (IF walk[c].over THEN {}
                                ELSE {id \in Ids : walk[c].after = NoId \/ id < walk[c].after})
                        /\ IsRead(request[c]) /\ request[c].kind = "page" =>
                             \A id \in request[c].docs :
                               /\ SbiOf[id] = walk[c].sbi
                               /\ \A r \in walk[c].returned : id < r
      BY DEF ListingIsExact
    <2>1. WalkHolds(ReadView, walk[c]) /\ ReadView \in SUBSET Ids /\ walk[c] \in Walk
      BY DEF IInv, ClientHolds, ReadView, TypeOK
    <2>2. ASSUME NEW id \in walk[c].existed, ~walk[c].over, id \notin walk[c].returned
          PROVE  id \in Ids /\ (walk[c].after = NoId \/ id < walk[c].after)
      BY <2>1, <2>2 DEF WalkHolds
    <2>3. walk[c].over => walk[c].existed \subseteq walk[c].returned
      BY <2>1 DEF WalkHolds
    <2>4. ASSUME IsRead(request[c]), request[c].kind = "page",
                 NEW id \in request[c].docs
          PROVE  SbiOf[id] = walk[c].sbi /\ \A r \in walk[c].returned : id < r
      <3>1. /\ ~walk[c].over
            /\ request[c].docs \subseteq Matching(ReadView, walk[c].sbi, walk[c].after)
        BY <2>4 DEF IInv, ClientHolds, RequestHolds, PageHolds, IsRead
      <3>2. /\ id \in ReadView /\ SbiOf[id] = walk[c].sbi
            /\ walk[c].after # NoId => id < walk[c].after
        BY <2>4, <3>1 DEF Matching
      <3>3. ASSUME NEW r \in walk[c].returned PROVE id < r
        <4>1. walk[c].after # NoId /\ walk[c].after <= r /\ r \in ReadView
          BY <2>1, <3>1, <3>3 DEF WalkHolds
        <4>2. id \in Nat /\ r \in Nat /\ walk[c].after \in Nat
          BY <2>1, <3>2, <4>1, RecordAssumption DEF Walk, NoId
        <4> QED BY <3>2, <4>1, <4>2
      <3> QED BY <3>2, <3>3
    <2> QED BY <2>2, <2>3, <2>4
  <1> QED BY <1>1, Invariant, PTL

\* What an answer promises the next one keeps.
THEOREM PromiseKept == Spec => []PromiseIsKept
  <1>1. IInv => PromiseIsKept
    <2> SUFFICES ASSUME IInv, NEW c \in Clients, IsRead(request[c])
                 PROVE  IF request[c].kind = "page"
                        THEN walk[c].after # NoId => request[c].docs # {}
                        ELSE request[c].id \in walk[c].returned => request[c].found
      BY DEF PromiseIsKept
    <2>1. request[c].kind \in {"page", "blob"}
      BY DEF IInv, TypeOK, Idle, Request, IsRead
    <2> QED BY <2>1 DEF IInv, ClientHolds, RequestHolds, PageHolds, BlobHolds, IsRead
  <1> QED BY <1>1, Invariant, PTL

\* For any number of clients, records and requests, refused events and failed answers
\* alone account for the difference between the read events and the answers.
THEOREM ReadsAudited == Spec => []EveryReadIsAudited
  <1>1. IInv => EveryReadIsAudited
    BY DEF IInv
  <1> QED BY <1>1, Invariant, PTL

\* Requests are served to those the configuration names, and refused to the others.
THEOREM AccessOwn == Spec => []AccessIsOwn
  <1>1. IInv => AccessIsOwn
    BY DEF IInv
  <1> QED BY <1>1, Invariant, PTL

=============================================================================

----------------------- MODULE TransactionRecordProofs -----------------------
(***************************************************************************)
(* What the records say of the chain is true, for every order in which the  *)
(* database executes the writes and any number of transactions, attempts    *)
(* and restarts: an outcome is that of a mined hash, and a dropped hash is   *)
(* older than the latest attempt.  With the writes in the order of issue an *)
(* outcome finds its document, it is final at the status endpoint unless    *)
(* the mined attempt was superseded, and DROPPED gives way to the           *)
(* replacement.                                                             *)
(***************************************************************************)
EXTENDS TransactionRecord, ClientViewProofs, WellFoundedInduction

Writes == Saves \cup UpdatesById \cup UpdatesByHash

(* A write that says nothing false of the chain, now or later.              *)
Truthful(w) ==
  /\ w \in Writes
  /\ w.op = "updateByHash" /\ w.fields.status \in Outcomes => InLedger(<<w.id, w.key>>)
  /\ w.op = "updateByHash" /\ w.fields.status = "DROPPED" => w.key < attempts[w.id]

TruthfulDocument(t, d) ==
  /\ DOMAIN d \subseteq SchemaFields
  /\ d.status \in Statuses
  /\ "transactionHash" \in DOMAIN d => d.transactionHash \in AttemptNumbers
  /\ d.status \in Outcomes =>
       "transactionHash" \in DOMAIN d /\ InLedger(<<t, d.transactionHash>>)
  /\ d.status = "DROPPED" =>
       "transactionHash" \in DOMAIN d /\ d.transactionHash < attempts[t]

RequestsInv ==
  /\ order \in Orders /\ method \in [Ids -> Methods] /\ request \in [Ids -> Requests]
  /\ writes \in Seq(Writes)
  /\ \A i \in DOMAIN writes : Truthful(writes[i])

(* The documents, which a write changes and nothing else.                   *)
DocumentsInv ==
  /\ documents = [t \in Ids |-> [n \in AttemptNumbers |-> documents[t][n]]]
  /\ \A t \in Ids : \A n \in Documents(t) : TruthfulDocument(t, documents[t][n])

RecordInv == ViewInv /\ RequestsInv /\ DocumentsInv

-----------------------------------------------------------------------------
\* What a save stores is pending.
LEMMA SavedTruthful ==
  ASSUME NEW t, NEW w \in Saves
  PROVE  TruthfulDocument(t, Stored(w.fields))
<1> DEFINE d == Stored(w.fields)
<1>1. "status" \in DOMAIN w.fields /\ w.fields.status = "PENDING"
  BY DEF Saves
<1>2. /\ DOMAIN d = DOMAIN w.fields \cap SchemaFields
      /\ \A f \in DOMAIN d : d[f] = w.fields[f]
  BY DEF Stored
<1>3. d.status = "PENDING"
  BY <1>1, <1>2 DEF SchemaFields
<1>4. "transactionHash" \in DOMAIN w.fields => w.fields.transactionHash \in AttemptNumbers
  BY DEF Saves
<1> QED BY <1>2, <1>3, <1>4 DEF TruthfulDocument, Statuses, Outcomes

\* What an update makes of a document it matches.
LEMMA UpdatedTruthful ==
  ASSUME NEW w, Truthful(w), w.op # "save", NEW d, TruthfulDocument(w.id, d),
         w.op = "updateByHash" =>
           "transactionHash" \in DOMAIN d /\ d.transactionHash = w.key /\ w.key \in AttemptNumbers
  PROVE  TruthfulDocument(w.id, [f \in DOMAIN d \cup DOMAIN w.fields |->
                                   IF f \in DOMAIN w.fields THEN w.fields[f] ELSE d[f]])
<1> DEFINE e == [f \in DOMAIN d \cup DOMAIN w.fields |->
                   IF f \in DOMAIN w.fields THEN w.fields[f] ELSE d[f]]
<1>1. CASE w \in UpdatesById
  <2>1. DOMAIN w.fields = {"transactionHash", "status"} /\ w.fields.status = "PENDING"
    BY <1>1 DEF UpdatesById
  <2>2. DOMAIN e \subseteq SchemaFields /\ e.status = "PENDING"
    BY <2>1 DEF TruthfulDocument, SchemaFields
  <2>3. e.transactionHash = w.fields.transactionHash /\ w.fields.transactionHash \in AttemptNumbers
    BY <1>1, <2>1 DEF UpdatesById
  <2> QED BY <2>2, <2>3 DEF TruthfulDocument, Statuses, Outcomes
<1>2. CASE w \in UpdatesByHash
  <2>1. /\ DOMAIN w.fields = {"status"} /\ w.fields.status \in {"DROPPED", "SUCCESS", "FAILED"}
        /\ w.op = "updateByHash"
    BY <1>2 DEF UpdatesByHash
  <2>2. /\ DOMAIN e \subseteq SchemaFields /\ e.status = w.fields.status
        /\ "transactionHash" \in DOMAIN e /\ e.transactionHash = w.key
    BY <2>1 DEF TruthfulDocument, SchemaFields
  <2> QED BY <2>1, <2>2 DEF TruthfulDocument, Truthful, Statuses, Outcomes
<1> QED BY <1>1, <1>2 DEF Truthful, Writes, Saves

-----------------------------------------------------------------------------
(* What is mined stays mined, and an older attempt stays older. *)
Lasting ==
  /\ \A t \in Ids : attempts[t] \in Nat /\ attempts'[t] \in Nat /\ attempts[t] <= attempts'[t]
  /\ \A h : InLedger(h) => InLedger(h)'

LEMMA TruthStays == ViewInv /\ [Next]_vars => Lasting
<1> SUFFICES ASSUME ViewInv, [Next]_vars PROVE Lasting
  OBVIOUS
<1>1. ASSUME NEW t \in Ids
      PROVE  attempts[t] \in Nat /\ attempts'[t] \in Nat /\ attempts[t] <= attempts'[t]
  <2>1. attempts[t] \in Nat
    BY ViewTypes, LifecycleAssumption
  <2>2. attempts'[t] = attempts[t] \/ attempts'[t] = attempts[t] + 1
    <3>1. CASE SendAccepted(t) \/ SendAnswerLost(t)
      BY <3>1, FirstAttempt
    <3>2. ASSUME NEW h \in Hashes, IdOf(h) = t, RetryBroadcast(h) PROVE attempts'[t] = attempts[t] + 1
      BY <3>2, NextAttempt
    <3> QED BY <3>1, <3>2, OnlyBroadcasts
  <2> QED BY <2>1, <2>2
<1>2. ASSUME NEW h, InLedger(h) PROVE InLedger(h)'
  BY <1>2, MinedStays DEF ViewInv
<1> QED BY <1>1, <1>2 DEF Lasting

\* So a truthful write and a truthful document stay truthful.
LEMMA WriteStays ==
  ASSUME Lasting, NEW w, Truthful(w)
  PROVE  Truthful(w)'
<1>1. w \in UpdatesByHash => w.id \in Ids /\ w.key \in Int
  BY LifecycleAssumption DEF UpdatesByHash
<1>2. w.op = "updateByHash" => w \in UpdatesByHash
  BY DEF Truthful, Writes, Saves, UpdatesById
<1> QED BY <1>1, <1>2 DEF Lasting, Truthful

LEMMA DocumentStays ==
  ASSUME Lasting, NEW t \in Ids, NEW d, TruthfulDocument(t, d)
  PROVE  TruthfulDocument(t, d)'
BY LifecycleAssumption DEF Lasting, TruthfulDocument, AttemptNumbers

-----------------------------------------------------------------------------
LEMMA DocumentsStay == DocumentsInv /\ Lasting /\ UNCHANGED documents => DocumentsInv'
<1> SUFFICES ASSUME DocumentsInv, Lasting, documents' = documents PROVE DocumentsInv'
  OBVIOUS
<1> SUFFICES ASSUME NEW t \in Ids, NEW n \in AttemptNumbers, documents[t][n] # NoDocument
             PROVE  TruthfulDocument(t, documents[t][n])'
  BY DEF DocumentsInv, Documents
<1>1. PICK d : d = documents[t][n]
  OBVIOUS
<1>2. TruthfulDocument(t, d)'
  BY <1>1, DocumentStays DEF DocumentsInv, Documents
<1> QED BY <1>1, <1>2 DEF TruthfulDocument

\* A truthful write leaves truthful documents.
LEMMA ExecuteTruthful ==
  ASSUME DocumentsInv, Lasting, NEW w, Truthful(w), Execute(w)
  PROVE  DocumentsInv'
<1>1. w \in Writes
  BY DEF Truthful
<1>2. w.id \in Ids
  BY <1>1 DEF Writes, Saves, UpdatesById, UpdatesByHash
<1>3. ASSUME NEW n \in AttemptNumbers, NEW d, TruthfulDocument(w.id, d),
             documents' = [documents EXCEPT ![w.id][n] = d]
      PROVE  DocumentsInv'
  <2>1. documents' = [t \in Ids |-> [m \in AttemptNumbers |->
                        IF t = w.id /\ m = n THEN d ELSE documents[t][m]]]
    BY <1>2, <1>3 DEF DocumentsInv
  <2>2. documents' = [t \in Ids |-> [m \in AttemptNumbers |-> documents'[t][m]]]
    BY <2>1
  <2>3. ASSUME NEW t \in Ids, NEW m \in AttemptNumbers, documents'[t][m] # NoDocument
        PROVE  TruthfulDocument(t, documents[t][m])'
    <3>1. PICK e : e = documents'[t][m]
      OBVIOUS
    <3>2. TruthfulDocument(t, e)
      BY <1>3, <2>1, <2>3, <3>1 DEF DocumentsInv, Documents
    <3>3. TruthfulDocument(t, e)'
      BY <3>2, DocumentStays
    <3> QED BY <3>1, <3>3 DEF TruthfulDocument
  <2> QED BY <2>2, <2>3 DEF DocumentsInv, Documents
<1>4. CASE w.op = "save" /\ documents' = [documents EXCEPT ![w.id][w.key] = Stored(w.fields)]
  <2>1. w \in Saves /\ w.key \in AttemptNumbers
    BY <1>1, <1>4 DEF Writes, Saves, UpdatesById, UpdatesByHash
  <2> QED BY <1>3, <1>4, <2>1, SavedTruthful
<1>5. CASE UNCHANGED documents
  BY <1>5, DocumentsStay
<1>6. ASSUME w.op # "save", NEW n \in Matches(w),
             documents' = [documents EXCEPT ![w.id][n] =
               [f \in DOMAIN @ \cup DOMAIN w.fields |->
                  IF f \in DOMAIN w.fields THEN w.fields[f] ELSE @[f]]]
      PROVE  DocumentsInv'
  <2>1. /\ n \in Documents(w.id)
        /\ w.op # "updateById" => HasHash(w.id, n, w.key)
    BY DEF Matches
  <2>2. n \in AttemptNumbers /\ TruthfulDocument(w.id, documents[w.id][n])
    BY <1>2, <2>1 DEF DocumentsInv, Documents
  <2>3. PICK d : d = documents[w.id][n]
    OBVIOUS
  <2>4. w.op = "updateByHash" =>
          "transactionHash" \in DOMAIN d /\ d.transactionHash = w.key /\ w.key \in AttemptNumbers
    BY <2>1, <2>2, <2>3 DEF HasHash, TruthfulDocument
  <2>5. TruthfulDocument(w.id, [f \in DOMAIN d \cup DOMAIN w.fields |->
                                  IF f \in DOMAIN w.fields THEN w.fields[f] ELSE d[f]])
    BY <1>6, <2>2, <2>3, <2>4, UpdatedTruthful
  <2>6. documents' = [documents EXCEPT ![w.id][n] =
                        [f \in DOMAIN d \cup DOMAIN w.fields |->
                           IF f \in DOMAIN w.fields THEN w.fields[f] ELSE d[f]]]
    BY <1>6, <2>3
  <2> QED BY <1>3, <2>2, <2>5, <2>6
<1> QED BY <1>4, <1>5, <1>6 DEF Execute

-----------------------------------------------------------------------------
\* Every step of the records takes a step of the transactions, or none.
LEMMA RecordStep == [RecordNext]_allVars => [Next]_vars
<1> SUFFICES ASSUME [RecordNext]_allVars PROVE [Next]_vars
  OBVIOUS
<1>1. CASE UNCHANGED allVars
  BY <1>1 DEF allVars
<1>2. CASE ExecuteWrite
  BY <1>2 DEF ExecuteWrite
<1>3. ASSUME NEW t \in Ids, Relay(t) \/ RefuseSCW(t) \/ OrphanAA(t) \/ Sends(t) PROVE [Next]_vars
  BY <1>3 DEF Relay, RefuseSCW, OrphanAA, Sends, Next
<1>4. ASSUME NEW h \in Hashes, Notifies(h) \/ Tracks(h) \/ NotifyFails(h) \/ Settles(h)
                              \/ WaiterGivesUp(h) \/ Retries(h)
      PROVE  Next
  BY <1>4 DEF Notifies, Tracks, NotifyFails, Settles, WaiterGivesUp, Retries, Next, Listen, Fault
<1>5. ASSUME NEW a \in Accounts, Mines(a) PROVE Next
  BY <1>5 DEF Mines, Next
<1>6. CASE Restarts
  BY <1>6 DEF Restarts, Next
<1> QED BY <1>1, <1>2, <1>3, <1>4, <1>5, <1>6 DEF RecordNext

\* The records, their endpoints and the writes of the listener are beside the life of
\* the transactions: all that is proved of it holds with them.
THEOREM RecordsAreAside == RecordSpec => Spec
<1>1. RecordInit => Init
  BY DEF RecordInit
<1> QED BY <1>1, RecordStep, PTL DEF RecordSpec, Spec

LEMMA WritesStay == RequestsInv /\ Lasting /\ UNCHANGED recordVars => RequestsInv'
<1> SUFFICES ASSUME RequestsInv, Lasting, UNCHANGED recordVars PROVE RequestsInv'
  OBVIOUS
<1>1. ASSUME NEW i \in DOMAIN writes PROVE Truthful(writes[i])'
  <2>1. PICK w : w = writes[i]
    OBVIOUS
  <2>2. Truthful(w)'
    BY <2>1, WriteStays DEF RequestsInv
  <2> QED BY <2>1, <2>2 DEF Truthful, recordVars
<1> QED BY <1>1 DEF RequestsInv, recordVars

\* Truthful writes are issued, whatever is issued already.
LEMMA IssueTruthful ==
  ASSUME RequestsInv, Lasting, NEW ws \in Seq(Writes), \A i \in DOMAIN ws : Truthful(ws[i]),
         writes' = writes \o ws, UNCHANGED <<order, method>>, request' \in [Ids -> Requests]
  PROVE  RequestsInv'
<1>1. writes \in Seq(Writes) /\ writes' \in Seq(Writes)
  BY DEF RequestsInv
<1>2. \A i \in DOMAIN writes' :
        \/ i \in DOMAIN writes /\ writes'[i] = writes[i]
        \/ i - Len(writes) \in DOMAIN ws /\ writes'[i] = ws[i - Len(writes)]
  BY <1>1
<1>3. \A i \in DOMAIN writes' : Truthful(writes'[i])
  BY <1>2 DEF RequestsInv
<1>4. ASSUME NEW i \in DOMAIN writes' PROVE Truthful(writes[i])'
  <2>1. PICK w : w = writes'[i]
    OBVIOUS
  <2>2. Truthful(w)'
    BY <1>3, <2>1, WriteStays
  <2> QED BY <2>1, <2>2 DEF Truthful
<1> QED BY <1>1, <1>4 DEF RequestsInv

\* The controllers' write is truthful.
LEMMA RequestTruthful ==
  ASSUME NEW t \in Ids
  PROVE  Truthful(SaveRequest(t))
BY LifecycleAssumption DEF SaveRequest, Save, Truthful, Writes, Saves, AttemptNumbers, Methods

\* notify writes PENDING for the hash it is told of and DROPPED for an older attempt.
LEMMA NoticeTruthful ==
  ASSUME ViewInv, RequestsInv, NEW h \in accepted
  PROVE  /\ NoticeWrites(h) \in Seq(Writes)
         /\ \A i \in DOMAIN NoticeWrites(h) : Truthful(NoticeWrites(h)[i])
<1>1. h \in Hashes /\ h[1] \in Ids /\ h[2] \in AttemptNumbers /\ h[2] = attempts[h[1]]
  BY HashParts, ViewTypes DEF Followed, ViewInv, LatestInv, Latest, IdOf, AttemptNumbers
<1>2. method[h[1]] \in Methods
  BY <1>1 DEF RequestsInv
<1>3. CASE First(h)
  <2> DEFINE w == UpdateById(h[1], [transactionHash |-> 1, status |-> "PENDING"])
  <2>1. w \in UpdatesById /\ w.op = "updateById"
    BY <1>1, <1>3 DEF UpdateById, UpdatesById, First
  <2>2. Truthful(w)
    BY <2>1 DEF Truthful, Writes
  <2>3. NoticeWrites(h) = <<w>>
    BY <1>3 DEF NoticeWrites
  <2> QED BY <2>1, <2>2, <2>3 DEF Writes
<1>4. CASE ~First(h)
  <2> DEFINE u == UpdateByHash(h[1], h[2] - 1, [status |-> "DROPPED"])
             v == Save(h[1], h[2], [transactionHash |-> h[2], previousTransactionHash |-> h[2] - 1,
                                    status |-> "PENDING", transactionType |-> method[h[1]]])
  <2>1. h[2] - 1 \in 0 .. MaxAttempts /\ h[2] - 1 < attempts[h[1]]
    BY <1>1, LifecycleAssumption DEF AttemptNumbers
  <2>2. u \in UpdatesByHash /\ Truthful(u)
    BY <1>1, <2>1 DEF UpdateByHash, UpdatesByHash, Truthful, Writes, Outcomes
  <2>3. v \in Saves /\ Truthful(v)
    BY <1>1, <1>2, <2>1 DEF Save, Saves, Truthful, Writes
  <2>4. NoticeWrites(h) = <<u, v>>
    BY <1>4 DEF NoticeWrites
  <2> HIDE DEF u, v
  <2> QED BY <2>2, <2>3, <2>4 DEF Writes
<1> QED BY <1>3, <1>4

-----------------------------------------------------------------------------
LEMMA InitRecord == RecordInit => RecordInv
<1> SUFFICES ASSUME RecordInit PROVE RecordInv
  OBVIOUS
<1>1. ViewInv
  BY InitView DEF RecordInit
<1>2. RequestsInv
  BY DEF RecordInit, RequestsInv, Requests
<1>3. DocumentsInv
  BY DEF RecordInit, DocumentsInv, Documents
<1> QED BY <1>1, <1>2, <1>3 DEF RecordInv

LEMMA RecordInvariance == RecordInv /\ [RecordNext]_allVars => RecordInv'
<1> SUFFICES ASSUME RecordInv, [RecordNext]_allVars PROVE RecordInv'
  OBVIOUS
<1>1. ViewInv' /\ Lasting
  BY RecordStep, ViewStep, TruthStays DEF RecordInv
<1>2. ASSUME UNCHANGED recordVars PROVE RequestsInv' /\ DocumentsInv'
  BY <1>1, <1>2, WritesStay, DocumentsStay DEF RecordInv, recordVars
<1>3. ASSUME NEW ws \in Seq(Writes), \A i \in DOMAIN ws : Truthful(ws[i]),
             writes' = writes \o ws, UNCHANGED <<order, method, documents>>,
             request' \in [Ids -> Requests]
      PROVE  RequestsInv' /\ DocumentsInv'
  BY <1>1, <1>3, IssueTruthful, DocumentsStay DEF RecordInv
<1>4. CASE ExecuteWrite
  <2>1. PICK i \in Executable :
          /\ Execute(writes[i])
          /\ writes' = SubSeq(writes, 1, i - 1) \o SubSeq(writes, i + 1, Len(writes))
    BY <1>4 DEF ExecuteWrite
  <2>2. UNCHANGED <<order, method, request>>
    BY <1>4 DEF ExecuteWrite
  <2>3. writes \in Seq(Writes) /\ i \in 1 .. Len(writes)
    BY DEF Executable, RecordInv, RequestsInv
  <2>4. Truthful(writes[i])
    BY <2>3 DEF RecordInv, RequestsInv
  <2>5. PICK w : w = writes[i]
    OBVIOUS
  <2>6. DocumentsInv'
    BY <1>1, <2>1, <2>4, <2>5, ExecuteTruthful DEF RecordInv
  <2>7. writes' \in Seq(Writes) /\ \A j \in DOMAIN writes' : \E k \in DOMAIN writes : writes'[j] = writes[k]
    <3> DEFINE front == SubSeq(writes, 1, i - 1)
               back == SubSeq(writes, i + 1, Len(writes))
    <3>1. /\ front \in Seq(Writes) /\ back \in Seq(Writes)
          /\ Len(front) = i - 1 /\ Len(back) = Len(writes) - i
          /\ \A j \in 1 .. i - 1 : front[j] = writes[j]
          /\ \A j \in 1 .. Len(writes) - i : back[j] = writes[i + j]
      BY <2>3
    <3>2. writes' = front \o back
      BY <2>1
    <3> HIDE DEF front, back
    <3>3. writes' \in Seq(Writes) /\ DOMAIN writes' = 1 .. Len(writes) - 1
      BY <2>3, <3>1, <3>2
    <3>4. ASSUME NEW j \in DOMAIN writes' PROVE \E k \in DOMAIN writes : writes'[j] = writes[k]
      <4>1. CASE j <= i - 1
        <5>1. writes'[j] = front[j]
          BY <2>3, <3>1, <3>2, <3>3, <4>1
        <5> QED BY <2>3, <3>1, <3>3, <4>1, <5>1
      <4>2. CASE ~(j <= i - 1)
        <5>1. writes'[j] = back[j - (i - 1)]
          BY <2>3, <3>1, <3>2, <3>3, <4>2
        <5>2. back[j - (i - 1)] = writes[j + 1] /\ j + 1 \in DOMAIN writes
          BY <2>3, <3>1, <3>3, <4>2
        <5> QED BY <5>1, <5>2
      <4> QED BY <4>1, <4>2
    <3> QED BY <3>3, <3>4
  <2>8. ASSUME NEW j \in DOMAIN writes' PROVE Truthful(writes[j])'
    <3>1. PICK k \in DOMAIN writes : writes'[j] = writes[k]
      BY <2>7
    <3>2. PICK v : v = writes[k]
      OBVIOUS
    <3>3. Truthful(v)'
      BY <1>1, <3>2, WriteStays DEF RecordInv, RequestsInv
    <3> QED BY <3>1, <3>2, <3>3 DEF Truthful
  <2>9. order \in Orders /\ method \in [Ids -> Methods] /\ request \in [Ids -> Requests]
    BY DEF RecordInv, RequestsInv
  <2>10. RequestsInv'
    BY <2>2, <2>7, <2>8, <2>9 DEF RequestsInv
  <2> QED BY <1>1, <2>6, <2>10 DEF RecordInv
<1>5. ASSUME NEW t \in Ids, Relay(t) PROVE RequestsInv' /\ DocumentsInv'
  <2>1. /\ <<SaveRequest(t)>> \in Seq(Writes)
        /\ \A i \in DOMAIN <<SaveRequest(t)>> : Truthful(<<SaveRequest(t)>>[i])
    <3>1. PICK w : w = SaveRequest(t)
      OBVIOUS
    <3>2. w \in Writes /\ Truthful(w)
      BY <3>1, RequestTruthful DEF Truthful
    <3> QED BY <3>1, <3>2
  <2>2. writes' = writes \o <<SaveRequest(t)>>
    BY <1>5 DEF Relay, RecordInv, RequestsInv
  <2>3. UNCHANGED <<order, method, documents>> /\ request' \in [Ids -> Requests]
    BY <1>5 DEF Relay, RecordInv, RequestsInv, Requests
  <2> QED BY <1>3, <2>1, <2>2, <2>3
<1>6. ASSUME NEW t \in Ids, RefuseSCW(t) PROVE RequestsInv' /\ DocumentsInv'
  <2>1. UNCHANGED <<vars, order, method, writes, documents>> /\ request' \in [Ids -> Requests]
    BY <1>6 DEF RefuseSCW, RecordInv, RequestsInv, Requests
  <2>2. <<>> \in Seq(Writes) /\ writes' = writes \o <<>>
    BY <2>1 DEF RecordInv, RequestsInv
  <2>3. \A i \in DOMAIN <<>> : Truthful(<<>>[i])
    OBVIOUS
  <2> QED BY <1>3, <2>1, <2>2, <2>3
<1>7. ASSUME NEW t \in Ids, OrphanAA(t) PROVE RequestsInv' /\ DocumentsInv'
  <2>1. writes' = <<>> /\ UNCHANGED <<order, method>> /\ request' \in [Ids -> Requests]
    BY <1>7 DEF OrphanAA, RecordInv, RequestsInv, Requests
  <2>2. RequestsInv'
    BY <2>1 DEF RecordInv, RequestsInv
  <2>3. PICK w : w = SaveRequest(t)
    OBVIOUS
  <2>4. Truthful(w) /\ (Execute(w) \/ UNCHANGED documents)
    BY <1>7, <2>3, RequestTruthful DEF OrphanAA
  <2>5. DocumentsInv'
    BY <1>1, <2>4, ExecuteTruthful, DocumentsStay DEF RecordInv
  <2> QED BY <2>2, <2>5
<1>8. ASSUME NEW t \in Ids, Sends(t) PROVE UNCHANGED recordVars
  BY <1>8 DEF Sends
<1>9. ASSUME NEW h \in Hashes, Notifies(h) \/ NotifyFails(h) PROVE RequestsInv' /\ DocumentsInv'
  <2>1. PICK ws \in {NoticeWrites(h), <<>>} : Issue(ws) /\ (ws # <<>> => h \in accepted)
    BY <1>9 DEF Notifies, NotifyFails, Announce, ToAnnounce
  <2>2. ws \in Seq(Writes) /\ \A i \in DOMAIN ws : Truthful(ws[i])
    <3>1. CASE ws = <<>>
      BY <3>1
    <3>2. CASE ws # <<>>
      BY <2>1, <3>2, NoticeTruthful DEF RecordInv
    <3> QED BY <3>1, <3>2
  <2>3. request' \in [Ids -> Requests]
    BY <2>1 DEF Issue, RecordInv, RequestsInv
  <2> QED BY <1>3, <2>1, <2>2, <2>3 DEF Issue
<1>10. ASSUME NEW h \in Hashes, Settles(h) PROVE RequestsInv' /\ DocumentsInv'
  <2>1. PICK s \in {"SUCCESS", "FAILED"} : Issue(<<UpdateByHash(h[1], h[2], [status |-> s])>>)
    BY <1>10 DEF Settles
  <2>2. PICK w : w = UpdateByHash(h[1], h[2], [status |-> s])
    OBVIOUS
  <2>3. h[1] \in Ids /\ h[2] \in 0 .. MaxAttempts /\ InLedger(<<h[1], h[2]>>)
    BY <1>10, LifecycleAssumption DEF Settles, ReceiptArrives, Hashes
  <2>4. w \in UpdatesByHash /\ Truthful(w)
    BY <2>2, <2>3 DEF UpdateByHash, UpdatesByHash, Truthful, Writes
  <2>5. <<w>> \in Seq(Writes) /\ \A i \in DOMAIN <<w>> : Truthful(<<w>>[i])
    BY <2>4 DEF Writes
  <2>6. request' \in [Ids -> Requests]
    BY <2>1 DEF Issue, RecordInv, RequestsInv
  <2> QED BY <1>3, <2>1, <2>2, <2>5, <2>6 DEF Issue
<1>11. ASSUME NEW h \in Hashes, Tracks(h) \/ WaiterGivesUp(h) \/ Retries(h) PROVE UNCHANGED recordVars
  BY <1>11 DEF Tracks, WaiterGivesUp, Retries
<1>12. ASSUME NEW a \in Accounts, Mines(a) PROVE UNCHANGED recordVars
  BY <1>12 DEF Mines
<1>13. CASE Restarts
  <2>1. writes' = <<>> /\ UNCHANGED <<order, method, request, documents>>
    BY <1>13 DEF Restarts
  <2> QED BY <1>1, <2>1, DocumentsStay DEF RecordInv, RequestsInv
<1>14. CASE UNCHANGED allVars
  BY <1>1, <1>2, <1>14 DEF allVars, RecordInv
<1> QED
  BY <1>1, <1>2, <1>4, <1>5, <1>6, <1>7, <1>8, <1>9, <1>10, <1>11, <1>12, <1>13, <1>14
  DEF RecordNext, RecordInv

LEMMA RecordsTruthful == RecordSpec => []RecordInv
BY InitRecord, RecordInvariance, PTL DEF RecordSpec

\* The records keep their types, what the schema does not name is never stored.
THEOREM RecordTypesKept == RecordSpec => []RecordTypeOK
<1>1. RecordInv => RecordTypeOK
  BY DEF RecordInv, RequestsInv, DocumentsInv, RecordTypeOK, Writes, TruthfulDocument
<1> QED BY <1>1, RecordsTruthful, PTL

\* An outcome in the database is that of a mined hash, whatever the order of the writes.
THEOREM OutcomesMined == RecordSpec => []OutcomeIsMined
<1>1. RecordInv => OutcomeIsMined
  BY DEF RecordInv, DocumentsInv, OutcomeIsMined, TruthfulDocument, OfMinedHash, HasHash
<1> QED BY <1>1, RecordsTruthful, PTL

-----------------------------------------------------------------------------
(* What the status endpoint reports is final while the writes keep their    *)
(* order, unless an older attempt was mined than the latest.  Otherwise the *)
(* outcome of an id is written once everything else that is written of it   *)
(* has been issued.                                                         *)
Overtaken(t) == \E m \in AttemptNumbers : InLedger(<<t, m>>) /\ m < attempts[t]

SetsOutcome(w) == w.op = "updateByHash" /\ w.fields.status \in Outcomes

HasOutcome(t) == \E n \in Documents(t) : documents[t][n].status \in Outcomes

(* An outcome is waiting to be written after every other write of its id,   *)
(* ...                                                                      *)
LastWrite ==
  \A i \in DOMAIN writes : SetsOutcome(writes[i]) /\ ~Overtaken(writes[i].id) =>
    /\ Settled(writes[i].id)
    /\ \A j \in DOMAIN writes : j > i => writes[j].id # writes[i].id

(* ... or it has been written, and nothing is left to write of the id.      *)
NoWriteLeft ==
  \A t \in Ids : HasOutcome(t) /\ ~Overtaken(t) =>
    /\ Settled(t)
    /\ \A i \in DOMAIN writes : writes[i].id # t

SentIsAccepted == \A t \in Ids : request[t] # "accepted" => attempts[t] = 0

FinalInv == SentIsAccepted /\ (order = "issued" => LastWrite /\ NoWriteLeft)

\* A node took a replacement of the mined attempt with its nonce, and no other way is
\* there to be overtaken.
LEMMA OvertakenBy == ViewInv => \A t \in Ids : Superseded(t) <=> Overtaken(t)
<1> SUFFICES ASSUME ViewInv, NEW t \in Ids PROVE Superseded(t) <=> Overtaken(t)
  OBVIOUS
<1>1. \A n \in AttemptNumbers : n \in Nat /\ n >= 1 /\ <<t, n>> \in Hashes /\ IdOf(<<t, n>>) = t
  BY LifecycleAssumption DEF AttemptNumbers, Hashes, IdOf
<1>2. attempts[t] \in Nat /\ attempts[t] <= MaxAttempts
  BY ViewTypes, LifecycleAssumption
<1>3. Superseded(t) => Overtaken(t)
  BY <1>1, <1>2 DEF Superseded, Overtaken
<1>4. ASSUME NEW m \in AttemptNumbers, InLedger(<<t, m>>), m < attempts[t] PROVE Superseded(t)
  <2>1. PICK n : n = attempts[t]
    OBVIOUS
  <2>2. n \in AttemptNumbers /\ m < n /\ n <= attempts[t]
    BY <1>1, <1>2, <1>4, <2>1, LifecycleAssumption DEF AttemptNumbers
  <2>3. Exists(<<t, n>>) /\ Exists(<<t, m>>)
    BY <1>1, <1>2, <1>4, <2>1, <2>2 DEF Exists
  <2>4. nonce[<<t, n>>] = nonce[<<t, m>>]
    BY <1>1, <2>2, <2>3 DEF ViewInv, LifecycleInv, NonceInv
  <2> QED BY <1>4, <2>2, <2>4 DEF Superseded
<1> QED BY <1>3, <1>4 DEF Overtaken

\* The mined attempt is the latest but where it is overtaken.
LEMMA MinedLatest ==
  ASSUME ViewInv, NEW t \in Ids, ~Overtaken(t), NEW n \in AttemptNumbers, InLedger(<<t, n>>)
  PROVE  n = attempts[t]
<1>1. <<t, n>> \in Hashes /\ IdOf(<<t, n>>) = t /\ n \in Nat /\ attempts[t] \in Nat
  BY ViewTypes, LifecycleAssumption DEF AttemptNumbers, Hashes, IdOf
<1>2. n <= attempts[t]
  BY <1>1, MinedPlace DEF ViewInv, Exists
<1> QED BY <1>1, <1>2 DEF Overtaken

LEMMA OvertakenStays ==
  ASSUME Lasting
  PROVE  \A t \in Ids : Overtaken(t) => Overtaken(t)'
BY LifecycleAssumption DEF Lasting, Overtaken, AttemptNumbers

\* An id whose mined attempt no one has to notify or waits for stays so: no attempt
\* follows the mined one.
LEMMA SettledForGood ==
  ASSUME ViewInv, [Next]_vars, NEW t \in Ids, Settled(t)
  PROVE  Settled(t)' /\ attempts'[t] = attempts[t]
<1> USE DEF handlerVars, chainVars, retryVars, listenerVars
<1>1. PICK n \in 1 .. MaxAttempts : InLedger(<<t, n>>) /\ <<t, n>> \notin accepted \cup announced \cup waiters
  BY DEF Settled
<1>a. IdOf(<<t, n>>) = t
  BY DEF IdOf
<1>0. PICK h : h = <<t, n>> /\ IdOf(h) = t
  BY <1>a
<1>2. InLedger(h)' /\ Mined(t)
  BY <1>0, <1>1, MinedStays DEF ViewInv, Mined
<1>3. attempts'[t] = attempts[t]
  <2>1. ~SendAccepted(t) /\ ~SendAnswerLost(t)
    BY <1>2, FirstAttempt
  <2>2. \A k \in Hashes : IdOf(k) = t => ~RetryBroadcast(k)
    BY <1>2, NextAttempt
  <2> QED BY <2>1, <2>2, OnlyBroadcasts
<1>4. ASSUME h \notin accepted' \cup announced' \cup waiters' PROVE Settled(t)'
  BY <1>0, <1>2, <1>4 DEF Settled
<1>5. ASSUME NEW u \in Ids, Send(u) \/ SendAnswerLost(u) PROVE Settled(t)'
  <2>1. UNCHANGED <<announced, waiters>>
    BY <1>5 DEF Send, TakeRelayer, CreateTransaction, SendAccepted, SendRejected, SendAnswerLost, TellError
  <2>2. accepted' = accepted \/ (SendAccepted(u) /\ accepted' = accepted \cup {<<u, 1>>})
    BY <1>5 DEF Send, TakeRelayer, CreateTransaction, SendAccepted, SendRejected, SendAnswerLost, TellError
  <2>3. SendAccepted(u) => u # t
    BY <1>2, FirstAttempt
  <2> QED BY <1>0, <1>1, <1>4, <2>1, <2>2, <2>3
<1>6. ASSUME NEW k \in Hashes, Listen(k) \/ Retry(k) \/ Fault(k) PROVE Settled(t)'
  <2>1. CASE RetryAccepted(k)
    <3>1. RetryBroadcast(k) /\ UNCHANGED <<announced, waiters>>
      BY <2>1 DEF RetryAccepted, RetryBroadcast
    <3>2. accepted' = accepted \cup {<<IdOf(k), attempts'[IdOf(k)]>>}
      BY <2>1 DEF RetryAccepted
    <3>3. IdOf(k) # t
      BY <1>2, <3>1, NextAttempt
    <3> QED BY <1>0, <1>1, <1>4, <3>1, <3>2, <3>3
  <2>2. CASE ~RetryAccepted(k)
    <3>1. /\ accepted' \subseteq accepted
          /\ announced' \subseteq announced \cup accepted /\ waiters' \subseteq waiters \cup announced
      BY <1>6, <2>2 DEF Listen, Announce, ToAnnounce, Track, ToTrack, Awaiting, ReceiptArrives, StopWaiting,
           Retry, RetryStarts, RetryStops, RetryRejected, Fault, PublishFails, WaiterFails,
           RetryAnswerLost, RetryBroadcast
    <3> QED BY <1>0, <1>1, <1>4, <3>1
  <2> QED BY <2>1, <2>2
<1>7. CASE Restart
  BY <1>4, <1>7 DEF Restart
<1>8. ASSUME NEW a \in Accounts, MineNext(a) PROVE Settled(t)'
  BY <1>0, <1>1, <1>4, <1>8 DEF MineNext
<1>9. CASE UNCHANGED vars
  BY <1>0, <1>1, <1>4, <1>9 DEF vars
<1> QED BY <1>3, <1>5, <1>6, <1>7, <1>8, <1>9 DEF Next

\* Only an accepted request is sent.
LEMMA SentStep ==
  ASSUME RecordInv, SentIsAccepted, [RecordNext]_allVars
  PROVE  SentIsAccepted'
<1> USE DEF chainVars, recordVars
<1>1. \A t \in Ids : attempts'[t] = attempts[t] \/ request[t] = "accepted"
  <2> SUFFICES ASSUME NEW t \in Ids, attempts'[t] # attempts[t] PROVE request[t] = "accepted"
    OBVIOUS
  <2>0. ViewInv /\ [Next]_vars
    BY RecordStep DEF RecordInv
  <2>1. ASSUME NEW u \in Ids, Sends(u) PROVE request[t] = "accepted"
    <3>1. request[u] = "accepted" /\ (Send(u) \/ SendAnswerLost(u))
      BY <2>1 DEF Sends
    <3>2. ASSUME t # u PROVE attempts'[t] = attempts[t]
      <4>1. CASE SendAccepted(u) \/ SendAnswerLost(u)
        BY <2>0, <3>2, <4>1, FirstAttempt
      <4>2. CASE ~(SendAccepted(u) \/ SendAnswerLost(u))
        BY <3>1, <4>2 DEF Send, TakeRelayer, CreateTransaction, SendRejected
      <4> QED BY <4>1, <4>2
    <3> QED BY <3>1, <3>2
  <2>2. ASSUME NEW h \in Hashes, RetryBroadcast(h) PROVE request[t] = "accepted"
    <3>1. attempts[IdOf(h)] \in 1 .. MaxAttempts /\ (t # IdOf(h) => attempts'[t] = attempts[t])
      BY <2>0, <2>2, NextAttempt
    <3>2. t = IdOf(h) /\ attempts[t] # 0
      BY <3>1
    <3> QED BY <3>2 DEF SentIsAccepted
  <2>3. CASE UNCHANGED attempts
    BY <2>3
  <2>4. ASSUME NEW h \in Hashes, Retries(h) PROVE UNCHANGED attempts \/ RetryBroadcast(h)
    BY <2>4 DEF Retries, Retry, RetryStarts, RetryStops, RetryAccepted, RetryRejected, RetryAnswerLost
  <2>5. ASSUME NEW h \in Hashes, Notifies(h) \/ Tracks(h) \/ NotifyFails(h) \/ Settles(h) \/ WaiterGivesUp(h)
        PROVE  UNCHANGED attempts
    BY <2>5 DEF Notifies, Announce, Tracks, Track, NotifyFails, PublishFails, Settles, ReceiptArrives,
                StopWaiting, WaiterGivesUp, WaiterFails
  <2>6. ASSUME NEW u \in Ids, Relay(u) \/ RefuseSCW(u) \/ OrphanAA(u) PROVE UNCHANGED attempts
    BY <2>6 DEF Relay, RefuseSCW, OrphanAA, Restart, vars
  <2>7. ASSUME NEW a \in Accounts, Mines(a) PROVE UNCHANGED attempts
    BY <2>7 DEF Mines, MineNext
  <2>8. CASE ExecuteWrite \/ Restarts \/ UNCHANGED allVars
    BY <2>8 DEF ExecuteWrite, Restarts, Restart, allVars, vars
  <2> QED BY <2>1, <2>2, <2>3, <2>4, <2>5, <2>6, <2>7, <2>8 DEF RecordNext
<1>2. \A t \in Ids : request'[t] = request[t] \/ request[t] = "new"
  BY DEF RecordInv, RequestsInv, RecordNext, ExecuteWrite, Relay, RefuseSCW, OrphanAA, Sends, Notifies,
         Tracks, NotifyFails, Settles, Issue, WaiterGivesUp, Retries, Mines, Restarts, allVars
<1> QED BY <1>1, <1>2 DEF SentIsAccepted

-----------------------------------------------------------------------------
\* A write touches the documents of its own id, and sets their status to its own.
LEMMA ExecuteEffect ==
  ASSUME DocumentsInv, NEW w \in Writes, Execute(w)
  PROVE  /\ \A t \in Ids : t # w.id => documents'[t] = documents[t]
         /\ \A n \in AttemptNumbers :
              \/ documents'[w.id][n] = documents[w.id][n]
              \/ documents'[w.id][n].status = w.fields.status
<1>1. w.id \in Ids /\ "status" \in DOMAIN w.fields
  BY DEF Writes, Saves, UpdatesById, UpdatesByHash
<1>2. ASSUME NEW k \in AttemptNumbers, NEW d, d.status = w.fields.status,
             documents' = [documents EXCEPT ![w.id][k] = d]
      PROVE  /\ \A t \in Ids : t # w.id => documents'[t] = documents[t]
             /\ \A n \in AttemptNumbers :
                  \/ documents'[w.id][n] = documents[w.id][n]
                  \/ documents'[w.id][n].status = w.fields.status
  <2>1. documents' = [t \in Ids |-> [m \in AttemptNumbers |->
                        IF t = w.id /\ m = k THEN d ELSE documents[t][m]]]
    BY <1>1, <1>2 DEF DocumentsInv
  <2>2. \A t \in Ids : documents[t] = [m \in AttemptNumbers |-> documents[t][m]]
    BY DEF DocumentsInv
  <2> QED BY <1>1, <1>2, <2>1, <2>2
<1>3. CASE w.op = "save" /\ documents' = [documents EXCEPT ![w.id][w.key] = Stored(w.fields)]
  <2>1. w.key \in AttemptNumbers
    BY <1>3 DEF Writes, Saves, UpdatesById, UpdatesByHash
  <2>2. Stored(w.fields).status = w.fields.status
    BY <1>1 DEF Stored, SchemaFields
  <2> QED BY <1>2, <1>3, <2>1, <2>2
<1>4. CASE UNCHANGED documents
  BY <1>1, <1>4
<1>5. ASSUME NEW n \in Matches(w),
             documents' = [documents EXCEPT ![w.id][n] =
               [f \in DOMAIN @ \cup DOMAIN w.fields |->
                  IF f \in DOMAIN w.fields THEN w.fields[f] ELSE @[f]]]
      PROVE  /\ \A t \in Ids : t # w.id => documents'[t] = documents[t]
             /\ \A m \in AttemptNumbers :
                  \/ documents'[w.id][m] = documents[w.id][m]
                  \/ documents'[w.id][m].status = w.fields.status
  <2>1. n \in AttemptNumbers
    BY DEF Matches, Documents
  <2>2. PICK d : d = [f \in DOMAIN documents[w.id][n] \cup DOMAIN w.fields |->
                        IF f \in DOMAIN w.fields THEN w.fields[f] ELSE documents[w.id][n][f]]
    OBVIOUS
  <2>3. d.status = w.fields.status
    BY <1>1, <2>2
  <2>4. documents' = [documents EXCEPT ![w.id][n] = d]
    BY <1>5, <2>2
  <2> QED BY <1>2, <2>1, <2>3, <2>4
<1> QED BY <1>3, <1>4, <1>5 DEF Execute

\* Any status but an outcome leaves an id without one.
LEMMA NoOutcomeMade ==
  ASSUME DocumentsInv, NEW w \in Writes, Execute(w), ~SetsOutcome(w), ~HasOutcome(w.id)
  PROVE  ~HasOutcome(w.id)'
<1>1. w.fields.status \notin Outcomes
  BY DEF Writes, Saves, UpdatesById, UpdatesByHash, SetsOutcome, Outcomes
<1>2. PICK t : t = w.id
  OBVIOUS
<1>3. \A n \in AttemptNumbers : documents'[t][n] # NoDocument =>
        documents'[t][n].status \notin Outcomes
  BY <1>1, <1>2, ExecuteEffect DEF HasOutcome, Documents
<1> QED BY <1>2, <1>3 DEF HasOutcome, Documents

\* The head of the writes is executed.
LEMMA ExecuteFinal ==
  ASSUME RecordInv, LastWrite, NoWriteLeft, order = "issued", ExecuteWrite
  PROVE  LastWrite' /\ NoWriteLeft'
<1>1. /\ 1 \in DOMAIN writes /\ Execute(writes[1])
      /\ writes' = SubSeq(writes, 1, 0) \o SubSeq(writes, 2, Len(writes))
  BY DEF ExecuteWrite, Executable
<1>2. writes \in Seq(Writes) /\ writes[1] \in Writes
  BY <1>1 DEF RecordInv, RequestsInv
<1>3. \A j \in DOMAIN writes' : j + 1 \in DOMAIN writes /\ writes'[j] = writes[j + 1] /\ j \in Nat
  BY <1>1, <1>2
<1>4. \A t \in Ids : Settled(t)' = Settled(t) /\ Overtaken(t)' = Overtaken(t)
  BY DEF ExecuteWrite, Settled, Overtaken, InLedger, vars, chainVars, listenerVars
<1>5. \A w \in Writes : w.id \in Ids
  BY DEF Writes, Saves, UpdatesById, UpdatesByHash
<1>6. LastWrite'
  <2> SUFFICES ASSUME NEW i \in DOMAIN writes', SetsOutcome(writes'[i]), ~Overtaken(writes[i].id)'
               PROVE  /\ Settled(writes[i].id)'
                      /\ \A j \in DOMAIN writes' : j > i => writes'[j].id # writes'[i].id
    BY DEF LastWrite, SetsOutcome
  <2>1. PICK t : t = writes'[i].id
    OBVIOUS
  <2>a. t \in Ids /\ ~Overtaken(t)
    <3>1. t \in Ids
      BY <1>2, <1>3, <1>5, <2>1
    <3>2. ~Overtaken(t)'
      BY <2>1 DEF Overtaken, InLedger
    <3> QED BY <1>4, <3>1, <3>2
  <2>2. t \in Ids /\ Settled(t)
    BY <1>3, <2>1, <2>a DEF LastWrite
  <2>3. Settled(t)'
    BY <1>4, <2>2
  <2>4. \A j \in DOMAIN writes' : j > i => writes'[j].id # writes'[i].id
    BY <1>3, <2>1, <2>a DEF LastWrite
  <2> QED BY <2>1, <2>3, <2>4 DEF Settled, InLedger
<1>7. ASSUME NEW t \in Ids, HasOutcome(t)', ~Overtaken(t)'
      PROVE  Settled(t)' /\ \A i \in DOMAIN writes' : writes'[i].id # t
  <2>1. CASE HasOutcome(t)
    BY <1>3, <1>4, <1>7, <2>1 DEF NoWriteLeft
  <2>2. CASE ~HasOutcome(t)
    <3>1. DocumentsInv
      BY DEF RecordInv
    <3>2. PICK w : w = writes[1]
      OBVIOUS
    <3>3. t = w.id
      BY <1>1, <1>2, <1>7, <2>2, <3>1, <3>2, ExecuteEffect DEF HasOutcome, Documents
    <3>4. SetsOutcome(w)
      BY <1>1, <1>2, <1>7, <2>2, <3>1, <3>2, <3>3, NoOutcomeMade
    <3> QED BY <1>1, <1>3, <1>4, <1>7, <3>2, <3>3, <3>4 DEF LastWrite
  <2> QED BY <2>1, <2>2
<1> QED BY <1>6, <1>7 DEF NoWriteLeft

\* Writes of an id are issued before it is settled, the outcome last.
LEMMA IssueFinal ==
  ASSUME LastWrite, NoWriteLeft, \A u \in Ids : Settled(u) => Settled(u)',
         \A u \in Ids : Overtaken(u) => Overtaken(u)', UNCHANGED documents, writes \in Seq(Writes),
         NEW ws \in Seq(Writes), writes' = writes \o ws, NEW t \in Ids,
         \A i \in DOMAIN ws : /\ ws[i].id = t /\ (~Settled(t) \/ Overtaken(t))
                              /\ SetsOutcome(ws[i]) => i = Len(ws) /\ Settled(t)'
  PROVE  LastWrite' /\ NoWriteLeft'
<1>1. \A i \in DOMAIN writes' :
        \/ i \in DOMAIN writes /\ writes'[i] = writes[i]
        \/ /\ i - Len(writes) \in DOMAIN ws /\ writes'[i] = ws[i - Len(writes)]
           /\ writes'[i].id = t /\ (~Settled(t) \/ Overtaken(t))
  OBVIOUS
<1>2. \A w \in Writes : w.id \in Ids
  BY DEF Writes, Saves, UpdatesById, UpdatesByHash
<1>3. LastWrite'
  <2> SUFFICES ASSUME NEW i \in DOMAIN writes', SetsOutcome(writes'[i]), ~Overtaken(writes[i].id)'
               PROVE  /\ Settled(writes[i].id)'
                      /\ \A j \in DOMAIN writes' : j > i => writes'[j].id # writes'[i].id
    BY DEF LastWrite, SetsOutcome
  <2>1. PICK u : u = writes'[i].id
    OBVIOUS
  <2>2. u \in Ids /\ ~Overtaken(u)
    <3>1. u \in Ids
      BY <1>2, <2>1
    <3>2. ~Overtaken(u)'
      BY <2>1 DEF Overtaken, InLedger
    <3> QED BY <3>1, <3>2
  <2>3. CASE i \in DOMAIN writes /\ writes'[i] = writes[i]
    <3>1. Settled(u) /\ \A j \in DOMAIN writes : j > i => writes[j].id # u
      BY <2>1, <2>2, <2>3 DEF LastWrite
    <3>2. Settled(u)' /\ \A j \in DOMAIN writes' : j > i => writes'[j].id # u
      BY <1>1, <2>2, <3>1
    <3> QED BY <2>1, <3>2 DEF Settled, InLedger
  <2>4. CASE i - Len(writes) \in DOMAIN ws /\ writes'[i] = ws[i - Len(writes)]
    <3>1. i - Len(writes) = Len(ws) /\ Settled(t)' /\ u = t
      BY <2>1, <2>4
    <3>2. i = Len(writes')
      BY <3>1
    <3>3. \A j \in DOMAIN writes' : ~(j > i)
      BY <3>2
    <3> QED BY <2>1, <3>1, <3>3 DEF Settled, InLedger
  <2> QED BY <1>1, <2>3, <2>4
<1>4. \A u \in Ids : HasOutcome(u)' /\ ~Overtaken(u)' =>
        Settled(u)' /\ \A i \in DOMAIN writes' : writes'[i].id # u
  BY <1>1 DEF NoWriteLeft, HasOutcome, Documents
<1> QED BY <1>3, <1>4 DEF NoWriteLeft

\* A restart forgets the writes.
LEMMA ForgetFinal ==
  ASSUME \A u \in Ids : Settled(u) => Settled(u)', \A u \in Ids : Overtaken(u) => Overtaken(u)',
         writes' = <<>>,
         \A u \in Ids : HasOutcome(u)' => HasOutcome(u), NoWriteLeft
  PROVE  LastWrite' /\ NoWriteLeft'
BY DEF LastWrite, NoWriteLeft

\* What is not sent is not settled.
LEMMA UnsentUnsettled ==
  ASSUME ViewInv, SentIsAccepted, NEW t \in Ids, request[t] # "accepted"
  PROVE  ~Settled(t) /\ ~Overtaken(t)
<1>1. attempts[t] = 0
  BY DEF SentIsAccepted
<1>2. ASSUME NEW n \in 1 .. MaxAttempts, InLedger(<<t, n>>) PROVE FALSE
  <2>1. <<t, n>> \in Hashes /\ IdOf(<<t, n>>) = t
    BY DEF Hashes, IdOf
  <2>2. n <= attempts[t]
    BY <1>2, <2>1, MinedPlace DEF ViewInv, Exists
  <2> QED BY <1>1, <2>2
<1> QED BY <1>2 DEF Settled, Overtaken, AttemptNumbers

\* The writes of notify come while the hash is to be notified, the outcome with the
\* last waiter.
LEMMA FinalStep ==
  ASSUME RecordInv, FinalInv, [RecordNext]_allVars
  PROVE  FinalInv'
<1>1. SentIsAccepted'
  BY SentStep DEF FinalInv
<1>2. order' = order
  BY DEF RecordNext, ExecuteWrite, Relay, RefuseSCW, OrphanAA, Sends, Notifies, Tracks, NotifyFails,
         Settles, Issue, WaiterGivesUp, Retries, Mines, Restarts, allVars, recordVars
<1> SUFFICES ASSUME order = "issued" PROVE LastWrite' /\ NoWriteLeft'
  BY <1>1, <1>2 DEF FinalInv
<1>3. LastWrite /\ NoWriteLeft /\ SentIsAccepted /\ ViewInv /\ DocumentsInv /\ writes \in Seq(Writes)
  BY DEF FinalInv, RecordInv, RequestsInv
<1>4. \A u \in Ids : (Settled(u) => Settled(u)') /\ (Overtaken(u) => Overtaken(u)')
  BY <1>3, RecordStep, TruthStays, OvertakenStays, SettledForGood
<1>5. ASSUME UNCHANGED <<writes, documents>> PROVE LastWrite' /\ NoWriteLeft'
  <2>1. \A w \in Writes : w.id \in Ids
    BY DEF Writes, Saves, UpdatesById, UpdatesByHash
  <2>2. LastWrite'
    <3> SUFFICES ASSUME NEW i \in DOMAIN writes', SetsOutcome(writes'[i]), ~Overtaken(writes[i].id)'
                 PROVE  /\ Settled(writes[i].id)'
                        /\ \A j \in DOMAIN writes' : j > i => writes'[j].id # writes'[i].id
      BY DEF LastWrite, SetsOutcome
    <3>1. PICK u : u = writes[i].id
      OBVIOUS
    <3>2. u \in Ids /\ i \in DOMAIN writes /\ writes'[i] = writes[i]
      BY <1>3, <1>5, <2>1, <3>1
    <3>3. ~Overtaken(u)'
      BY <1>5, <3>1 DEF Overtaken, InLedger
    <3>4. Settled(u) /\ \A j \in DOMAIN writes : j > i => writes[j].id # u
      BY <1>3, <1>4, <3>1, <3>2, <3>3 DEF LastWrite
    <3>5. Settled(u)'
      BY <1>4, <3>2, <3>4
    <3> QED BY <1>5, <3>1, <3>4, <3>5 DEF Settled, InLedger
  <2>3. NoWriteLeft'
    BY <1>3, <1>4, <1>5 DEF NoWriteLeft, HasOutcome, Documents
  <2> QED BY <2>2, <2>3
<1>6. CASE ExecuteWrite
  BY <1>3, <1>6, ExecuteFinal
<1>7. ASSUME NEW t \in Ids, Relay(t) PROVE LastWrite' /\ NoWriteLeft'
  <2>1. PICK w : w = SaveRequest(t)
    OBVIOUS
  <2>2. w \in Writes /\ w.id = t /\ ~SetsOutcome(w)
    BY <2>1, RequestTruthful DEF Truthful, SaveRequest, Save, SetsOutcome
  <2>3. ~Settled(t)
    BY <1>3, <1>7, UnsentUnsettled DEF Relay
  <2>4. writes' = writes \o <<w>> /\ UNCHANGED documents /\ <<w>> \in Seq(Writes)
    BY <1>3, <1>7, <2>1, <2>2 DEF Relay
  <2>5. \A i \in DOMAIN <<w>> : <<w>>[i] = w
    OBVIOUS
  <2> QED BY <1>3, <1>4, <2>2, <2>3, <2>4, <2>5, IssueFinal
<1>8. ASSUME NEW t \in Ids, OrphanAA(t) PROVE LastWrite' /\ NoWriteLeft'
  <2>1. PICK w : w = SaveRequest(t)
    OBVIOUS
  <2>2. w \in Writes /\ w.id = t /\ ~SetsOutcome(w)
    BY <2>1, RequestTruthful DEF Truthful, SaveRequest, Save, SetsOutcome
  <2>3. ~HasOutcome(t)
    <3>1. ~Settled(t) /\ ~Overtaken(t)
      BY <1>3, <1>8, UnsentUnsettled DEF OrphanAA
    <3> QED BY <1>3, <3>1 DEF NoWriteLeft
  <2>4. writes' = <<>> /\ (Execute(w) \/ UNCHANGED documents)
    BY <1>8, <2>1 DEF OrphanAA
  <2>5. \A u \in Ids : HasOutcome(u)' => HasOutcome(u)
    <3>1. CASE UNCHANGED documents
      BY <3>1 DEF HasOutcome, Documents
    <3>2. CASE Execute(w)
      <4>1. \A u \in Ids : u # t => documents'[u] = documents[u]
        BY <1>3, <2>2, <3>2, ExecuteEffect
      <4>2. ~HasOutcome(w.id)'
        BY <1>3, <2>2, <2>3, <3>2, NoOutcomeMade
      <4> QED BY <2>2, <4>1, <4>2 DEF HasOutcome, Documents
    <3> QED BY <2>4, <3>1, <3>2
  <2> QED BY <1>3, <1>4, <2>4, <2>5, ForgetFinal
<1>9. ASSUME NEW h \in Hashes, Notifies(h) \/ NotifyFails(h) PROVE LastWrite' /\ NoWriteLeft'
  <2>1. PICK ws \in {NoticeWrites(h), <<>>} : Issue(ws) /\ (ws # <<>> => h \in accepted)
    BY <1>9 DEF Notifies, NotifyFails, Announce, ToAnnounce
  <2>2. CASE ws = <<>>
    BY <1>3, <1>5, <2>1, <2>2 DEF Issue
  <2>3. CASE ws # <<>>
    <3>1. h \in accepted /\ ws = NoticeWrites(h) /\ IdOf(h) \in Ids
      BY <2>1, <2>3, HashParts
    <3>3. ~Settled(IdOf(h)) \/ Overtaken(IdOf(h))
      <4>1. h = <<IdOf(h), attempts[IdOf(h)]>>
        BY <1>3, <3>1, FollowedHash DEF Followed
      <4>2. ASSUME NEW n \in AttemptNumbers, InLedger(<<IdOf(h), n>>), <<IdOf(h), n>> \notin accepted,
                   ~Overtaken(IdOf(h))
            PROVE  FALSE
        BY <1>3, <3>1, <4>1, <4>2, MinedLatest
      <4> QED BY <4>2 DEF Settled, AttemptNumbers
    <3>4. ws \in Seq(Writes)
      BY <1>3, <3>1, NoticeTruthful DEF RecordInv
    <3>5. \A i \in DOMAIN ws : ws[i].id = IdOf(h) /\ ~SetsOutcome(ws[i])
      BY <3>1 DEF NoticeWrites, Save, UpdateById, UpdateByHash, SetsOutcome, Outcomes, IdOf
    <3> QED BY <1>3, <1>4, <2>1, <3>1, <3>3, <3>4, <3>5, IssueFinal DEF Issue
  <2> QED BY <2>2, <2>3
<1>10. ASSUME NEW h \in Hashes, Settles(h) PROVE LastWrite' /\ NoWriteLeft'
  <2>1. PICK s \in {"SUCCESS", "FAILED"} : Issue(<<UpdateByHash(h[1], h[2], [status |-> s])>>)
    BY <1>10 DEF Settles
  <2>2. PICK w : w = UpdateByHash(h[1], h[2], [status |-> s])
    OBVIOUS
  <2>3. PICK t : t = IdOf(h)
    OBVIOUS
  <2>4. /\ h \in waiters /\ InLedger(h) /\ waiters' = waiters \ {h} /\ UNCHANGED <<accepted, announced, attempts>>
        /\ t \in Ids
    BY <1>10, <2>3, HashParts DEF Settles, ReceiptArrives, StopWaiting, chainVars
  <2>5. h = <<t, h[2]>> /\ h[2] \in AttemptNumbers
    BY <2>3, HashParts DEF AttemptNumbers
  <2>6. ~Settled(t)
    <3>1. \A n \in AttemptNumbers : InLedger(<<t, n>>) => n = h[2]
      BY <1>3, <2>4, <2>5, MinedOnce DEF ViewInv, ExecutedOnce, AttemptNumbers
    <3> QED BY <2>4, <2>5, <3>1 DEF Settled, AttemptNumbers
  <2>7. Settled(t)'
    <3>1. h \notin accepted \cup announced
      BY <1>3, <2>4 DEF ViewInv, StoryInv
    <3>2. InLedger(h)'
      BY <1>10, <2>4 DEF Settles, ReceiptArrives, StopWaiting, chainVars, InLedger
    <3>3. PICK n \in AttemptNumbers : h = <<t, n>>
      BY <2>5
    <3> QED BY <2>4, <3>1, <3>2, <3>3 DEF Settled, AttemptNumbers
  <2>8. w \in Writes /\ w.id = t
    <3>1. h[1] = t /\ h[2] \in 0 .. MaxAttempts
      BY <2>3, <2>5, LifecycleAssumption DEF IdOf, AttemptNumbers
    <3> QED BY <2>2, <2>4, <3>1 DEF UpdateByHash, Writes, UpdatesByHash
  <2>9. <<w>> \in Seq(Writes) /\ Len(<<w>>) = 1 /\ \A i \in DOMAIN <<w>> : i = 1 /\ <<w>>[i] = w
    BY <2>8
  <2> QED BY <1>3, <1>4, <2>1, <2>2, <2>4, <2>6, <2>7, <2>8, <2>9, IssueFinal DEF Issue
<1>11. CASE Restarts
  BY <1>3, <1>4, <1>11, ForgetFinal DEF Restarts, HasOutcome, Documents
<1>12. CASE UNCHANGED allVars
  BY <1>5, <1>12 DEF allVars, recordVars
<1>13. ASSUME NEW t \in Ids, RefuseSCW(t) \/ Sends(t) PROVE LastWrite' /\ NoWriteLeft'
  BY <1>5, <1>13 DEF RefuseSCW, Sends, recordVars
<1>14. ASSUME NEW h \in Hashes, Tracks(h) \/ WaiterGivesUp(h) \/ Retries(h) PROVE LastWrite' /\ NoWriteLeft'
  BY <1>5, <1>14 DEF Tracks, WaiterGivesUp, Retries, recordVars
<1>15. ASSUME NEW a \in Accounts, Mines(a) PROVE LastWrite' /\ NoWriteLeft'
  BY <1>5, <1>15 DEF Mines, recordVars
<1> QED BY <1>6, <1>7, <1>8, <1>9, <1>10, <1>11, <1>12, <1>13, <1>14, <1>15 DEF RecordNext

-----------------------------------------------------------------------------
\* Attempts are bounded, so there is a last one among them.
LEMMA LastAttempt ==
  ASSUME NEW S \in SUBSET AttemptNumbers, S # {}
  PROVE  \E n \in S : \A m \in S : m <= n
<1> DEFINE R == OpToRel(<, Nat)
           T == {MaxAttempts - n : n \in S}
<1>1. MaxAttempts \in Nat /\ \A n \in S : n \in Nat /\ MaxAttempts - n \in Nat
  BY LifecycleAssumption DEF AttemptNumbers
<1>2. T \subseteq Nat /\ T # {}
  BY <1>1
<1>3. \A i, j \in Nat : i < j => <<i, j>> \in R
  BY DEF OpToRel
<1>4. IsWellFoundedOn(R, Nat)
  BY NatLessThanWellFounded
<1> HIDE DEF R
<1>5. PICK i \in T : \A j \in T : ~(<<j, i>> \in R)
  <2> HIDE DEF T
  <2> QED BY <1>2, <1>4, WFMin
<1>6. PICK n \in S : i = MaxAttempts - n
  OBVIOUS
<1>7. ASSUME NEW m \in S PROVE m <= n
  <2>1. MaxAttempts - m \in T /\ MaxAttempts - m \in Nat /\ i \in Nat
    BY <1>1, <1>2
  <2>2. ~(MaxAttempts - m < i)
    BY <1>3, <1>5, <2>1
  <2> QED BY <1>1, <1>6, <2>1, <2>2
<1> QED BY <1>7

\* An outcome the status endpoint reports is that of a document.
LEMMA ReportedOutcome ==
  ASSUME NEW t, StatusApi(t) \in Outcomes
  PROVE  HasOutcome(t)
<1>1. Documents(t) # {} /\ documents[t][Newest(t)].status \in Outcomes
  BY DEF StatusApi, Outcomes
<1>2. \E n \in Documents(t) : \A m \in Documents(t) : m <= n
  BY <1>1, LastAttempt DEF Documents
<1>3. Newest(t) \in Documents(t)
  BY <1>2 DEF Newest
<1> QED BY <1>1, <1>3 DEF HasOutcome

\* No step touches the documents of an id that has its outcome and was not overtaken.
LEMMA DocumentsFinal ==
  ASSUME RecordInv, FinalInv, [RecordNext]_allVars, order = "issued",
         NEW t \in Ids, HasOutcome(t), ~Overtaken(t)
  PROVE  documents'[t] = documents[t]
<1>1. Settled(t) /\ (\A i \in DOMAIN writes : writes[i].id # t) /\ DocumentsInv
  BY DEF FinalInv, NoWriteLeft, RecordInv
<1>2. CASE ExecuteWrite
  <2>1. PICK i \in DOMAIN writes : Execute(writes[i])
    BY <1>2 DEF ExecuteWrite, Executable
  <2>2. PICK w : w = writes[i]
    OBVIOUS
  <2>3. w \in Writes /\ Execute(w) /\ w.id # t
    BY <1>1, <2>1, <2>2 DEF RecordInv, RequestsInv
  <2> QED BY <1>1, <2>3, ExecuteEffect
<1>3. ASSUME NEW u \in Ids, OrphanAA(u) PROVE documents'[t] = documents[t]
  <2>1. PICK w : w = SaveRequest(u)
    OBVIOUS
  <2>2. w \in Writes /\ w.id = u
    BY <2>1, RequestTruthful DEF Truthful, SaveRequest, Save
  <2>3. u # t
    BY <1>1, <1>3, UnsentUnsettled DEF OrphanAA, FinalInv, RecordInv
  <2> QED BY <1>1, <1>3, <2>1, <2>2, <2>3, ExecuteEffect DEF OrphanAA
<1>4. CASE ~ExecuteWrite /\ ~\E u \in Ids : OrphanAA(u)
  BY <1>4 DEF RecordNext, Relay, RefuseSCW, Sends, Notifies, Tracks, NotifyFails, Settles, Issue,
       WaiterGivesUp, Retries, Mines, Restarts, allVars, recordVars
<1> QED BY <1>2, <1>3, <1>4

LEMMA InitFinal == RecordInit => FinalInv
BY DEF RecordInit, Init, FinalInv, SentIsAccepted, LastWrite, NoWriteLeft, HasOutcome, Documents

LEMMA RecordsFinal == RecordSpec => [](RecordInv /\ FinalInv)
<1>1. RecordInv /\ FinalInv /\ [RecordNext]_allVars => RecordInv' /\ FinalInv'
  BY RecordInvariance, FinalStep
<1> QED BY InitRecord, InitFinal, <1>1, PTL DEF RecordSpec

\* The outcome of a transaction at the status endpoint is final, however its retries,
\* waiters and receipts meet, as long as the database keeps the order of the writes and
\* no node had taken a replacement of the attempt that was mined.
THEOREM OutcomeIsFinal == RecordSpec => SettledStays
<1>1. RecordInv /\ FinalInv /\ [RecordNext]_allVars
        => [\A t \in Ids : order = "issued" /\ StatusApi(t) \in Outcomes /\ ~Superseded(t)
              => StatusApi(t)' = StatusApi(t)]_allVars
  <2> SUFFICES ASSUME RecordInv, FinalInv, [RecordNext]_allVars,
                      NEW t \in Ids, order = "issued", StatusApi(t) \in Outcomes, ~Superseded(t)
               PROVE  StatusApi(t)' = StatusApi(t)
    OBVIOUS
  <2>1. documents'[t] = documents[t]
    BY ReportedOutcome, OvertakenBy, DocumentsFinal DEF RecordInv
  <2> QED BY <2>1 DEF StatusApi, Newest, Documents
<1> QED BY RecordsFinal, <1>1, PTL DEF SettledStays, RecordSpec

-----------------------------------------------------------------------------
(* The outcome finds its document.  Writes that keep their order build a    *)
(* document step by step: the controller's save creates it, notify gives it *)
(* its hash, or makes another one that has it, once, and the waiter's update *)
(* by hash comes after.                                                     *)
Creates(w) == w.op = "save" /\ w.key = 1

Replaces(w) == w.op = "save" /\ w.key # 1

GivesHash(w, t, n) ==
  w.id = t /\ IF n = 1 THEN w.op = "updateById" ELSE w.op = "save" /\ w.key = n

(* The document of a hash has it, or will have it from a write before bound. *)
Given(t, n, bound) ==
  HasHash(t, n, n) \/ \E i \in DOMAIN writes : i < bound /\ GivesHash(writes[i], t, n)

WellFormed(w) ==
  /\ Creates(w) => "transactionHash" \notin DOMAIN w.fields
  /\ Replaces(w) => /\ "transactionHash" \in DOMAIN w.fields /\ w.fields.transactionHash = w.key
                    /\ w.key <= attempts[w.id]
  /\ w.op = "updateById" => w.fields.transactionHash = 1 /\ 1 <= attempts[w.id]

HashesInv ==
  \A t \in Ids : \A n \in Documents(t) :
    /\ n = 1 \/ n <= attempts[t]
    /\ "transactionHash" \in DOMAIN documents[t][n] =>
         documents[t][n].transactionHash = n /\ n <= attempts[t]

CreatedFirst ==
  \A i \in DOMAIN writes : Creates(writes[i]) =>
    /\ Documents(writes[i].id) = {}
    /\ \A j \in DOMAIN writes : j < i => writes[j].id # writes[i].id

FirstHashFirst ==
  \A i \in DOMAIN writes : writes[i].op = "updateById" =>
    /\ Documents(writes[i].id) \subseteq {1}
    /\ \A j \in DOMAIN writes : j < i /\ writes[j].id = writes[i].id => ~Replaces(writes[j])

OutcomeGiven ==
  \A i \in DOMAIN writes : SetsOutcome(writes[i]) => Given(writes[i].id, writes[i].key, i)

GivenOnce ==
  \A i \in DOMAIN writes : \A n \in AttemptNumbers :
    GivesHash(writes[i], writes[i].id, n) => ~Given(writes[i].id, n, i)

(* What holds of the writes and the documents alone.                        *)
QueueInv ==
  /\ \A i \in DOMAIN writes : WellFormed(writes[i])
  /\ HashesInv /\ CreatedFirst /\ FirstHashFirst /\ OutcomeGiven /\ GivenOnce

Requested ==
  \A t \in Ids :
    /\ request[t] # "accepted" =>
         Documents(t) = {} /\ \A i \in DOMAIN writes : writes[i].id # t
    /\ request[t] = "accepted" =>
         1 \in Documents(t) \/ \E i \in DOMAIN writes : writes[i].id = t /\ Creates(writes[i])

HashGiven == \A h \in announced \cup waiters : Given(h[1], h[2], Len(writes) + 1)

(* A hash that has to be notified was given to no document yet.             *)
HashAwaits == \A h \in accepted : ~Given(h[1], h[2], Len(writes) + 1)

(* The update of a waiter found its document.                               *)
OutcomeStored(t) ==
  \E n \in Documents(t) :
    InLedger(<<t, n>>) /\ HasHash(t, n, n) /\ documents[t][n].status # "PENDING"

OutcomeAwaits ==
  \A t \in Ids : Reported(t) =>
    OutcomeStored(t) \/ \E i \in DOMAIN writes : writes[i].id = t /\ SetsOutcome(writes[i])

WrittenInv == QueueInv /\ Requested /\ HashGiven /\ HashAwaits /\ OutcomeAwaits

\* What was given is an attempt.
LEMMA GivenExists ==
  ASSUME QueueInv, writes \in Seq(Writes), NEW t \in Ids, NEW n \in AttemptNumbers, NEW b, Given(t, n, b)
  PROVE  n <= attempts[t]
<1>1. CASE HasHash(t, n, n)
  <2>1. n \in Documents(t)
    BY <1>1 DEF HasHash, Documents, NoDocument
  <2> QED BY <1>1, <2>1 DEF HasHash, QueueInv, HashesInv
<1>2. ASSUME NEW i \in DOMAIN writes, GivesHash(writes[i], t, n) PROVE n <= attempts[t]
  <2>1. PICK w : w = writes[i]
    OBVIOUS
  <2>2. WellFormed(w) /\ GivesHash(w, t, n)
    BY <1>2, <2>1 DEF QueueInv
  <2> QED BY <2>2 DEF WellFormed, GivesHash, Replaces
<1> QED BY <1>1, <1>2 DEF Given

\* What a write has by its operation.
LEMMA WriteKinds ==
  ASSUME NEW w \in Writes
  PROVE  /\ w.id \in Ids
         /\ w.op = "save" => w \in Saves /\ w.key \in AttemptNumbers
         /\ w.op = "updateById" => w \in UpdatesById
         /\ w.op = "updateByHash" => w \in UpdatesByHash
         /\ w.op \in {"save", "updateById", "updateByHash"}
         /\ "status" \in DOMAIN w.fields
BY DEF Writes, Saves, UpdatesById, UpdatesByHash

\* A write replaces one document of its id at most.
LEMMA ExecuteDocument ==
  ASSUME DocumentsInv, NEW w \in Writes, Execute(w)
  PROVE  \/ UNCHANGED documents /\ w.op # "save" /\ Matches(w) = {}
         \/ \E n \in AttemptNumbers :
              /\ documents'[w.id][n] # NoDocument
              /\ \A m \in AttemptNumbers : m # n => documents'[w.id][m] = documents[w.id][m]
              /\ \/ w.op = "save" /\ n = w.key /\ documents'[w.id][n] = Stored(w.fields)
                 \/ /\ w.op # "save" /\ n \in Matches(w)
                    /\ documents'[w.id][n] =
                         [f \in DOMAIN documents[w.id][n] \cup DOMAIN w.fields |->
                            IF f \in DOMAIN w.fields THEN w.fields[f] ELSE documents[w.id][n][f]]
<1>1. ASSUME NEW k \in AttemptNumbers, NEW d, documents' = [documents EXCEPT ![w.id][k] = d]
      PROVE  /\ documents'[w.id][k] = d
             /\ \A m \in AttemptNumbers : m # k => documents'[w.id][m] = documents[w.id][m]
  <2>1. documents' = [t \in Ids |-> [m \in AttemptNumbers |->
                        IF t = w.id /\ m = k THEN d ELSE documents[t][m]]]
    BY <1>1, WriteKinds DEF DocumentsInv
  <2> QED BY <2>1, WriteKinds
<1>2. ASSUME NEW d, "status" \in DOMAIN d PROVE d # NoDocument
  BY <1>2 DEF NoDocument
<1>3. CASE w.op = "save" /\ documents' = [documents EXCEPT ![w.id][w.key] = Stored(w.fields)]
  <2>1. "status" \in DOMAIN Stored(w.fields) /\ w.key \in AttemptNumbers
    BY <1>3, WriteKinds DEF Stored, SchemaFields
  <2>2. /\ documents'[w.id][w.key] = Stored(w.fields)
        /\ \A m \in AttemptNumbers : m # w.key => documents'[w.id][m] = documents[w.id][m]
    BY <1>1, <1>3, <2>1
  <2>3. documents'[w.id][w.key] # NoDocument
    BY <1>2, <2>1, <2>2
  <2> QED BY <1>3, <2>1, <2>2, <2>3
<1>4. ASSUME w.op # "save", NEW n \in Matches(w),
             documents' = [documents EXCEPT ![w.id][n] =
               [f \in DOMAIN @ \cup DOMAIN w.fields |->
                  IF f \in DOMAIN w.fields THEN w.fields[f] ELSE @[f]]]
      PROVE  /\ n \in AttemptNumbers /\ documents'[w.id][n] # NoDocument
             /\ \A m \in AttemptNumbers : m # n => documents'[w.id][m] = documents[w.id][m]
             /\ documents'[w.id][n] =
                  [f \in DOMAIN documents[w.id][n] \cup DOMAIN w.fields |->
                     IF f \in DOMAIN w.fields THEN w.fields[f] ELSE documents[w.id][n][f]]
  <2>1. n \in AttemptNumbers
    BY DEF Matches, Documents
  <2>2. PICK d : d = [f \in DOMAIN documents[w.id][n] \cup DOMAIN w.fields |->
                        IF f \in DOMAIN w.fields THEN w.fields[f] ELSE documents[w.id][n][f]]
    OBVIOUS
  <2>3. "status" \in DOMAIN d
    BY <2>2, WriteKinds
  <2>4. documents' = [documents EXCEPT ![w.id][n] = d]
    BY <1>4, <2>2
  <2> QED BY <1>1, <1>2, <2>1, <2>2, <2>3, <2>4
<1> QED BY <1>3, <1>4 DEF Execute

\* A document keeps the hash it was given, by which an update by hash finds it and no
\* other, and no write that gives no hash makes it pending again.
LEMMA ExecuteHash ==
  ASSUME DocumentsInv, HashesInv, NEW w \in Writes, WellFormed(w), Execute(w),
         Creates(w) => Documents(w.id) = {},
         w.op = "updateById" => Documents(w.id) = {1},
         NEW t, t = w.id
  PROVE  /\ \A n \in AttemptNumbers : HasHash(t, n, n) \/ GivesHash(w, t, n) => HasHash(t, n, n)'
         /\ \A n \in Documents(t)' :
              /\ n \in Documents(t) \/ (w.op = "save" /\ n = w.key)
              /\ "transactionHash" \in DOMAIN documents'[t][n] => documents'[t][n].transactionHash = n
         /\ \A n \in Documents(t) : n \in Documents(t)'
         /\ w.op = "save" => w.key \in Documents(t)'
         /\ SetsOutcome(w) /\ w.key \in AttemptNumbers /\ HasHash(t, w.key, w.key) =>
              w.key \in Documents(t)' /\ documents'[t][w.key].status \in Outcomes
         /\ \A n \in AttemptNumbers : HasHash(t, n, n)' => HasHash(t, n, n) \/ GivesHash(w, t, n)
         /\ \A n \in AttemptNumbers :
              HasHash(t, n, n) /\ ~GivesHash(w, t, n) /\ documents[t][n].status # "PENDING"
                => documents'[t][n].status # "PENDING"
<1>0. t \in Ids /\ \A n \in AttemptNumbers : documents[t][n] = NoDocument => ~HasHash(t, n, n)
  BY WriteKinds DEF HasHash, NoDocument
<1>5. w.id = t
  OBVIOUS
<1>1. CASE UNCHANGED documents /\ w.op # "save" /\ Matches(w) = {}
  <2>1. w.op # "updateById"
    BY <1>1 DEF Matches
  <2>2. \A n \in AttemptNumbers : ~GivesHash(w, t, n)
    BY <1>1, <2>1 DEF GivesHash
  <2>3. SetsOutcome(w) => \A n \in AttemptNumbers : ~HasHash(t, n, w.key)
    BY <1>0, <1>1, <2>1 DEF Matches, Documents, HasHash, NoDocument
  <2>4. \A n \in AttemptNumbers : HasHash(t, n, n)' = HasHash(t, n, n)
    BY <1>1 DEF HasHash
  <2> QED BY <1>0, <1>1, <2>2, <2>3, <2>4 DEF HasHash, Documents, HashesInv
<1>2. ASSUME NEW k \in AttemptNumbers, documents'[t][k] # NoDocument,
             \A m \in AttemptNumbers : m # k => documents'[t][m] = documents[t][m],
             w.op = "save", k = w.key, documents'[t][k] = Stored(w.fields)
      PROVE  /\ \A n \in AttemptNumbers : HasHash(t, n, n) \/ GivesHash(w, t, n) => HasHash(t, n, n)'
             /\ \A n \in Documents(t)' :
                  /\ n \in Documents(t) \/ n = w.key
                  /\ "transactionHash" \in DOMAIN documents'[t][n] =>
                       documents'[t][n].transactionHash = n
             /\ \A n \in Documents(t) : n \in Documents(t)'
             /\ w.key \in Documents(t)'
             /\ \A n \in AttemptNumbers : HasHash(t, n, n)' => HasHash(t, n, n) \/ GivesHash(w, t, n)
             /\ \A n \in AttemptNumbers :
                  HasHash(t, n, n) /\ ~GivesHash(w, t, n) /\ documents[t][n].status # "PENDING"
                    => documents'[t][n].status # "PENDING"
  <2>1. /\ DOMAIN documents'[t][k] = DOMAIN w.fields \cap SchemaFields
        /\ \A f \in DOMAIN documents'[t][k] : documents'[t][k][f] = w.fields[f]
    BY <1>2 DEF Stored
  <2>2. CASE Creates(w)
    <3>1. k = 1 /\ "transactionHash" \notin DOMAIN documents'[t][k]
      BY <1>2, <2>1, <2>2 DEF Creates, WellFormed
    <3>2. \A n \in AttemptNumbers : ~HasHash(t, n, n) /\ ~GivesHash(w, t, n)
      BY <1>0, <1>2, <2>2, <3>1 DEF Documents, GivesHash
    <3>3. \A n \in AttemptNumbers : ~HasHash(t, n, n)'
      BY <1>2, <3>1, <3>2 DEF HasHash
    <3> QED BY <1>2, <2>2, <3>1, <3>2, <3>3 DEF Documents
  <2>3. CASE Replaces(w)
    <3>1. "transactionHash" \in DOMAIN documents'[t][k] /\ documents'[t][k].transactionHash = k
      BY <1>2, <2>1, <2>3 DEF WellFormed, SchemaFields
    <3>2. \A n \in AttemptNumbers : GivesHash(w, t, n) <=> n = k
      BY <1>2, <1>5, <2>3 DEF GivesHash, Replaces
    <3>3. \A n \in AttemptNumbers : HasHash(t, n, n) \/ n = k => HasHash(t, n, n)'
      BY <1>2, <3>1 DEF HasHash
    <3>4. \A n \in AttemptNumbers : n # k => (HasHash(t, n, n)' <=> HasHash(t, n, n))
      BY <1>2 DEF HasHash
    <3>5. \A n \in Documents(t)' : /\ n \in Documents(t) \/ n = w.key
                                   /\ "transactionHash" \in DOMAIN documents'[t][n] =>
                                        documents'[t][n].transactionHash = n
      BY <1>0, <1>2, <3>1 DEF Documents, HashesInv
    <3>6. (\A n \in Documents(t) : n \in Documents(t)') /\ w.key \in Documents(t)'
      BY <1>2 DEF Documents
    <3> QED BY <1>2, <3>2, <3>3, <3>4, <3>5, <3>6
  <2> QED BY <1>2, <2>2, <2>3 DEF Creates, Replaces
<1>3. ASSUME NEW k \in AttemptNumbers, documents'[t][k] # NoDocument,
             \A m \in AttemptNumbers : m # k => documents'[t][m] = documents[t][m],
             w.op # "save", k \in Matches(w),
             documents'[t][k] = [f \in DOMAIN documents[t][k] \cup DOMAIN w.fields |->
                                   IF f \in DOMAIN w.fields THEN w.fields[f] ELSE documents[t][k][f]]
      PROVE  /\ \A n \in AttemptNumbers : HasHash(t, n, n) \/ GivesHash(w, t, n) => HasHash(t, n, n)'
             /\ \A n \in Documents(t)' :
                  /\ n \in Documents(t)
                  /\ "transactionHash" \in DOMAIN documents'[t][n] =>
                       documents'[t][n].transactionHash = n
             /\ \A n \in Documents(t) : n \in Documents(t)'
             /\ SetsOutcome(w) /\ w.key \in AttemptNumbers /\ HasHash(t, w.key, w.key) =>
                  w.key \in Documents(t)' /\ documents'[t][w.key].status \in Outcomes
             /\ \A n \in AttemptNumbers : HasHash(t, n, n)' => HasHash(t, n, n) \/ GivesHash(w, t, n)
             /\ \A n \in AttemptNumbers :
                  HasHash(t, n, n) /\ ~GivesHash(w, t, n) /\ documents[t][n].status # "PENDING"
                    => documents'[t][n].status # "PENDING"
  <2>1. k \in Documents(t)
    BY <1>3 DEF Matches
  <2>2. Documents(t)' = Documents(t)
    BY <1>3, <2>1 DEF Documents
  <2>3. CASE w.op = "updateById"
    <3>1. k = 1 /\ DOMAIN w.fields = {"transactionHash", "status"} /\ w.fields.transactionHash = 1
      BY <1>3, <2>1, <2>3, WriteKinds DEF UpdatesById, WellFormed
    <3>2. "transactionHash" \in DOMAIN documents'[t][k] /\ documents'[t][k].transactionHash = k
      BY <1>3, <3>1
    <3>3. \A n \in AttemptNumbers : GivesHash(w, t, n) <=> n = k
      BY <1>5, <2>3, <3>1 DEF GivesHash
    <3>4. \A n \in AttemptNumbers : HasHash(t, n, n) \/ n = k => HasHash(t, n, n)'
      BY <1>3, <3>2 DEF HasHash
    <3>5. \A n \in Documents(t)' : "transactionHash" \in DOMAIN documents'[t][n] =>
            documents'[t][n].transactionHash = n
      BY <1>0, <1>3, <2>2, <3>2 DEF Documents, HashesInv
    <3>6. ~SetsOutcome(w)
      BY <2>3 DEF SetsOutcome
    <3>7. \A n \in AttemptNumbers : n # k => (HasHash(t, n, n)' <=> HasHash(t, n, n))
      BY <1>3 DEF HasHash
    <3> QED BY <1>3, <2>2, <3>3, <3>4, <3>5, <3>6, <3>7
  <2>4. CASE w.op = "updateByHash"
    <3>1. DOMAIN w.fields = {"status"}
      BY <2>4, WriteKinds DEF UpdatesByHash
    <3>2. HasHash(t, k, w.key) /\ w.key = k
      BY <1>0, <1>3, <2>1, <2>4 DEF Matches, HasHash, HashesInv
    <3>3. /\ DOMAIN documents'[t][k] = DOMAIN documents[t][k] \cup {"status"}
          /\ documents'[t][k].status = w.fields.status
          /\ "transactionHash" \in DOMAIN documents[t][k] =>
               documents'[t][k].transactionHash = documents[t][k].transactionHash
      BY <1>3, <3>1
    <3>4. \A n \in AttemptNumbers : HasHash(t, n, n) => HasHash(t, n, n)'
      BY <1>3, <3>3 DEF HasHash
    <3>5. \A n \in AttemptNumbers : ~GivesHash(w, t, n)
      BY <2>4 DEF GivesHash
    <3>6. \A n \in Documents(t)' : "transactionHash" \in DOMAIN documents'[t][n] =>
            documents'[t][n].transactionHash = n
      <4>1. \A n \in Documents(t) : "transactionHash" \in DOMAIN documents[t][n] =>
              documents[t][n].transactionHash = n
        BY <1>0 DEF HashesInv
      <4>2. \A n \in Documents(t) : n # k => documents'[t][n] = documents[t][n]
        BY <1>3 DEF Documents
      <4> QED BY <2>1, <2>2, <3>3, <4>1, <4>2
    <3>7. \A n \in AttemptNumbers : HasHash(t, n, n)' => HasHash(t, n, n)
      BY <1>3, <3>2, <3>3 DEF HasHash
    <3>8. documents'[t][k].status # "PENDING"
      BY <2>4, <3>3, WriteKinds DEF UpdatesByHash
    <3>9. \A n \in AttemptNumbers :
            documents[t][n].status # "PENDING" => documents'[t][n].status # "PENDING"
      BY <1>3, <3>8
    <3> QED BY <2>1, <2>2, <3>2, <3>3, <3>4, <3>5, <3>6, <3>7, <3>9 DEF SetsOutcome
  <2> QED BY <1>3, <2>3, <2>4, WriteKinds
<1>4. CASE ~(UNCHANGED documents /\ w.op # "save" /\ Matches(w) = {})
  <2>1. PICK k \in AttemptNumbers :
          /\ documents'[w.id][k] # NoDocument
          /\ \A m \in AttemptNumbers : m # k => documents'[w.id][m] = documents[w.id][m]
          /\ \/ w.op = "save" /\ k = w.key /\ documents'[w.id][k] = Stored(w.fields)
             \/ /\ w.op # "save" /\ k \in Matches(w)
                /\ documents'[w.id][k] =
                     [f \in DOMAIN documents[w.id][k] \cup DOMAIN w.fields |->
                        IF f \in DOMAIN w.fields THEN w.fields[f] ELSE documents[w.id][k][f]]
    BY <1>4, ExecuteDocument
  <2>2. CASE w.op = "save"
    <3>1. ~SetsOutcome(w)
      BY <2>2 DEF SetsOutcome
    <3> QED BY <1>2, <2>1, <2>2, <3>1
  <2>3. CASE w.op # "save"
    BY <1>3, <2>1, <2>3
  <2> QED BY <2>2, <2>3
<1> QED BY <1>1, <1>4

\* Executing the head of the writes keeps what is known of the rest.
LEMMA ExecuteWritten ==
  ASSUME RecordInv, FinalInv, WrittenInv, order = "issued", ExecuteWrite
  PROVE  WrittenInv'
<1>1. /\ 1 \in DOMAIN writes /\ Execute(writes[1])
      /\ writes' = SubSeq(writes, 1, 0) \o SubSeq(writes, 2, Len(writes))
      /\ UNCHANGED <<attempts, ledger, request, accepted, announced, waiters, events>>
  BY DEF ExecuteWrite, Executable, vars, chainVars, listenerVars
<1>2. writes \in Seq(Writes) /\ writes[1] \in Writes /\ DocumentsInv
  BY <1>1 DEF RecordInv, RequestsInv
<1>3. /\ \A j \in DOMAIN writes' : j + 1 \in DOMAIN writes /\ writes'[j] = writes[j + 1] /\ j \in Nat
      /\ \A i \in DOMAIN writes : i # 1 => i - 1 \in DOMAIN writes' /\ writes'[i - 1] = writes[i]
      /\ Len(writes') = Len(writes) - 1 /\ DOMAIN writes \subseteq Nat \ {0} /\ Len(writes) \in Nat
  <2> DEFINE front == SubSeq(writes, 1, 0)
             back == SubSeq(writes, 2, Len(writes))
  <2>1. /\ front = <<>> /\ back \in Seq(Writes) /\ Len(back) = Len(writes) - 1
        /\ \A j \in 1 .. Len(writes) - 1 : back[j] = writes[j + 1]
        /\ Len(writes) \in Nat /\ DOMAIN writes = 1 .. Len(writes)
    <3>1. Len(writes) \in Nat /\ DOMAIN writes = 1 .. Len(writes) /\ Len(writes) >= 1
      BY <1>1, <1>2
    <3>2. front = <<>>
      BY <1>2
    <3>3. \A k \in 2 .. Len(writes) : writes[k] \in Writes
      BY <1>2, <3>1
    <3>4. /\ back \in Seq(Writes) /\ Len(back) = Len(writes) - 1
          /\ \A j \in 1 .. Len(writes) - 1 : back[j] = writes[j + 1]
      BY <1>2, <3>1, <3>3
    <3> QED BY <3>1, <3>2, <3>4
  <2>2. writes' = front \o back
    BY <1>1
  <2> HIDE DEF front, back
  <2>3. writes' = back
    BY <2>1, <2>2
  <2>4. DOMAIN writes' = 1 .. Len(writes) - 1 /\ Len(writes') = Len(writes) - 1
    BY <2>1, <2>3
  <2> QED BY <2>1, <2>3, <2>4
<1>4. PICK w : w = writes[1]
  OBVIOUS
<1>5. PICK t : t = w.id
  OBVIOUS
<1>6. w \in Writes /\ t \in Ids /\ Execute(w) /\ WellFormed(w) /\ HashesInv
  BY <1>1, <1>2, <1>4, <1>5, WriteKinds DEF WrittenInv, QueueInv
<1>7. Creates(w) => Documents(t) = {}
  BY <1>1, <1>4, <1>5 DEF WrittenInv, QueueInv, CreatedFirst
<1>8. ASSUME w.op = "updateById" PROVE Documents(t) = {1}
  <2>1. Documents(t) \subseteq {1}
    BY <1>1, <1>4, <1>5, <1>8 DEF WrittenInv, QueueInv, FirstHashFirst
  <2>2. request[t] = "accepted"
    BY <1>1, <1>4, <1>5, <1>6 DEF WrittenInv, Requested
  <2>3. ~\E i \in DOMAIN writes : writes[i].id = t /\ Creates(writes[i])
    <3> SUFFICES ASSUME NEW i \in DOMAIN writes, writes[i].id = t, Creates(writes[i]) PROVE FALSE
      OBVIOUS
    <3>1. i # 1 /\ i > 1
      BY <1>3, <1>4, <1>8 DEF Creates
    <3> QED BY <1>1, <1>4, <1>5, <3>1 DEF WrittenInv, QueueInv, CreatedFirst
  <2> QED BY <1>6, <2>1, <2>2, <2>3 DEF WrittenInv, Requested
<1>9. /\ \A n \in AttemptNumbers : HasHash(t, n, n) \/ GivesHash(w, t, n) => HasHash(t, n, n)'
      /\ \A n \in Documents(t)' :
           /\ n \in Documents(t) \/ (w.op = "save" /\ n = w.key)
           /\ "transactionHash" \in DOMAIN documents'[t][n] => documents'[t][n].transactionHash = n
      /\ \A n \in Documents(t) : n \in Documents(t)'
      /\ w.op = "save" => w.key \in Documents(t)'
      /\ SetsOutcome(w) /\ w.key \in AttemptNumbers /\ HasHash(t, w.key, w.key) =>
           w.key \in Documents(t)' /\ documents'[t][w.key].status \in Outcomes
      /\ \A n \in AttemptNumbers : HasHash(t, n, n)' => HasHash(t, n, n) \/ GivesHash(w, t, n)
      /\ \A n \in AttemptNumbers :
           HasHash(t, n, n) /\ ~GivesHash(w, t, n) /\ documents[t][n].status # "PENDING"
             => documents'[t][n].status # "PENDING"
  BY <1>2, <1>5, <1>6, <1>7, <1>8, ExecuteHash
<1>10. \A u \in Ids : u # t => documents'[u] = documents[u]
  BY <1>2, <1>5, <1>6, ExecuteEffect
<1>11. \A u \in Ids : u # t => Documents(u)' = Documents(u)
  BY <1>10 DEF Documents
<1>12. \A u \in Ids : \A n \in AttemptNumbers :
         HasHash(u, n, n) \/ GivesHash(w, u, n) => HasHash(u, n, n)'
  BY <1>5, <1>9, <1>10 DEF HasHash, GivesHash
<1>13. ASSUME NEW u \in Ids, NEW n \in AttemptNumbers, NEW b \in Int, Given(u, n, b)
       PROVE  Given(u, n, b - 1)'
  <2>1. CASE HasHash(u, n, n)
    BY <1>12, <2>1 DEF Given
  <2>2. CASE ~HasHash(u, n, n)
    <3>1. PICK i \in DOMAIN writes : i < b /\ GivesHash(writes[i], u, n)
      BY <1>13, <2>2 DEF Given
    <3>2. CASE i = 1
      BY <1>4, <1>12, <3>1, <3>2 DEF Given
    <3>3. CASE i # 1
      <4>1. i - 1 \in DOMAIN writes' /\ writes'[i - 1] = writes[i] /\ i - 1 < b - 1
        BY <1>3, <3>1, <3>3
      <4> QED BY <3>1, <4>1 DEF Given
    <3> QED BY <3>2, <3>3
  <2> QED BY <2>1, <2>2
<1>23. ASSUME NEW u \in Ids, NEW n \in AttemptNumbers, NEW b \in Int, b > 1, Given(u, n, b - 1)'
       PROVE  Given(u, n, b)
  <2>1. CASE HasHash(u, n, n)'
    <3>1. HasHash(u, n, n) \/ GivesHash(w, u, n)
      <4>1. CASE u = t
        BY <1>9, <2>1, <4>1
      <4>2. CASE u # t
        BY <1>10, <2>1, <4>2 DEF HasHash
      <4> QED BY <4>1, <4>2
    <3>2. CASE GivesHash(w, u, n)
      BY <1>1, <1>4, <1>23, <3>2 DEF Given
    <3> QED BY <3>1, <3>2 DEF Given
  <2>2. CASE ~HasHash(u, n, n)'
    <3>1. PICK i \in DOMAIN writes' : i < b - 1 /\ GivesHash(writes'[i], u, n)
      BY <1>23, <2>2 DEF Given, GivesHash
    <3>2. i + 1 \in DOMAIN writes /\ writes'[i] = writes[i + 1] /\ i + 1 < b
      BY <1>3, <3>1
    <3> QED BY <3>1, <3>2 DEF Given
  <2> QED BY <2>1, <2>2
<1>24. GivenOnce'
  <2> SUFFICES ASSUME NEW i \in DOMAIN writes', NEW n \in AttemptNumbers,
                      GivesHash(writes'[i], writes'[i].id, n), Given(writes[i].id, n, i)'
               PROVE  FALSE
    BY DEF GivenOnce, GivesHash
  <2>1. PICK u : u = writes'[i].id
    OBVIOUS
  <2>2. i + 1 \in DOMAIN writes /\ writes[i + 1] = writes'[i] /\ i + 1 \in Int /\ i + 1 > 1 /\ (i + 1) - 1 = i
    <3>1. i + 1 \in DOMAIN writes /\ writes[i + 1] = writes'[i] /\ i \in Nat
      BY <1>3
    <3>2. i \in DOMAIN writes' => i >= 1
      BY <1>2, <1>3
    <3> QED BY <3>1, <3>2
  <2>3. u \in Ids /\ Given(u, n, (i + 1) - 1)'
    <3>1. Given(u, n, i)'
      BY <2>1 DEF Given, HasHash
    <3> QED BY <1>2, <2>1, <2>2, <3>1, WriteKinds
  <2>4. Given(u, n, i + 1)
    BY <1>23, <2>2, <2>3
  <2> QED BY <2>1, <2>2, <2>4 DEF WrittenInv, QueueInv, GivenOnce
<1>25. HashAwaits'
  <2> SUFFICES ASSUME NEW h \in accepted, Given(h[1], h[2], Len(writes) + 1)' PROVE FALSE
    BY <1>1 DEF HashAwaits
  <2>1. h[1] \in Ids /\ h[2] \in AttemptNumbers /\ ~Given(h[1], h[2], Len(writes) + 1)
    BY ViewTypes, HashParts DEF RecordInv, WrittenInv, HashAwaits, IdOf, AttemptNumbers, Followed
  <2>2. PICK b : b = Len(writes) + 1
    OBVIOUS
  <2>3. b \in Int /\ b > 1 /\ Len(writes') + 1 = b - 1
    BY <1>1, <1>2, <1>3, <2>2
  <2>4. Given(h[1], h[2], b - 1)'
    BY <2>3 DEF Given
  <2> QED BY <1>23, <2>1, <2>2, <2>3, <2>4
<1>14. \A i \in DOMAIN writes' : WellFormed(writes[i])'
  <2> SUFFICES ASSUME NEW i \in DOMAIN writes' PROVE WellFormed(writes[i])'
    OBVIOUS
  <2>1. PICK v : v = writes'[i]
    OBVIOUS
  <2>2. WellFormed(v)
    BY <1>3, <2>1 DEF WrittenInv, QueueInv
  <2> QED BY <1>1, <2>1, <2>2 DEF WellFormed, Creates, Replaces
<1>15. HashesInv'
  <2> SUFFICES ASSUME NEW u \in Ids, NEW n \in Documents(u)'
               PROVE  /\ n = 1 \/ n <= attempts'[u]
                      /\ "transactionHash" \in DOMAIN documents'[u][n] =>
                           documents'[u][n].transactionHash = n /\ n <= attempts'[u]
    BY DEF HashesInv
  <2>1. CASE u # t
    BY <1>1, <1>6, <1>10, <1>11, <2>1 DEF HashesInv
  <2>2. CASE u = t
    <3>1. n \in Documents(t) => n = 1 \/ n <= attempts[t]
      BY <1>6 DEF HashesInv
    <3>2. w.op = "save" => w.key = 1 \/ w.key <= attempts[t]
      BY <1>5, <1>6 DEF WellFormed, Replaces
    <3>3. "transactionHash" \in DOMAIN documents'[t][n] => n <= attempts[t]
      <4> SUFFICES ASSUME "transactionHash" \in DOMAIN documents'[t][n] PROVE n <= attempts[t]
        OBVIOUS
      <4>1. n \in AttemptNumbers /\ HasHash(t, n, n)'
        BY <1>9, <2>2 DEF HasHash, Documents
      <4>2. HasHash(t, n, n) \/ GivesHash(w, t, n)
        BY <1>9, <4>1
      <4>3. Given(t, n, 2)
        BY <1>1, <1>4, <4>2 DEF Given
      <4> QED BY <1>2, <1>6, <4>1, <4>3, GivenExists DEF WrittenInv
    <3> QED BY <1>1, <1>9, <2>2, <3>1, <3>2, <3>3
  <2> QED BY <2>1, <2>2
<1>16. CreatedFirst'
  <2> SUFFICES ASSUME NEW i \in DOMAIN writes', Creates(writes'[i])
               PROVE  /\ Documents(writes[i].id)' = {}
                      /\ \A j \in DOMAIN writes' : j < i => writes'[j].id # writes'[i].id
    BY DEF CreatedFirst, Creates
  <2>1. PICK u : u = writes'[i].id
    OBVIOUS
  <2>2. /\ Documents(u) = {} /\ u # t /\ u \in Ids
        /\ \A j \in DOMAIN writes : j < i + 1 => writes[j].id # u
    <3>1. i + 1 \in DOMAIN writes /\ writes[i + 1] = writes'[i] /\ 1 < i + 1 /\ writes[i + 1] \in Writes
      BY <1>2, <1>3
    <3> QED BY <1>1, <1>4, <1>5, <2>1, <3>1, WriteKinds DEF WrittenInv, QueueInv, CreatedFirst
  <2>3. Documents(u)' = {}
    BY <1>11, <2>2
  <2>4. \A j \in DOMAIN writes' : j < i => writes'[j].id # u
    BY <1>3, <2>2
  <2> QED BY <2>1, <2>3, <2>4 DEF Documents
<1>17. FirstHashFirst'
  <2> SUFFICES ASSUME NEW i \in DOMAIN writes', writes'[i].op = "updateById"
               PROVE  /\ Documents(writes[i].id)' \subseteq {1}
                      /\ \A j \in DOMAIN writes' :
                           j < i /\ writes'[j].id = writes'[i].id => ~Replaces(writes'[j])
    BY DEF FirstHashFirst, Replaces
  <2>1. PICK u : u = writes'[i].id
    OBVIOUS
  <2>2. /\ Documents(u) \subseteq {1} /\ u \in Ids /\ (u = t => ~Replaces(w))
        /\ \A j \in DOMAIN writes : j < i + 1 /\ writes[j].id = u => ~Replaces(writes[j])
    <3>1. i + 1 \in DOMAIN writes /\ writes[i + 1] = writes'[i] /\ 1 < i + 1 /\ writes[i + 1] \in Writes
      BY <1>2, <1>3
    <3> QED BY <1>1, <1>4, <1>5, <2>1, <3>1, WriteKinds DEF WrittenInv, QueueInv, FirstHashFirst
  <2>3. Documents(u)' \subseteq {1}
    <3>1. CASE u = t
      BY <1>9, <2>2, <3>1 DEF Replaces
    <3>2. CASE u # t
      BY <1>11, <2>2, <3>2
    <3> QED BY <3>1, <3>2
  <2>4. \A j \in DOMAIN writes' : j < i /\ writes'[j].id = u => ~Replaces(writes'[j])
    BY <1>3, <2>2
  <2> QED BY <2>1, <2>3, <2>4 DEF Documents
<1>18. \A i \in DOMAIN writes : SetsOutcome(writes[i]) =>
         /\ writes[i].id \in Ids /\ writes[i].key \in AttemptNumbers
         /\ InLedger(<<writes[i].id, writes[i].key>>)
  <2> SUFFICES ASSUME NEW i \in DOMAIN writes, SetsOutcome(writes[i])
               PROVE  /\ writes[i].id \in Ids /\ writes[i].key \in AttemptNumbers
                      /\ InLedger(<<writes[i].id, writes[i].key>>)
    OBVIOUS
  <2>1. PICK v : v = writes[i]
    OBVIOUS
  <2>2. v \in Writes /\ Truthful(v)
    BY <1>2, <2>1 DEF RecordInv, RequestsInv
  <2>3. v.id \in Ids /\ InLedger(<<v.id, v.key>>)
    BY <2>1, <2>2, WriteKinds DEF Truthful, SetsOutcome
  <2>4. <<v.id, v.key>> \in Hashes
    <3>1. \A a \in Accounts : \A k \in DOMAIN ledger[a] : ledger[a][k] \in Hashes
      BY ViewTypes DEF RecordInv
    <3> QED BY <2>3, <3>1 DEF InLedger
  <2> QED BY <2>1, <2>3, <2>4 DEF Hashes, AttemptNumbers
<1>19. OutcomeGiven'
  <2> SUFFICES ASSUME NEW i \in DOMAIN writes', SetsOutcome(writes'[i])
               PROVE  Given(writes[i].id, writes[i].key, i)'
    BY DEF OutcomeGiven, SetsOutcome
  <2>1. PICK u, n : u = writes'[i].id /\ n = writes'[i].key
    OBVIOUS
  <2>2. i + 1 \in DOMAIN writes /\ writes[i + 1] = writes'[i] /\ i + 1 \in Int
    BY <1>3
  <2>3. u \in Ids /\ n \in AttemptNumbers /\ Given(u, n, i + 1)
    BY <1>18, <2>1, <2>2 DEF WrittenInv, QueueInv, OutcomeGiven
  <2>4. Given(u, n, (i + 1) - 1)'
    BY <1>13, <2>2, <2>3
  <2>5. (i + 1) - 1 = i
    BY <1>3
  <2> QED BY <2>1, <2>4, <2>5 DEF Given, HasHash
<1>20. Requested'
  <2> SUFFICES ASSUME NEW u \in Ids
               PROVE  /\ request'[u] # "accepted" =>
                           Documents(u)' = {} /\ \A i \in DOMAIN writes' : writes'[i].id # u
                      /\ request'[u] = "accepted" =>
                           \/ 1 \in Documents(u)'
                           \/ \E i \in DOMAIN writes' : writes'[i].id = u /\ Creates(writes'[i])
    BY DEF Requested, Creates
  <2>1. CASE request[u] # "accepted"
    <3>1. u # t /\ Documents(u) = {} /\ \A i \in DOMAIN writes : writes[i].id # u
      BY <1>1, <1>4, <1>5, <2>1 DEF WrittenInv, Requested
    <3> QED BY <1>1, <1>3, <1>11, <2>1, <3>1
  <2>2. CASE request[u] = "accepted" /\ 1 \in Documents(u)
    BY <1>1, <1>9, <1>11, <2>2
  <2>3. CASE request[u] = "accepted" /\ 1 \notin Documents(u)
    <3>1. PICK i \in DOMAIN writes : writes[i].id = u /\ Creates(writes[i])
      BY <2>3 DEF WrittenInv, Requested
    <3>2. CASE i = 1
      BY <1>1, <1>4, <1>5, <1>9, <2>3, <3>1, <3>2 DEF Creates
    <3>3. CASE i # 1
      <4>1. i - 1 \in DOMAIN writes' /\ writes'[i - 1] = writes[i]
        BY <1>3, <3>3
      <4> QED BY <1>1, <2>3, <3>1, <4>1
    <3> QED BY <3>2, <3>3
  <2> QED BY <2>1, <2>2, <2>3
<1>21. HashGiven'
  <2> SUFFICES ASSUME NEW h \in announced \cup waiters
               PROVE  Given(h[1], h[2], Len(writes) + 1)'
    BY <1>1 DEF HashGiven
  <2>1. h[1] \in Ids /\ h[2] \in AttemptNumbers /\ Given(h[1], h[2], Len(writes) + 1)
    BY ViewTypes, HashParts DEF RecordInv, WrittenInv, HashGiven, IdOf, AttemptNumbers, Followed
  <2>2. PICK b : b = Len(writes) + 1
    OBVIOUS
  <2>3. b \in Int /\ Given(h[1], h[2], b)
    BY <1>3, <2>1, <2>2
  <2>4. Given(h[1], h[2], b - 1)'
    BY <1>13, <2>1, <2>3
  <2>5. \A i \in DOMAIN writes' : i < Len(writes') + 1
    <3>1. \A i \in DOMAIN writes' : i + 1 \in 1 .. Len(writes)
      BY <1>2, <1>3
    <3> QED BY <1>3, <3>1
  <2> QED BY <2>4, <2>5 DEF Given
<1>22. OutcomeAwaits'
  <2> SUFFICES ASSUME NEW u \in Ids, Reported(u)
               PROVE  \/ OutcomeStored(u)'
                      \/ \E i \in DOMAIN writes' : writes'[i].id = u /\ SetsOutcome(writes'[i])
    BY <1>1 DEF OutcomeAwaits, Reported, SetsOutcome
  <2>1. CASE OutcomeStored(u)
    <3>1. PICK n \in Documents(u) :
            InLedger(<<u, n>>) /\ HasHash(u, n, n) /\ documents[u][n].status # "PENDING"
      BY <2>1 DEF OutcomeStored
    <3>2. n \in AttemptNumbers /\ InLedger(<<u, n>>)'
      BY <1>1, <3>1 DEF Documents, InLedger
    <3>3. CASE u # t
      <4>1. documents'[u] = documents[u]
        BY <1>10, <3>3
      <4> QED BY <3>1, <3>2, <4>1 DEF OutcomeStored, Documents, HasHash
    <3>4. CASE u = t
      <4>1. ~GivesHash(w, t, n)
        <5>1. Given(t, n, 1)
          BY <3>1, <3>4 DEF Given
        <5> QED BY <1>1, <1>4, <1>5, <3>2, <5>1 DEF WrittenInv, QueueInv, GivenOnce
      <4>2. n \in Documents(t)' /\ HasHash(t, n, n)' /\ documents'[t][n].status # "PENDING"
        BY <1>9, <3>1, <3>2, <3>4, <4>1
      <4> QED BY <3>2, <3>4, <4>2 DEF OutcomeStored, HasHash
    <3> QED BY <3>3, <3>4
  <2>2. CASE ~OutcomeStored(u)
    <3>1. PICK i \in DOMAIN writes : writes[i].id = u /\ SetsOutcome(writes[i])
      BY <2>2 DEF WrittenInv, OutcomeAwaits
    <3>2. CASE i = 1
      <4>1. u = t /\ SetsOutcome(w) /\ w.key \in AttemptNumbers /\ InLedger(<<t, w.key>>)
        BY <1>4, <1>5, <1>18, <3>1, <3>2
      <4>2. Given(t, w.key, 1)
        BY <1>1, <1>4, <1>5, <4>1 DEF WrittenInv, QueueInv, OutcomeGiven
      <4>3. HasHash(t, w.key, w.key)
        BY <1>3, <4>2 DEF Given
      <4>4. PICK n : n = w.key
        OBVIOUS
      <4>5. n \in Documents(t)' /\ documents'[t][n].status \in Outcomes /\ HasHash(t, n, n)'
        BY <1>9, <4>1, <4>3, <4>4
      <4>6. InLedger(<<t, n>>)' /\ documents'[t][n].status # "PENDING"
        BY <1>1, <4>1, <4>4, <4>5 DEF InLedger, Outcomes
      <4> QED BY <4>1, <4>5, <4>6 DEF OutcomeStored, HasHash
    <3>3. CASE i # 1
      <4>1. i - 1 \in DOMAIN writes' /\ writes'[i - 1] = writes[i]
        BY <1>3, <3>3
      <4> QED BY <3>1, <4>1
    <3> QED BY <3>2, <3>3
  <2> QED BY <2>1, <2>2
<1> QED BY <1>14, <1>15, <1>16, <1>17, <1>19, <1>20, <1>21, <1>22, <1>24, <1>25 DEF WrittenInv, QueueInv

(* What a write of t may be, as the writes and the documents are.           *)
Issuable(w, t) ==
  /\ w.id = t /\ WellFormed(w)
  /\ Creates(w) => Documents(t) = {} /\ \A j \in DOMAIN writes : writes[j].id # t
  /\ w.op = "updateById" =>
       /\ Documents(t) \subseteq {1}
       /\ \A j \in DOMAIN writes : writes[j].id = t => ~Replaces(writes[j])
  /\ SetsOutcome(w) => Given(t, w.key, Len(writes) + 1)
  /\ \A n \in AttemptNumbers : GivesHash(w, t, n) => ~Given(t, n, Len(writes) + 1)

\* More writes of one id, in the order notify issues them.
LEMMA IssueQueue ==
  ASSUME RecordInv, QueueInv, Lasting, UNCHANGED documents, NEW ws \in Seq(Writes),
         writes' = writes \o ws, NEW t,
         \A i \in DOMAIN ws : /\ Issuable(ws[i], t)
                              /\ Creates(ws[i]) \/ ws[i].op = "updateById" => i = 1,
         \A i, j \in DOMAIN ws : \A n \in AttemptNumbers :
           GivesHash(ws[i], t, n) /\ GivesHash(ws[j], t, n) => i = j
  PROVE  /\ QueueInv'
         /\ \A u, n : Given(u, n, Len(writes) + 1) => Given(u, n, Len(writes) + 1)'
         /\ \A u, n : Given(u, n, Len(writes) + 1)' =>
              Given(u, n, Len(writes) + 1) \/ \E i \in DOMAIN ws : GivesHash(ws[i], u, n)
<1>1. writes \in Seq(Writes) /\ Len(writes) \in Nat /\ Len(ws) \in Nat
  BY DEF RecordInv, RequestsInv
<1>2. \A i \in DOMAIN writes :
        i \in DOMAIN writes' /\ writes'[i] = writes[i] /\ i \in Nat /\ i <= Len(writes)
  BY <1>1
<1>3. \A i \in DOMAIN writes' :
        /\ i \in Nat /\ i <= Len(writes')
        /\ \/ i \in DOMAIN writes /\ writes'[i] = writes[i]
           \/ /\ i > Len(writes) /\ i - Len(writes) \in DOMAIN ws
              /\ writes'[i] = ws[i - Len(writes)]
  BY <1>1
<1>4. Len(writes') >= Len(writes)
  BY <1>1
<1>5. ASSUME NEW u, NEW n, NEW b \in Int, NEW c \in Int, b <= c, Given(u, n, b)
      PROVE  Given(u, n, c)'
  <2>1. CASE HasHash(u, n, n)
    BY <2>1 DEF Given, HasHash
  <2>2. CASE ~HasHash(u, n, n)
    <3>1. PICK i \in DOMAIN writes : i < b /\ GivesHash(writes[i], u, n)
      BY <1>5, <2>2 DEF Given
    <3>2. i \in DOMAIN writes' /\ i < c /\ GivesHash(writes'[i], u, n)
      BY <1>2, <1>5, <3>1
    <3> QED BY <3>2 DEF Given
  <2> QED BY <2>1, <2>2
<1>6. ASSUME NEW u, NEW n, Given(u, n, Len(writes) + 1) PROVE Given(u, n, Len(writes) + 1)'
  <2>1. PICK b, c : b = Len(writes) + 1 /\ c = Len(writes') + 1
    OBVIOUS
  <2>2. b \in Int /\ c \in Int /\ b <= c /\ Given(u, n, b)
    BY <1>1, <1>4, <1>6, <2>1
  <2>3. Given(u, n, c)'
    BY <1>5, <2>2
  <2>4. \A i \in DOMAIN writes' : i < Len(writes') + 1
    BY <1>3, <1>1
  <2> QED BY <2>3, <2>4 DEF Given
<1>7. ASSUME NEW v \in Writes, WellFormed(v) PROVE WellFormed(v)'
  <2>1. v.id \in Ids /\ (v.op = "save" => v.key \in Int)
    BY WriteKinds, LifecycleAssumption DEF AttemptNumbers
  <2>2. attempts[v.id] \in Nat /\ attempts'[v.id] \in Nat /\ attempts[v.id] <= attempts'[v.id]
    BY <2>1 DEF Lasting
  <2> QED BY <1>7, <2>1, <2>2 DEF WellFormed, Creates, Replaces
<1>8. ASSUME NEW i \in DOMAIN writes' PROVE WellFormed(writes[i])'
  <2>1. PICK v : v = writes'[i]
    OBVIOUS
  <2>2. v \in Writes /\ WellFormed(v)
    BY <1>1, <1>3, <2>1 DEF QueueInv, Issuable
  <2>3. WellFormed(v)'
    BY <1>7, <2>2
  <2> QED BY <2>1, <2>3 DEF WellFormed, Creates, Replaces
<1>9. HashesInv'
  <2>1. \A u \in Ids : \A n \in AttemptNumbers : n <= attempts[u] => n <= attempts'[u]
    BY LifecycleAssumption DEF Lasting, AttemptNumbers
  <2> QED BY <2>1 DEF QueueInv, HashesInv, Documents
<1>10. CreatedFirst'
  <2> SUFFICES ASSUME NEW i \in DOMAIN writes', Creates(writes'[i])
               PROVE  /\ Documents(writes'[i].id) = {}
                      /\ \A j \in DOMAIN writes' : j < i => writes'[j].id # writes'[i].id
    BY DEF CreatedFirst, Creates, Documents
  <2>1. CASE i \in DOMAIN writes /\ writes'[i] = writes[i]
    <3>1. \A j \in DOMAIN writes' : j < i => j \in DOMAIN writes /\ writes'[j] = writes[j]
      BY <1>2, <1>3, <2>1
    <3>2. Documents(writes[i].id) = {} /\ \A j \in DOMAIN writes : j < i => writes[j].id # writes[i].id
      BY <2>1 DEF QueueInv, CreatedFirst
    <3> QED BY <2>1, <3>1, <3>2
  <2>2. CASE i > Len(writes) /\ i - Len(writes) \in DOMAIN ws /\ writes'[i] = ws[i - Len(writes)]
    <3>1. i - Len(writes) = 1 /\ Issuable(writes'[i], t)
      BY <2>2
    <3>2. \A j \in DOMAIN writes' : j < i => j \in DOMAIN writes /\ writes'[j] = writes[j]
      BY <1>1, <1>3, <3>1
    <3> QED BY <3>1, <3>2 DEF Issuable
  <2> QED BY <1>3, <2>1, <2>2
<1>11. FirstHashFirst'
  <2> SUFFICES ASSUME NEW i \in DOMAIN writes', writes'[i].op = "updateById"
               PROVE  /\ Documents(writes'[i].id) \subseteq {1}
                      /\ \A j \in DOMAIN writes' :
                           j < i /\ writes'[j].id = writes'[i].id => ~Replaces(writes'[j])
    BY DEF FirstHashFirst, Replaces, Documents
  <2>1. CASE i \in DOMAIN writes /\ writes'[i] = writes[i]
    <3>1. \A j \in DOMAIN writes' : j < i => j \in DOMAIN writes /\ writes'[j] = writes[j]
      BY <1>2, <1>3, <2>1
    <3>2. /\ Documents(writes[i].id) \subseteq {1}
          /\ \A j \in DOMAIN writes : j < i /\ writes[j].id = writes[i].id => ~Replaces(writes[j])
      BY <2>1 DEF QueueInv, FirstHashFirst
    <3> QED BY <2>1, <3>1, <3>2
  <2>2. CASE i > Len(writes) /\ i - Len(writes) \in DOMAIN ws /\ writes'[i] = ws[i - Len(writes)]
    <3>1. i - Len(writes) = 1 /\ Issuable(writes'[i], t)
      BY <2>2
    <3>2. \A j \in DOMAIN writes' : j < i => j \in DOMAIN writes /\ writes'[j] = writes[j]
      BY <1>1, <1>3, <3>1
    <3> QED BY <3>1, <3>2 DEF Issuable
  <2> QED BY <1>3, <2>1, <2>2
<1>12. OutcomeGiven'
  <2> SUFFICES ASSUME NEW i \in DOMAIN writes', SetsOutcome(writes'[i])
               PROVE  Given(writes[i].id, writes[i].key, i)'
    BY DEF OutcomeGiven, SetsOutcome
  <2>1. PICK u, n : u = writes'[i].id /\ n = writes'[i].key
    OBVIOUS
  <2>2. \E b \in Int : b <= i /\ Given(u, n, b)
    <3>1. CASE i \in DOMAIN writes /\ writes'[i] = writes[i]
      BY <1>2, <2>1, <3>1 DEF QueueInv, OutcomeGiven
    <3>2. CASE i > Len(writes) /\ i - Len(writes) \in DOMAIN ws /\ writes'[i] = ws[i - Len(writes)]
      <4>1. Given(u, n, Len(writes) + 1) /\ Len(writes) + 1 <= i
        BY <1>1, <1>3, <2>1, <3>2 DEF Issuable
      <4> QED BY <1>1, <4>1
    <3> QED BY <1>3, <3>1, <3>2
  <2>3. Given(u, n, i)'
    BY <1>3, <1>5, <2>2
  <2> QED BY <2>1, <2>3 DEF Given, HasHash
<1>13. ASSUME NEW u, NEW n, Given(u, n, Len(writes) + 1)'
       PROVE  Given(u, n, Len(writes) + 1) \/ \E i \in DOMAIN ws : GivesHash(ws[i], u, n)
  <2>1. HasHash(u, n, n)' => HasHash(u, n, n)
    BY DEF HasHash
  <2>2. ASSUME NEW i \in DOMAIN writes', GivesHash(writes'[i], u, n)
        PROVE  \/ \E j \in DOMAIN writes : j < Len(writes) + 1 /\ GivesHash(writes[j], u, n)
               \/ \E j \in DOMAIN ws : GivesHash(ws[j], u, n)
    <3>1. CASE i \in DOMAIN writes /\ writes'[i] = writes[i]
      BY <1>1, <1>2, <2>2, <3>1
    <3>2. CASE i - Len(writes) \in DOMAIN ws /\ writes'[i] = ws[i - Len(writes)]
      BY <2>2, <3>2
    <3> QED BY <1>3, <3>1, <3>2
  <2> QED BY <1>13, <2>1, <2>2 DEF Given, GivesHash
<1>14. GivenOnce'
  <2> SUFFICES ASSUME NEW i \in DOMAIN writes', NEW n \in AttemptNumbers,
                      GivesHash(writes'[i], writes'[i].id, n), Given(writes[i].id, n, i)'
               PROVE  FALSE
    BY DEF GivenOnce, GivesHash
  <2>1. PICK u : u = writes'[i].id
    OBVIOUS
  <2>2. HasHash(u, n, n) \/ \E j \in DOMAIN writes' : j < i /\ GivesHash(writes'[j], u, n)
    BY <2>1 DEF Given, HasHash, GivesHash
  <2>3. CASE i \in DOMAIN writes /\ writes'[i] = writes[i]
    <3>1. ~Given(u, n, i)
      BY <2>1, <2>3 DEF QueueInv, GivenOnce
    <3>2. \A j \in DOMAIN writes' : j < i => j \in DOMAIN writes /\ writes'[j] = writes[j]
      BY <1>2, <1>3, <2>3
    <3> QED BY <2>2, <3>1, <3>2 DEF Given
  <2>4. CASE i > Len(writes) /\ i - Len(writes) \in DOMAIN ws /\ writes'[i] = ws[i - Len(writes)]
    <3>1. u = t /\ ~Given(t, n, Len(writes) + 1) /\ GivesHash(ws[i - Len(writes)], t, n)
      BY <2>1, <2>4 DEF Issuable
    <3>2. ~HasHash(t, n, n) /\ \A j \in DOMAIN writes : ~GivesHash(writes[j], t, n)
      BY <1>1, <1>2, <3>1 DEF Given
    <3>3. PICK j \in DOMAIN writes' : j < i /\ GivesHash(writes'[j], t, n)
      BY <2>2, <3>1, <3>2
    <3>4. j - Len(writes) \in DOMAIN ws /\ writes'[j] = ws[j - Len(writes)]
      BY <1>3, <3>2, <3>3
    <3>5. j - Len(writes) = i - Len(writes)
      BY <2>4, <3>1, <3>3, <3>4
    <3> QED BY <1>1, <1>3, <3>3, <3>5
  <2> QED BY <1>3, <2>3, <2>4
<1> QED BY <1>6, <1>8, <1>9, <1>10, <1>11, <1>12, <1>13, <1>14 DEF QueueInv

\* A receipt alone reports a transaction.
LEMMA ReportedStays ==
  ASSUME ViewInv,
         UNCHANGED events \/ \E u \in Ids : \E e \in {"generated", "changed", "error"} :
           events' = [events EXCEPT ![u] = Append(@, e)]
  PROVE  \A t \in Ids : Reported(t)' => Reported(t)
<1>1. CASE UNCHANGED events
  BY <1>1 DEF Reported
<1>2. ASSUME NEW u \in Ids, NEW e \in {"generated", "changed", "error"},
             events' = [events EXCEPT ![u] = Append(@, e)]
      PROVE  \A t \in Ids : Reported(t)' => Reported(t)
  <2>1. \A t \in Ids : t # u => events'[t] = events[t]
    BY <1>2, ViewTypes
  <2>2. events[u] \in Seq(EventTypes) /\ events'[u] = Append(events[u], e)
    BY <1>2, ViewTypes
  <2>3. \A i \in DOMAIN events'[u] : events'[u][i] = e \/ (i \in DOMAIN events[u] /\ events'[u][i] = events[u][i])
    BY <2>2
  <2> QED BY <2>1, <2>3 DEF Reported
<1> QED BY <1>1, <1>2

\* Writes are issued, or none, while the hashes of the waiters and the outcomes of the
\* reported transactions are accounted for.
LEMMA IssueWritten ==
  ASSUME RecordInv, WrittenInv, [RecordNext]_allVars, UNCHANGED documents,
         NEW ws \in Seq(Writes), writes' = writes \o ws, NEW t,
         \A i \in DOMAIN ws : /\ Issuable(ws[i], t)
                              /\ Creates(ws[i]) \/ ws[i].op = "updateById" => i = 1,
         \A i, j \in DOMAIN ws : \A n \in AttemptNumbers :
           GivesHash(ws[i], t, n) /\ GivesHash(ws[j], t, n) => i = j,
         \A h \in announced' \cup waiters' :
           \/ h \in announced \cup waiters
           \/ \E i \in DOMAIN ws : GivesHash(ws[i], h[1], h[2]),
         \A h \in accepted' :
           /\ ~Given(h[1], h[2], Len(writes) + 1)
           /\ \A i \in DOMAIN ws : ~GivesHash(ws[i], h[1], h[2]),
         \A u \in Ids :
           /\ request[u] = "accepted" => request'[u] = "accepted"
           /\ request'[u] = "accepted" =>
                request[u] = "accepted" \/ (u = t /\ \E i \in DOMAIN ws : Creates(ws[i]))
           /\ Reported(u)' =>
                Reported(u) \/ (u = t /\ \E i \in DOMAIN ws : SetsOutcome(ws[i])),
         ws # <<>> => request'[t] = "accepted"
  PROVE  WrittenInv'
<1>1. Lasting /\ [Next]_vars /\ ViewInv
  BY RecordStep, TruthStays DEF RecordInv
<1>2. /\ QueueInv'
      /\ \A u, n : Given(u, n, Len(writes) + 1) => Given(u, n, Len(writes) + 1)'
      /\ \A u, n : Given(u, n, Len(writes) + 1)' =>
           Given(u, n, Len(writes) + 1) \/ \E i \in DOMAIN ws : GivesHash(ws[i], u, n)
  BY <1>1, IssueQueue DEF WrittenInv
<1>9. HashAwaits'
  BY <1>2 DEF HashAwaits
<1>3. writes \in Seq(Writes) /\ Len(writes) \in Nat
  BY DEF RecordInv, RequestsInv
<1>4. /\ \A i \in DOMAIN writes : i \in DOMAIN writes' /\ writes'[i] = writes[i]
      /\ \A i \in DOMAIN ws : i + Len(writes) \in DOMAIN writes' /\ writes'[i + Len(writes)] = ws[i]
      /\ \A i \in DOMAIN writes' : i < Len(writes') + 1 /\
           ((i \in DOMAIN writes /\ writes'[i] = writes[i]) \/ \E j \in DOMAIN ws : writes'[i] = ws[j])
  <2>1. \A i \in DOMAIN writes : i \in DOMAIN writes' /\ writes'[i] = writes[i]
    BY <1>3
  <2>2. \A i \in DOMAIN ws : i + Len(writes) \in DOMAIN writes' /\ writes'[i + Len(writes)] = ws[i]
    BY <1>3
  <2>3. \A i \in DOMAIN writes' : i < Len(writes') + 1
    BY <1>3
  <2>4. ASSUME NEW i \in DOMAIN writes'
        PROVE  (i \in DOMAIN writes /\ writes'[i] = writes[i]) \/ \E j \in DOMAIN ws : writes'[i] = ws[j]
    <3>1. (i \in DOMAIN writes /\ writes'[i] = writes[i])
            \/ (i - Len(writes) \in DOMAIN ws /\ writes'[i] = ws[i - Len(writes)])
      BY <1>3
    <3> QED BY <3>1
  <2> QED BY <2>1, <2>2, <2>3, <2>4
<1>6. Requested'
  <2> SUFFICES ASSUME NEW u \in Ids
               PROVE  /\ request'[u] # "accepted" =>
                           Documents(u) = {} /\ \A i \in DOMAIN writes' : writes'[i].id # u
                      /\ request'[u] = "accepted" =>
                           \/ 1 \in Documents(u)
                           \/ \E i \in DOMAIN writes' : writes'[i].id = u /\ Creates(writes'[i])
    BY DEF Requested, Creates, Documents
  <2>1. ASSUME request'[u] # "accepted"
        PROVE  Documents(u) = {} /\ \A i \in DOMAIN writes' : writes'[i].id # u
    <3>1. request[u] # "accepted" /\ (u = t => ws = <<>>)
      BY <2>1
    <3>2. \A j \in DOMAIN ws : ws[j].id # u
      BY <3>1 DEF Issuable
    <3> QED BY <1>4, <3>1, <3>2 DEF WrittenInv, Requested
  <2>2. ASSUME request'[u] = "accepted"
        PROVE  \/ 1 \in Documents(u)
               \/ \E i \in DOMAIN writes' : writes'[i].id = u /\ Creates(writes'[i])
    <3>1. CASE request[u] = "accepted"
      BY <1>4, <3>1 DEF WrittenInv, Requested
    <3>2. CASE u = t /\ \E i \in DOMAIN ws : Creates(ws[i])
      <4>1. PICK i \in DOMAIN ws : Creates(ws[i]) /\ Issuable(ws[i], t)
        BY <3>2
      <4>2. PICK j \in DOMAIN writes' : writes'[j] = ws[i]
        BY <1>4
      <4>3. writes'[j].id = u /\ Creates(writes'[j])
        BY <3>2, <4>1, <4>2 DEF Issuable
      <4> QED BY <4>3
    <3> QED BY <2>2, <3>1, <3>2
  <2> QED BY <2>1, <2>2
<1>7. HashGiven'
  <2> SUFFICES ASSUME NEW h \in announced' \cup waiters' PROVE Given(h[1], h[2], Len(writes) + 1)'
    BY DEF HashGiven
  <2>1. CASE h \in announced \cup waiters
    BY <1>2, <2>1 DEF WrittenInv, HashGiven
  <2>2. CASE \E i \in DOMAIN ws : GivesHash(ws[i], h[1], h[2])
    <3>1. PICK i \in DOMAIN ws : GivesHash(ws[i], h[1], h[2])
      BY <2>2
    <3>2. PICK j \in DOMAIN writes' : writes'[j] = ws[i] /\ j < Len(writes') + 1
      BY <1>4
    <3>3. GivesHash(writes'[j], h[1], h[2])
      BY <3>1, <3>2
    <3> QED BY <3>2, <3>3 DEF Given, GivesHash
  <2> QED BY <2>1, <2>2
<1>8. OutcomeAwaits'
  <2> SUFFICES ASSUME NEW u \in Ids, Reported(u)'
               PROVE  \/ OutcomeStored(u)'
                      \/ \E i \in DOMAIN writes' : writes'[i].id = u /\ SetsOutcome(writes'[i])
    BY DEF OutcomeAwaits, SetsOutcome
  <2>1. CASE Reported(u)
    <3>3. CASE OutcomeStored(u)
      <4>1. PICK n \in Documents(u) :
              InLedger(<<u, n>>) /\ HasHash(u, n, n) /\ documents[u][n].status # "PENDING"
        BY <3>3 DEF OutcomeStored
      <4>2. InLedger(<<u, n>>)'
        BY <1>1, <4>1 DEF Lasting
      <4> QED BY <4>1, <4>2 DEF OutcomeStored, Documents, HasHash
    <3>4. CASE \E i \in DOMAIN writes : writes[i].id = u /\ SetsOutcome(writes[i])
      BY <1>4, <3>4
    <3> QED BY <2>1, <3>3, <3>4 DEF WrittenInv, OutcomeAwaits
  <2>2. CASE u = t /\ \E i \in DOMAIN ws : SetsOutcome(ws[i])
    <3>1. PICK i \in DOMAIN ws : SetsOutcome(ws[i]) /\ Issuable(ws[i], t)
      BY <2>2
    <3>2. PICK j \in DOMAIN writes' : writes'[j] = ws[i]
      BY <1>4
    <3>3. writes'[j].id = u /\ SetsOutcome(writes'[j])
      BY <2>2, <3>1, <3>2 DEF Issuable
    <3> QED BY <3>3
  <2> QED BY <2>1, <2>2
<1> QED BY <1>2, <1>6, <1>7, <1>8, <1>9 DEF WrittenInv

(* What may be written when the hash n of t is to be notified.              *)
OfNotice(ws, t, n) ==
  /\ \A i \in DOMAIN ws : /\ Issuable(ws[i], t)
                          /\ ~Creates(ws[i]) /\ ~SetsOutcome(ws[i])
                          /\ ws[i].op = "updateById" => i = 1
  /\ \E i \in DOMAIN ws : GivesHash(ws[i], t, n)
  /\ \A i \in DOMAIN ws : \A u, m : GivesHash(ws[i], u, m) => u = t /\ m = n
  /\ \A i, j \in DOMAIN ws : \A m : GivesHash(ws[i], t, m) /\ GivesHash(ws[j], t, m) => i = j

\* What notify writes of a hash keeps the order of the writes of its id.
LEMMA NoticeIssuable ==
  ASSUME RecordInv, WrittenInv, NEW h \in accepted, NEW ws, ws = NoticeWrites(h)
  PROVE  OfNotice(ws, h[1], h[2])
<1> USE DEF OfNotice
<1>1. PICK t, n : t = h[1] /\ n = h[2]
  OBVIOUS
<1>2. /\ t \in Ids /\ n \in AttemptNumbers /\ n = attempts[t] /\ writes \in Seq(Writes)
      /\ ~Given(t, n, Len(writes) + 1)
  <2>1. h \in Hashes /\ h = <<IdOf(h), attempts[IdOf(h)]>> /\ IdOf(h) = t /\ IdOf(h) \in Ids
    BY <1>1, FollowedHash DEF RecordInv, Followed, IdOf
  <2>2. n \in AttemptNumbers /\ n = attempts[t]
    BY <1>1, <2>1, HashParts DEF AttemptNumbers
  <2> QED BY <1>1, <2>1, <2>2 DEF RecordInv, RequestsInv, WrittenInv, HashAwaits
<1>3. CASE First(h)
  <2>1. PICK w : w = UpdateById(t, [transactionHash |-> 1, status |-> "PENDING"])
    OBVIOUS
  <2>2. n = 1 /\ ws = <<w>>
    BY <1>1, <1>3, <2>1 DEF NoticeWrites, First
  <2>a. w.id = t /\ w.op = "updateById" /\ w.fields.transactionHash = 1 /\ 1 <= attempts[t]
    BY <1>2, <2>1, <2>2 DEF UpdateById
  <2>3. ~SetsOutcome(w) /\ ~Creates(w) /\ WellFormed(w)
    BY <2>a DEF SetsOutcome, Creates, Replaces, WellFormed
  <2>b. \A u, m : GivesHash(w, u, m) <=> u = t /\ m = n
    BY <2>2, <2>a DEF GivesHash
  <2>4. Documents(t) \subseteq {1}
    <3>1. \A m \in Documents(t) : m \in AttemptNumbers
      BY DEF Documents
    <3>2. \A m \in Documents(t) : m = 1 \/ m <= attempts[t]
      BY <1>2 DEF WrittenInv, QueueInv, HashesInv
    <3>3. \A m \in AttemptNumbers : m <= 1 => m = 1
      BY LifecycleAssumption DEF AttemptNumbers
    <3> QED BY <1>2, <2>2, <3>1, <3>2, <3>3
  <2>5. ASSUME NEW j \in DOMAIN writes, writes[j].id = t PROVE ~Replaces(writes[j])
    <3>1. writes[j] \in Writes /\ WellFormed(writes[j])
      BY <1>2 DEF WrittenInv, QueueInv
    <3>2. \A m \in AttemptNumbers : m <= 1 => m = 1
      BY LifecycleAssumption DEF AttemptNumbers
    <3> QED BY <1>2, <2>2, <2>5, <3>1, <3>2, WriteKinds DEF WellFormed, Replaces
  <2>6. Issuable(w, t)
    BY <1>2, <2>3, <2>4, <2>5, <2>a, <2>b DEF Issuable
  <2> QED BY <1>1, <2>2, <2>3, <2>6, <2>b
<1>4. CASE ~First(h)
  <2>1. PICK u, v : /\ u = UpdateByHash(t, n - 1, [status |-> "DROPPED"])
                    /\ v = Save(t, n, [transactionHash |-> n, previousTransactionHash |-> n - 1,
                                       status |-> "PENDING", transactionType |-> method[t]])
    OBVIOUS
  <2>2. n # 1 /\ ws = <<u, v>>
    BY <1>1, <1>4, <2>1 DEF NoticeWrites, First
  <2>3. u.id = t /\ u.op = "updateByHash" /\ u.fields.status = "DROPPED"
    BY <2>1 DEF UpdateByHash
  <2>a. \A k, m : ~GivesHash(u, k, m)
    BY <2>3 DEF GivesHash
  <2>4. Issuable(u, t) /\ ~SetsOutcome(u) /\ ~Creates(u)
    BY <2>3, <2>a DEF Issuable, WellFormed, Creates, Replaces, SetsOutcome, Outcomes
  <2>5. /\ v.id = t /\ v.op = "save" /\ v.key = n
        /\ "transactionHash" \in DOMAIN v.fields /\ v.fields.transactionHash = n
    BY <2>1 DEF Save
  <2>7. \A k, m : GivesHash(v, k, m) <=> k = t /\ m = n
    BY <2>2, <2>5 DEF GivesHash
  <2>6. Issuable(v, t) /\ ~SetsOutcome(v) /\ ~Creates(v)
    <3>1. WellFormed(v) /\ ~SetsOutcome(v) /\ ~Creates(v)
      BY <1>2, <2>2, <2>5 DEF WellFormed, Creates, Replaces, SetsOutcome, AttemptNumbers
    <3> QED BY <1>2, <2>5, <2>7, <3>1 DEF Issuable
  <2> QED BY <1>1, <2>2, <2>3, <2>4, <2>5, <2>6, <2>7, <2>a
<1> QED BY <1>3, <1>4

\* Nothing is written, and nothing more is asked of what is.
LEMMA QuietWritten ==
  ASSUME RecordInv, WrittenInv, [RecordNext]_allVars, UNCHANGED <<request, writes, documents>>,
         announced' \cup waiters' \subseteq announced \cup waiters,
         \A h \in accepted' : h \in accepted \/ ~Given(h[1], h[2], Len(writes) + 1),
         \A u \in Ids : Reported(u)' => Reported(u)
  PROVE  WrittenInv'
<1>1. PICK ws : ws = <<>>
  OBVIOUS
<1>4. \A h \in accepted' : ~Given(h[1], h[2], Len(writes) + 1)
  BY DEF WrittenInv, HashAwaits
<1>2. ws \in Seq(Writes) /\ writes' = writes \o ws /\ DOMAIN ws = {}
  BY <1>1 DEF RecordInv, RequestsInv
<1>3. PICK t : t = 0
  OBVIOUS
<1> QED BY <1>1, <1>2, <1>4, IssueWritten

LEMMA WrittenStep ==
  ASSUME RecordInv, FinalInv, WrittenInv, [RecordNext]_allVars, order = "issued",
         restarts \in Nat, restarts' = 0
  PROVE  WrittenInv'
<1> USE DEF handlerVars, chainVars, retryVars, listenerVars
<1>1. ViewInv /\ writes \in Seq(Writes) /\ request \in [Ids -> Requests] /\ ~Restart
  BY DEF RecordInv, RequestsInv, Restart
<1>2. CASE ExecuteWrite
  BY <1>2, ExecuteWritten
<1>3. ASSUME NEW t \in Ids, Relay(t) PROVE WrittenInv'
  <2>1. PICK w : w = SaveRequest(t)
    OBVIOUS
  <2>2. w \in Writes /\ w.id = t /\ Creates(w) /\ w.op = "save" /\ "transactionHash" \notin DOMAIN w.fields
    BY <2>1, RequestTruthful DEF Truthful, SaveRequest, Save, Creates
  <2>3. PICK ws : ws = <<w>>
    OBVIOUS
  <2>4. ws \in Seq(Writes) /\ DOMAIN ws = {1} /\ ws[1] = w
    BY <2>2, <2>3
  <2>5. /\ writes' = writes \o ws /\ UNCHANGED <<documents, accepted, announced, waiters, events>>
        /\ request[t] = "new" /\ request' = [request EXCEPT ![t] = "accepted"]
    BY <1>1, <1>3, <2>1, <2>3 DEF Relay, vars
  <2>a. \A u, n : ~GivesHash(w, u, n)
    BY <2>2 DEF GivesHash, Creates
  <2>6. Issuable(w, t)
    BY <2>2, <2>5, <2>a DEF Issuable, WellFormed, Creates, Replaces, SetsOutcome, WrittenInv, Requested
  <2>7. \A u \in Ids : Reported(u)' => Reported(u)
    BY <2>5 DEF Reported
  <2>8. /\ \A u \in Ids : request[u] = "accepted" => request'[u] = "accepted"
        /\ \A u \in Ids : request'[u] = "accepted" => request[u] = "accepted" \/ u = t
        /\ request'[t] = "accepted"
    BY <1>1, <2>5
  <2>9. UNCHANGED documents /\ writes' = writes \o ws
    BY <2>5
  <2>10. \A h \in accepted' : /\ ~Given(h[1], h[2], Len(writes) + 1)
                              /\ \A i \in DOMAIN ws : ~GivesHash(ws[i], h[1], h[2])
    BY <2>4, <2>5, <2>a DEF WrittenInv, HashAwaits
  <2>11. \A h \in announced' \cup waiters' : h \in announced \cup waiters
    BY <2>5
  <2>12. \A i, j \in DOMAIN ws : i = j
    BY <2>4
  <2> QED BY <2>2, <2>4, <2>6, <2>7, <2>8, <2>9, <2>10, <2>11, <2>12, IssueWritten
<1>4. ASSUME NEW t \in Ids, RefuseSCW(t) PROVE WrittenInv'
  <2>1. /\ UNCHANGED <<writes, documents, accepted, announced, waiters, events, attempts, ledger>>
        /\ request[t] # "accepted" /\ request' = [request EXCEPT ![t] = "refused"]
    BY <1>4 DEF RefuseSCW, vars
  <2>2. \A u \in Ids : request'[u] = "accepted" <=> request[u] = "accepted"
    BY <1>1, <2>1
  <2>3. QueueInv'
    <3>1. QueueInv
      BY DEF WrittenInv
    <3> QED BY <2>1, <3>1 DEF QueueInv, HashesInv, CreatedFirst, FirstHashFirst, OutcomeGiven, GivenOnce,
              WellFormed, Creates, Replaces, SetsOutcome, Given, GivesHash, HasHash, Documents
  <2>4. Requested'
    BY <2>1, <2>2 DEF WrittenInv, Requested, Creates, Documents
  <2>5. HashGiven' /\ HashAwaits'
    BY <2>1 DEF WrittenInv, HashGiven, HashAwaits, Given, GivesHash, HasHash
  <2>6. OutcomeAwaits'
    <3>1. \A u \in Ids : Reported(u)' => Reported(u)
      BY <2>1 DEF Reported
    <3>2. \A u, n : InLedger(<<u, n>>) => InLedger(<<u, n>>)'
      BY <2>1 DEF InLedger
    <3>3. \A u \in Ids : OutcomeStored(u) => OutcomeStored(u)'
      BY <2>1, <3>2 DEF OutcomeStored, HasHash, Documents
    <3>4. UNCHANGED writes
      BY <2>1
    <3> QED BY <3>1, <3>3, <3>4 DEF WrittenInv, OutcomeAwaits, SetsOutcome
  <2> QED BY <2>3, <2>4, <2>5, <2>6 DEF WrittenInv
<1>5. ASSUME NEW t \in Ids, OrphanAA(t) PROVE FALSE
  BY <1>1, <1>5 DEF OrphanAA
<1>6. ASSUME NEW t \in Ids, Sends(t) PROVE WrittenInv'
  <2>1. UNCHANGED <<request, writes, documents, announced, waiters>>
    BY <1>6 DEF Sends, recordVars, Send, TakeRelayer, CreateTransaction, SendAccepted, SendRejected,
                SendAnswerLost, TellError
  <2>2. UNCHANGED events \/ events' = [events EXCEPT ![t] = Append(@, "error")]
    BY <1>6 DEF Sends, Send, TakeRelayer, CreateTransaction, SendAccepted, SendRejected,
                SendAnswerLost, TellError, Publish
  <2>3. \A h \in accepted' : h \in accepted \/ ~Given(h[1], h[2], Len(writes) + 1)
    <3>1. accepted' = accepted \/ (SendAccepted(t) /\ accepted' = accepted \cup {<<t, 1>>})
      BY <1>6 DEF Sends, Send, TakeRelayer, CreateTransaction, SendAccepted, SendRejected,
                  SendAnswerLost, TellError
    <3>2. SendAccepted(t) => ~Given(t, 1, Len(writes) + 1)
      <4> SUFFICES ASSUME SendAccepted(t), Given(t, 1, Len(writes) + 1) PROVE FALSE
        OBVIOUS
      <4>0. QueueInv
        BY DEF WrittenInv
      <4>1. attempts[t] = 0
        BY <1>1, FirstAttempt
      <4>2. 1 \in AttemptNumbers
        BY LifecycleAssumption DEF AttemptNumbers
      <4>3. 1 <= attempts[t]
        BY <1>1, <4>0, <4>2, GivenExists
      <4> QED BY <4>1, <4>3
    <3> QED BY <3>1, <3>2
  <2> QED BY <1>1, <2>1, <2>2, <2>3, ReportedStays, QuietWritten
<1>7. ASSUME NEW h \in Hashes, Tracks(h) \/ WaiterGivesUp(h) \/ Retries(h) PROVE WrittenInv'
  <2>1. UNCHANGED <<request, writes, documents, events>>
    BY <1>7 DEF Tracks, WaiterGivesUp, Retries, recordVars, Track, WaiterFails, Retry, RetryStarts,
                RetryStops, RetryAccepted, RetryRejected, RetryAnswerLost, RetryBroadcast
  <2>2. announced' \cup waiters' \subseteq announced \cup waiters
    BY <1>7 DEF Tracks, WaiterGivesUp, Retries, Track, ToTrack, Awaiting, WaiterFails, StopWaiting, Retry,
                RetryStarts, RetryStops, RetryAccepted, RetryRejected, RetryAnswerLost, RetryBroadcast
  <2>3. \A k \in accepted' : k \in accepted \/ ~Given(k[1], k[2], Len(writes) + 1)
    <3>1. \/ accepted' = accepted
          \/ RetryBroadcast(h) /\ accepted' = accepted \cup {<<IdOf(h), attempts'[IdOf(h)]>>}
      BY <1>7 DEF Tracks, WaiterGivesUp, Retries, Track, WaiterFails, StopWaiting, Retry,
                  RetryStarts, RetryStops, RetryAccepted, RetryRejected, RetryAnswerLost
    <3>2. ASSUME RetryBroadcast(h) PROVE ~Given(IdOf(h), attempts'[IdOf(h)], Len(writes) + 1)
      <4>1. PICK t, n : t = IdOf(h) /\ n = attempts'[IdOf(h)]
        OBVIOUS
      <4>0. QueueInv
        BY DEF WrittenInv
      <4>2. /\ t \in Ids /\ attempts[t] \in 1 .. MaxAttempts /\ attempts[t] < MaxAttempts
            /\ n = attempts[t] + 1
        BY <1>1, <3>2, <4>1, NextAttempt
      <4>3. n \in AttemptNumbers /\ ~(n <= attempts[t])
        BY <4>2, LifecycleAssumption DEF AttemptNumbers
      <4> QED BY <1>1, <4>0, <4>1, <4>2, <4>3, GivenExists
    <3> QED BY <3>1, <3>2
  <2> QED BY <1>1, <2>1, <2>2, <2>3, ReportedStays, QuietWritten
<1>8. ASSUME NEW h \in Hashes, Notifies(h) \/ NotifyFails(h) PROVE WrittenInv'
  <2>1. PICK ws : /\ Issue(ws) /\ (ws # <<>> => h \in accepted /\ ws = NoticeWrites(h))
                  /\ ws = <<>> => PublishFails(h)
    <3>1. NoticeWrites(h) # <<>>
      BY DEF NoticeWrites
    <3> QED BY <1>8, <3>1 DEF Notifies, NotifyFails, Announce, ToAnnounce
  <2>2. /\ UNCHANGED <<request, documents, attempts, waiters>> /\ writes' = writes \o ws
        /\ announced' \subseteq announced \cup {h} /\ IdOf(h) \in Ids /\ accepted' = accepted \ {h}
    BY <1>8, <2>1, HashParts DEF Issue, Notifies, NotifyFails, Announce, PublishFails
  <2>3. \A u \in Ids : Reported(u)' => Reported(u)
    <3>1. UNCHANGED events \/ \E e \in {"generated", "changed"} :
            events' = [events EXCEPT ![IdOf(h)] = Append(@, e)]
      BY <1>8 DEF Notifies, NotifyFails, Announce, PublishFails, Publish
    <3> QED BY <1>1, <2>2, <3>1, ReportedStays
  <2>4. CASE ws # <<>>
    <3>1. h \in accepted /\ ws = NoticeWrites(h) /\ ws \in Seq(Writes)
      BY <2>1, <2>4, NoticeTruthful DEF RecordInv
    <3>2. /\ \A i \in DOMAIN ws : /\ Issuable(ws[i], h[1])
                                  /\ Creates(ws[i]) \/ ws[i].op = "updateById" => i = 1
          /\ \E i \in DOMAIN ws : GivesHash(ws[i], h[1], h[2])
          /\ \A i \in DOMAIN ws : \A u, m : GivesHash(ws[i], u, m) => u = h[1] /\ m = h[2]
          /\ \A i, j \in DOMAIN ws : \A m : GivesHash(ws[i], h[1], m) /\ GivesHash(ws[j], h[1], m) => i = j
      <4>1. OfNotice(ws, h[1], h[2])
        BY <3>1, NoticeIssuable
      <4>2. \A i \in DOMAIN ws : Creates(ws[i]) \/ ws[i].op = "updateById" => i = 1
        BY <4>1 DEF OfNotice
      <4> QED BY <4>1, <4>2 DEF OfNotice
    <3>6. \A k \in accepted' : /\ ~Given(k[1], k[2], Len(writes) + 1)
                               /\ \A i \in DOMAIN ws : ~GivesHash(ws[i], k[1], k[2])
      <4> SUFFICES ASSUME NEW k \in accepted, k # h
                   PROVE  /\ ~Given(k[1], k[2], Len(writes) + 1)
                          /\ \A i \in DOMAIN ws : ~GivesHash(ws[i], k[1], k[2])
        BY <2>2
      <4>1. k = <<k[1], k[2]>> /\ h = <<h[1], h[2]>>
        BY <1>1, <3>1, ViewTypes, HashParts DEF Followed, IdOf
      <4> QED BY <3>2, <4>1 DEF WrittenInv, HashAwaits
    <3>3. request[IdOf(h)] = "accepted"
      <4>1. attempts[IdOf(h)] # 0
        <5>1. attempts[IdOf(h)] \in 1 .. MaxAttempts
          BY <1>1, <3>1, FollowedHash DEF Followed
        <5> QED BY <5>1, LifecycleAssumption
      <4> QED BY <2>2, <4>1 DEF FinalInv, SentIsAccepted
    <3>4. request'[h[1]] = "accepted"
      BY <2>2, <3>3 DEF IdOf
    <3>5. \A k \in announced' \cup waiters' :
            k \in announced \cup waiters \/ \E i \in DOMAIN ws : GivesHash(ws[i], k[1], k[2])
      BY <2>2, <3>2
    <3> QED BY <2>2, <2>3, <3>1, <3>2, <3>4, <3>5, <3>6, IssueWritten, ZenonT(60)
  <2>5. CASE ws = <<>>
    <3>1. announced' \subseteq announced /\ UNCHANGED writes
      BY <1>1, <2>1, <2>5 DEF PublishFails, Issue
    <3> QED BY <2>2, <2>3, <3>1, QuietWritten
  <2> QED BY <2>4, <2>5
<1>9. ASSUME NEW h \in Hashes, Settles(h) PROVE WrittenInv'
  <2>1. PICK s \in {"SUCCESS", "FAILED"} : Issue(<<UpdateByHash(h[1], h[2], [status |-> s])>>)
    BY <1>9 DEF Settles
  <2>2. PICK w : w = UpdateByHash(h[1], h[2], [status |-> s])
    OBVIOUS
  <2>3. PICK t, n : t = h[1] /\ n = h[2]
    OBVIOUS
  <2>4. /\ h \in waiters /\ UNCHANGED <<accepted, announced>> /\ waiters' \subseteq waiters
        /\ t \in Ids /\ n \in AttemptNumbers /\ attempts[t] # 0
        /\ events' = [events EXCEPT ![t] = Append(@, "mined")]
    <3>1. h \in waiters /\ UNCHANGED <<accepted, announced, attempts>> /\ waiters' \subseteq waiters
      BY <1>9 DEF Settles, ReceiptArrives, StopWaiting
    <3>2. t \in Ids /\ n \in AttemptNumbers
      BY <2>3, HashParts DEF IdOf, AttemptNumbers
    <3>3. attempts[t] # 0
      BY <1>1, <2>3, <3>1, <3>2, ViewTypes DEF ViewInv, WaitersInv, Exists, IdOf, AttemptNumbers
    <3>4. events' = [events EXCEPT ![t] = Append(@, "mined")]
      BY <1>9, <2>3 DEF Settles, ReceiptArrives, Publish, IdOf
    <3> QED BY <3>1, <3>2, <3>3, <3>4
  <2>5. /\ w.id = t /\ w.op = "updateByHash" /\ w.key = n /\ SetsOutcome(w) /\ w \in Writes
    <3>1. n \in 0 .. MaxAttempts
      BY <2>4, LifecycleAssumption DEF AttemptNumbers
    <3> QED BY <2>2, <2>3, <2>4, <3>1
            DEF UpdateByHash, SetsOutcome, Outcomes, Writes, UpdatesByHash
  <2>6. PICK ws : ws = <<w>>
    OBVIOUS
  <2>7. ws \in Seq(Writes) /\ DOMAIN ws = {1} /\ ws[1] = w
    BY <2>5, <2>6
  <2>8. Given(t, n, Len(writes) + 1)
    BY <2>3, <2>4 DEF WrittenInv, HashGiven
  <2>a. \A u, m : ~GivesHash(w, u, m)
    BY <2>5 DEF GivesHash
  <2>b. \A k \in accepted' : /\ ~Given(k[1], k[2], Len(writes) + 1)
                             /\ \A i \in DOMAIN ws : ~GivesHash(ws[i], k[1], k[2])
    BY <2>4, <2>7, <2>a DEF WrittenInv, HashAwaits
  <2>9. Issuable(w, t) /\ ~Creates(w) /\ w.op # "updateById"
    BY <2>5, <2>8, <2>a DEF Issuable, WellFormed, Creates, Replaces
  <2>10. writes' = writes \o ws /\ UNCHANGED <<request, documents>>
    BY <2>1, <2>2, <2>6 DEF Issue
  <2>11. request[t] = "accepted"
    BY <2>4 DEF FinalInv, SentIsAccepted
  <2>12. \A u \in Ids : Reported(u)' => Reported(u) \/ u = t
    <3>1. \A u \in Ids : u # t => events'[u] = events[u]
      BY <1>1, <2>4, ViewTypes
    <3> QED BY <3>1 DEF Reported
  <2>13. \A i, j \in DOMAIN ws : i = j
    BY <2>7
  <2> QED BY <2>4, <2>5, <2>7, <2>9, <2>10, <2>11, <2>12, <2>13, <2>b, IssueWritten
<1>10. ASSUME NEW a \in Accounts, Mines(a) PROVE WrittenInv'
  <2>1. UNCHANGED <<request, writes, documents, accepted, announced, waiters, events>>
    BY <1>10 DEF Mines, MineNext, recordVars
  <2> QED BY <1>1, <2>1, ReportedStays, QuietWritten
<1>11. CASE Restarts
  BY <1>1, <1>11 DEF Restarts
<1>12. CASE UNCHANGED allVars
  BY <1>1, <1>12, ReportedStays, QuietWritten DEF allVars, vars, recordVars
<1> QED BY <1>2, <1>3, <1>4, <1>5, <1>6, <1>7, <1>8, <1>9, <1>10, <1>11, <1>12 DEF RecordNext

LEMMA InitWritten == RecordInit => WrittenInv
<1> SUFFICES ASSUME RecordInit PROVE WrittenInv
  OBVIOUS
<1>1. /\ writes = <<>> /\ \A t \in Ids : request[t] = "new" /\ events[t] = <<>> /\ Documents(t) = {}
      /\ accepted = {} /\ announced = {} /\ waiters = {}
  BY DEF RecordInit, Init, Documents
<1> QED BY <1>1 DEF WrittenInv, QueueInv, HashesInv, CreatedFirst, FirstHashFirst, OutcomeGiven,
                    GivenOnce, Requested, HashGiven, HashAwaits, OutcomeAwaits, Reported

\* Writes that keep their order kept it before, and a process that did not exit had not.
LEMMA UpBefore ==
  ASSUME TypeOK, [RecordNext]_allVars, order' = "issued", restarts' = 0
  PROVE  order = "issued" /\ restarts = 0
<1>1. order' = order
  BY DEF RecordNext, ExecuteWrite, Relay, RefuseSCW, OrphanAA, Sends, Notifies, Tracks, NotifyFails,
         Settles, Issue, WaiterGivesUp, Retries, Mines, Restarts, allVars, recordVars
<1>2. restarts' = restarts \/ restarts' = restarts + 1
  BY RecordStep
  DEF Next, TakeRelayer, CreateTransaction, Broadcast, FirstBroadcast, Fails, Send, SendAccepted,
      SendRejected, SendAnswerLost, TellError, Listen, Announce, Track, ReceiptArrives, StopWaiting,
      Retry, RetryStarts, RetryStops, RetryBroadcast, RetryAccepted, RetryRejected, RetryAnswerLost,
      Fault, PublishFails, WaiterFails, MineNext, Restart, vars, handlerVars, chainVars, retryVars,
      listenerVars, faultVars
<1> QED BY <1>1, <1>2, LifecycleAssumption DEF TypeOK

WrittenWhileUp == order = "issued" /\ restarts = 0 => WrittenInv

LEMMA WrittenInvariance ==
  RecordSpec => [](RecordInv /\ FinalInv /\ TypeOK /\ WrittenWhileUp)
<1>1. RecordInit => WrittenWhileUp
  BY InitWritten DEF WrittenWhileUp
<1>2. RecordInv /\ FinalInv /\ TypeOK /\ WrittenWhileUp /\ [RecordNext]_allVars => WrittenWhileUp'
  <2> SUFFICES ASSUME RecordInv, FinalInv, TypeOK, WrittenWhileUp, [RecordNext]_allVars,
                      order' = "issued", restarts' = 0
               PROVE  WrittenInv'
    BY DEF WrittenWhileUp
  <2>1. order = "issued" /\ restarts = 0
    BY UpBefore
  <2> QED BY <2>1, WrittenStep DEF WrittenWhileUp
<1> QED BY RecordsFinal, RecordsAreAside, LifecycleTyped, <1>1, <1>2, PTL DEF RecordSpec

\* Where an id has documents, one is the newest.
LEMMA NewestExists ==
  ASSUME NEW t, Documents(t) # {}
  PROVE  Newest(t) \in Documents(t) /\ \A m \in Documents(t) : m <= Newest(t)
<1>1. \E n \in Documents(t) : \A m \in Documents(t) : m <= n
  BY LastAttempt DEF Documents
<1> QED BY <1>1 DEF Newest

\* No write of a reported transaction is left to the database only once the update of the
\* waiter has found the document of the mined hash, which nothing makes PENDING again; the
\* client reads the outcome unless a newer attempt has a newer document.
THEOREM OutcomeFindsItsDocument == RecordSpec => []WrittenIsRecorded
<1>1. RecordInv /\ WrittenWhileUp => WrittenIsRecorded
  <2> SUFFICES ASSUME RecordInv, WrittenInv, NEW t \in Ids, Reported(t),
                      \A i \in DOMAIN writes : writes[i].id # t
               PROVE  /\ \E n \in Documents(t) : OfMinedHash(t, n) /\ documents[t][n].status # "PENDING"
                      /\ Superseded(t) \/ StatusApi(t) \in Outcomes
    BY DEF WrittenWhileUp, WrittenIsRecorded
  <2>1. PICK n \in Documents(t) :
          InLedger(<<t, n>>) /\ HasHash(t, n, n) /\ documents[t][n].status # "PENDING"
    BY DEF WrittenInv, OutcomeAwaits, OutcomeStored
  <2>2. n \in AttemptNumbers /\ OfMinedHash(t, n)
    BY <2>1 DEF OfMinedHash, Documents
  <2>3. ASSUME ~Superseded(t) PROVE StatusApi(t) \in Outcomes
    <3>1. n = attempts[t]
      BY <2>1, <2>2, <2>3, OvertakenBy, MinedLatest DEF RecordInv
    <3>2. documents[t][n].status \in Outcomes
      <4>1. TruthfulDocument(t, documents[t][n]) /\ documents[t][n].transactionHash = n
        BY <2>1 DEF RecordInv, DocumentsInv, HasHash
      <4>2. documents[t][n].status # "DROPPED"
        BY <2>2, <3>1, <4>1, LifecycleAssumption DEF TruthfulDocument, AttemptNumbers
      <4> QED BY <2>1, <4>1, <4>2 DEF TruthfulDocument, Statuses, Outcomes
    <3>3. \A m \in Documents(t) : m \in Nat /\ m <= n
      BY <2>2, <3>1, LifecycleAssumption DEF WrittenInv, QueueInv, HashesInv, Documents, AttemptNumbers
    <3>4. Newest(t) = n
      <4>1. Newest(t) \in Documents(t) /\ \A m \in Documents(t) : m <= Newest(t)
        BY <3>3 DEF Newest
      <4>2. n \in Nat /\ Newest(t) \in Nat /\ n <= Newest(t) /\ Newest(t) <= n
        BY <3>3, <4>1
      <4> QED BY <4>2
    <3> QED BY <3>2, <3>4 DEF StatusApi
  <2> QED BY <2>1, <2>2, <2>3
<1> QED BY WrittenInvariance, <1>1, PTL

-----------------------------------------------------------------------------
(* DROPPED is followed by the replacement: notify issues the save behind    *)
(* the update, and the document of the replaced hash, which the update      *)
(* finds by it, is the one of the attempt before.                           *)
Drops(w) == w.op = "updateByHash" /\ w.fields.status = "DROPPED"

Replacement(w, t, n) == w.op = "save" /\ w.id = t /\ w.key = n

ReplacedInv ==
  /\ \A i \in DOMAIN writes : Drops(writes[i]) =>
       \E j \in DOMAIN writes : j > i /\ Replacement(writes[j], writes[i].id, writes[i].key + 1)
  /\ \A t \in Ids : \A n \in Documents(t) : documents[t][n].status = "DROPPED" =>
       \/ n + 1 \in Documents(t)
       \/ \E j \in DOMAIN writes : Replacement(writes[j], t, n + 1)

\* The head of the writes is executed.
LEMMA ExecuteReplaced ==
  ASSUME RecordInv, QueueInv, ReplacedInv, order = "issued", ExecuteWrite
  PROVE  ReplacedInv'
<1>1. /\ 1 \in DOMAIN writes /\ Execute(writes[1])
      /\ writes' = SubSeq(writes, 1, 0) \o SubSeq(writes, 2, Len(writes))
  BY DEF ExecuteWrite, Executable
<1>2. writes \in Seq(Writes) /\ writes[1] \in Writes /\ DocumentsInv
  BY <1>1 DEF RecordInv, RequestsInv
<1>3. \A j \in DOMAIN writes' : j + 1 \in DOMAIN writes /\ writes'[j] = writes[j + 1] /\ j \in Nat
  BY <1>1, <1>2
<1>4. ASSUME NEW j \in DOMAIN writes, j > 1
      PROVE  \E i \in DOMAIN writes' : i = j - 1 /\ writes'[i] = writes[j]
  BY <1>1, <1>2, <1>4
<1>5. ASSUME NEW i \in DOMAIN writes', Drops(writes'[i])
      PROVE  \E j \in DOMAIN writes' : j > i /\ Replacement(writes'[j], writes'[i].id, writes'[i].key + 1)
  <2>1. PICK j \in DOMAIN writes :
          j > i + 1 /\ Replacement(writes[j], writes'[i].id, writes'[i].key + 1)
    BY <1>3, <1>5 DEF ReplacedInv
  <2>2. j > 1 /\ j - 1 > i
    BY <1>2, <1>3, <2>1
  <2>3. PICK m \in DOMAIN writes' : m = j - 1 /\ writes'[m] = writes[j]
    BY <1>4, <2>2
  <2> QED BY <2>1, <2>2, <2>3
<1>6. PICK w : w = writes[1]
  OBVIOUS
<1>7. ASSUME NEW t \in Ids, NEW n \in Documents(t)', documents'[t][n].status = "DROPPED"
      PROVE  \/ n + 1 \in Documents(t)'
             \/ \E j \in DOMAIN writes' : Replacement(writes'[j], t, n + 1)
  <2>1. n \in AttemptNumbers /\ documents'[t][n] # NoDocument
    BY DEF Documents
  <2>2. ASSUME NEW j \in DOMAIN writes, Replacement(writes[j], t, n + 1), j # 1
        PROVE  \E i \in DOMAIN writes' : Replacement(writes'[i], t, n + 1)
    <3>1. j > 1
      BY <1>2, <2>2
    <3>2. PICK i \in DOMAIN writes' : writes'[i] = writes[j]
      BY <1>4, <3>1
    <3> QED BY <2>2, <3>2
  <2>3. CASE t # w.id
    <3>1. documents'[t] = documents[t]
      BY <1>1, <1>2, <1>6, <2>3, ExecuteEffect
    <3>2. CASE n + 1 \in Documents(t)
      BY <3>1, <3>2 DEF Documents
    <3>3. CASE \E j \in DOMAIN writes : Replacement(writes[j], t, n + 1)
      BY <1>6, <2>2, <2>3, <3>3 DEF Replacement
    <3>4. n \in Documents(t) /\ documents[t][n].status = "DROPPED"
      BY <1>7, <3>1 DEF Documents
    <3> QED BY <3>2, <3>3, <3>4 DEF ReplacedInv
  <2>4. CASE t = w.id /\ UNCHANGED documents /\ w.op # "save"
    <3>1. n \in Documents(t) /\ documents[t][n].status = "DROPPED"
      BY <1>7, <2>4 DEF Documents
    <3>2. CASE n + 1 \in Documents(t)
      BY <2>4, <3>2 DEF Documents
    <3>3. CASE \E j \in DOMAIN writes : Replacement(writes[j], t, n + 1)
      BY <1>6, <2>2, <2>4, <3>3 DEF Replacement
    <3> QED BY <3>1, <3>2, <3>3 DEF ReplacedInv
  <2>5. ASSUME t = w.id, NEW k \in AttemptNumbers, documents'[t][k] # NoDocument,
               \A m \in AttemptNumbers : m # k => documents'[t][m] = documents[t][m],
               \/ w.op = "save" /\ k = w.key /\ documents'[t][k] = Stored(w.fields)
               \/ /\ w.op # "save" /\ k \in Matches(w)
                  /\ documents'[t][k] =
                       [f \in DOMAIN documents[t][k] \cup DOMAIN w.fields |->
                          IF f \in DOMAIN w.fields THEN w.fields[f] ELSE documents[t][k][f]]
        PROVE  \/ n + 1 \in Documents(t)'
               \/ \E j \in DOMAIN writes' : Replacement(writes'[j], t, n + 1)
    <3>1. CASE n # k
      <4>1. n \in Documents(t) /\ documents[t][n].status = "DROPPED"
        BY <1>7, <2>1, <2>5, <3>1 DEF Documents
      <4>2. CASE n + 1 \in Documents(t)
        BY <2>5, <4>2 DEF Documents
      <4>3. CASE \E j \in DOMAIN writes : Replacement(writes[j], t, n + 1)
        <5>1. PICK j \in DOMAIN writes : Replacement(writes[j], t, n + 1)
          BY <4>3
        <5>2. CASE j = 1
          <6>1. w.op = "save" /\ w.key = n + 1
            BY <1>6, <5>1, <5>2 DEF Replacement
          <6>2. k = n + 1
            BY <2>5, <6>1
          <6> QED BY <2>5, <6>2 DEF Documents
        <5> QED BY <2>2, <5>1, <5>2
      <4> QED BY <4>1, <4>2, <4>3 DEF ReplacedInv
    <3>2. CASE n = k /\ w.op = "save"
      <4>1. w \in Saves
        BY <1>2, <1>6, <3>2, WriteKinds
      <4>2. Stored(w.fields).status = "PENDING"
        BY <4>1 DEF Saves, Stored, SchemaFields
      <4> QED BY <1>7, <2>5, <3>2, <4>2
    <3>3. CASE n = k /\ w.op # "save"
      <4>1. w.fields.status = "DROPPED"
        <5>1. "status" \in DOMAIN w.fields
          BY <1>2, <1>6, WriteKinds
        <5>2. documents'[t][k].status = w.fields.status
          BY <2>5, <3>3, <5>1
        <5> QED BY <1>7, <3>3, <5>2
      <4>2. w.op = "updateByHash"
        <5>1. w.op = "updateById" => w.fields.status = "PENDING"
          <6> SUFFICES ASSUME w.op = "updateById" PROVE w.fields.status = "PENDING"
            OBVIOUS
          <6>1. w \in UpdatesById
            BY <1>2, <1>6, WriteKinds
          <6> QED BY <6>1 DEF UpdatesById
        <5> QED BY <1>2, <1>6, <3>3, <4>1, <5>1, WriteKinds
      <4>3. w.key = n
        <5>1. k \in Documents(t) /\ HasHash(t, k, w.key)
          BY <2>5, <3>3, <4>2 DEF Matches
        <5>2. documents[t][k].transactionHash = k /\ documents[t][k].transactionHash = w.key
          BY <5>1 DEF QueueInv, HashesInv, HasHash
        <5> QED BY <3>3, <5>2
      <4>4. PICK j \in DOMAIN writes : j > 1 /\ Replacement(writes[j], t, n + 1)
        BY <1>1, <1>6, <2>5, <4>1, <4>2, <4>3 DEF ReplacedInv, Drops
      <4>5. j # 1
        BY <1>2, <4>4
      <4> QED BY <2>2, <4>4, <4>5
    <3> QED BY <3>1, <3>2, <3>3
  <2>6. CASE t = w.id
    <3>1. \/ UNCHANGED documents /\ w.op # "save"
          \/ \E k \in AttemptNumbers :
              /\ documents'[t][k] # NoDocument
              /\ \A m \in AttemptNumbers : m # k => documents'[t][m] = documents[t][m]
              /\ \/ w.op = "save" /\ k = w.key /\ documents'[t][k] = Stored(w.fields)
                 \/ /\ w.op # "save" /\ k \in Matches(w)
                    /\ documents'[t][k] =
                         [f \in DOMAIN documents[t][k] \cup DOMAIN w.fields |->
                            IF f \in DOMAIN w.fields THEN w.fields[f] ELSE documents[t][k][f]]
      <4>1. w \in Writes /\ Execute(w) /\ DocumentsInv
        BY <1>1, <1>2, <1>6
      <4> QED BY <2>6, <4>1, ExecuteDocument
    <3> QED BY <2>4, <2>5, <2>6, <3>1
  <2> QED BY <2>3, <2>6
<1> QED BY <1>5, <1>7 DEF ReplacedInv, Drops, Replacement, Documents

\* Writes are issued, each DROPPED with the save of its replacement behind it.
LEMMA IssueReplaced ==
  ASSUME ReplacedInv, UNCHANGED documents, writes \in Seq(Writes),
         NEW ws \in Seq(Writes), writes' = writes \o ws,
         \A i \in DOMAIN ws : Drops(ws[i]) =>
           \E j \in DOMAIN ws : j > i /\ Replacement(ws[j], ws[i].id, ws[i].key + 1)
  PROVE  ReplacedInv'
<1>1. /\ \A i \in DOMAIN writes : i \in DOMAIN writes' /\ writes'[i] = writes[i]
      /\ \A i \in DOMAIN ws : i + Len(writes) \in DOMAIN writes' /\ writes'[i + Len(writes)] = ws[i]
  OBVIOUS
<1>2. \A i \in DOMAIN writes' :
        \/ i \in DOMAIN writes /\ writes'[i] = writes[i]
        \/ i - Len(writes) \in DOMAIN ws /\ writes'[i] = ws[i - Len(writes)]
  OBVIOUS
<1>3. ASSUME NEW i \in DOMAIN writes', Drops(writes'[i])
      PROVE  \E j \in DOMAIN writes' : j > i /\ Replacement(writes'[j], writes'[i].id, writes'[i].key + 1)
  <2>1. CASE i \in DOMAIN writes /\ writes'[i] = writes[i]
    <3>1. PICK j \in DOMAIN writes : j > i /\ Replacement(writes[j], writes[i].id, writes[i].key + 1)
      BY <1>3, <2>1 DEF ReplacedInv
    <3> QED BY <1>1, <2>1, <3>1
  <2>2. CASE i - Len(writes) \in DOMAIN ws /\ writes'[i] = ws[i - Len(writes)]
    <3>1. PICK j \in DOMAIN ws :
            j > i - Len(writes) /\ Replacement(ws[j], writes'[i].id, writes'[i].key + 1)
      BY <1>3, <2>2
    <3>2. j + Len(writes) > i
      BY <3>1
    <3> QED BY <1>1, <3>1, <3>2
  <2> QED BY <1>2, <2>1, <2>2
<1>4. ASSUME NEW t \in Ids, NEW n \in Documents(t), documents[t][n].status = "DROPPED"
      PROVE  \/ n + 1 \in Documents(t)
             \/ \E j \in DOMAIN writes' : Replacement(writes'[j], t, n + 1)
  <2>1. CASE \E j \in DOMAIN writes : Replacement(writes[j], t, n + 1)
    BY <1>1, <2>1
  <2> QED BY <1>4, <2>1 DEF ReplacedInv
<1>5. \A t : Documents(t)' = Documents(t)
  BY DEF Documents
<1>6. \A t \in Ids : \A n \in Documents(t)' : documents'[t][n].status = "DROPPED" =>
        \/ n + 1 \in Documents(t)'
        \/ \E j \in DOMAIN writes' : Replacement(writes'[j], t, n + 1)
  BY <1>4, <1>5
<1> QED BY <1>3, <1>6 DEF ReplacedInv, Drops, Replacement

\* What notify issues.
LEMMA NoticeReplaced ==
  ASSUME RecordInv, NEW h \in accepted, NEW ws, ws = NoticeWrites(h)
  PROVE  \A i \in DOMAIN ws : Drops(ws[i]) =>
           \E j \in DOMAIN ws : j > i /\ Replacement(ws[j], ws[i].id, ws[i].key + 1)
<1>1. CASE First(h)
  <2>1. PICK w : w = UpdateById(h[1], [transactionHash |-> 1, status |-> "PENDING"])
    OBVIOUS
  <2>2. ws = <<w>> /\ w.op = "updateById"
    BY <1>1, <2>1 DEF NoticeWrites, UpdateById
  <2> QED BY <2>2 DEF Drops
<1>2. CASE ~First(h)
  <2>1. PICK t, n : t = h[1] /\ n = h[2]
    OBVIOUS
  <2>2. PICK u, v : /\ u = UpdateByHash(t, n - 1, [status |-> "DROPPED"])
                    /\ v = Save(t, n, [transactionHash |-> n, previousTransactionHash |-> n - 1,
                                       status |-> "PENDING", transactionType |-> method[t]])
    OBVIOUS
  <2>3. ws = <<u, v>>
    BY <1>2, <2>1, <2>2 DEF NoticeWrites
  <2>4. h \in Hashes
    BY FollowedHash DEF RecordInv, Followed
  <2>5. n \in Int
    <3>1. n \in 1 .. MaxAttempts /\ MaxAttempts \in Nat
      BY <2>1, <2>4, HashParts, LifecycleAssumption
    <3> QED BY <3>1
  <2>6. /\ u.id = t /\ u.key = n - 1 /\ v.op = "save" /\ v.id = t /\ v.key = n
        /\ n = u.key + 1
    BY <2>2, <2>5 DEF UpdateByHash, Save
  <2>7. Replacement(v, u.id, u.key + 1) /\ ~Drops(v)
    BY <2>6 DEF Replacement, Drops
  <2> QED BY <2>3, <2>7
<1> QED BY <1>1, <1>2

LEMMA ReplacedStep ==
  ASSUME RecordInv, QueueInv, ReplacedInv, [RecordNext]_allVars, order = "issued",
         restarts \in Nat, restarts' = 0
  PROVE  ReplacedInv'
<1> USE DEF handlerVars, chainVars, retryVars, listenerVars
<1>1. writes \in Seq(Writes) /\ ~Restart
  BY DEF RecordInv, RequestsInv, Restart
<1>2. CASE ExecuteWrite
  BY <1>2, ExecuteReplaced
<1>3. ASSUME UNCHANGED <<writes, documents>> PROVE ReplacedInv'
  BY <1>3 DEF ReplacedInv, Drops, Replacement, Documents
<1>4. ASSUME NEW w \in Writes, ~Drops(w), writes' = Append(writes, w), UNCHANGED documents
      PROVE  ReplacedInv'
  <2>1. PICK ws : ws = <<w>>
    OBVIOUS
  <2>2. ws \in Seq(Writes) /\ writes' = writes \o ws /\ \A i \in DOMAIN ws : ws[i] = w
    BY <1>1, <1>4, <2>1
  <2> QED BY <1>1, <1>4, <2>2, IssueReplaced
<1>5. ASSUME NEW t \in Ids, Relay(t) PROVE ReplacedInv'
  <2>1. PICK w : w = SaveRequest(t)
    OBVIOUS
  <2>2. w \in Writes /\ ~Drops(w)
    BY <2>1, RequestTruthful DEF Truthful, SaveRequest, Save, Drops
  <2> QED BY <1>4, <1>5, <2>1, <2>2 DEF Relay
<1>6. ASSUME NEW t \in Ids, RefuseSCW(t) \/ Sends(t) PROVE ReplacedInv'
  BY <1>3, <1>6 DEF RefuseSCW, Sends, recordVars
<1>7. ASSUME NEW t \in Ids, OrphanAA(t) PROVE FALSE
  BY <1>1, <1>7 DEF OrphanAA
<1>8. ASSUME NEW h \in Hashes, Tracks(h) \/ WaiterGivesUp(h) \/ Retries(h) PROVE ReplacedInv'
  BY <1>3, <1>8 DEF Tracks, WaiterGivesUp, Retries, recordVars
<1>9. ASSUME NEW h \in Hashes, Notifies(h) \/ NotifyFails(h) PROVE ReplacedInv'
  <2>1. PICK ws : Issue(ws) /\ (ws # <<>> => h \in accepted /\ ws = NoticeWrites(h))
    BY <1>9 DEF Notifies, NotifyFails, Announce, ToAnnounce
  <2>2. CASE ws = <<>>
    <3>1. UNCHANGED <<writes, documents>>
      BY <1>1, <2>1, <2>2 DEF Issue
    <3> QED BY <1>3, <3>1
  <2>3. CASE ws # <<>>
    <3>1. h \in accepted /\ ws = NoticeWrites(h) /\ ws \in Seq(Writes)
      BY <2>1, <2>3, NoticeTruthful DEF RecordInv
    <3>2. \A i \in DOMAIN ws : Drops(ws[i]) =>
            \E j \in DOMAIN ws : j > i /\ Replacement(ws[j], ws[i].id, ws[i].key + 1)
      BY <3>1, NoticeReplaced
    <3> QED BY <1>1, <2>1, <3>1, <3>2, IssueReplaced DEF Issue
  <2> QED BY <2>2, <2>3
<1>10. ASSUME NEW h \in Hashes, Settles(h) PROVE ReplacedInv'
  <2>1. PICK s \in {"SUCCESS", "FAILED"} : Issue(<<UpdateByHash(h[1], h[2], [status |-> s])>>)
    BY <1>10 DEF Settles
  <2>2. PICK w : w = UpdateByHash(h[1], h[2], [status |-> s])
    OBVIOUS
  <2>3. w \in Writes
    <3>1. h[1] \in Ids /\ h[2] \in 1 .. MaxAttempts
      BY HashParts DEF IdOf
    <3>2. h[2] \in 0 .. MaxAttempts
      BY <3>1, LifecycleAssumption
    <3> QED BY <2>2, <3>1, <3>2 DEF UpdateByHash, Writes, UpdatesByHash
  <2>4. ~Drops(w)
    BY <2>2 DEF UpdateByHash, Drops
  <2>5. writes' = Append(writes, w) /\ UNCHANGED documents
    BY <1>1, <2>1, <2>2, <2>3 DEF Issue
  <2> QED BY <1>4, <2>3, <2>4, <2>5
<1>11. ASSUME NEW a \in Accounts, Mines(a) PROVE ReplacedInv'
  BY <1>3, <1>11 DEF Mines, recordVars
<1>12. CASE Restarts
  BY <1>1, <1>12 DEF Restarts
<1>13. CASE UNCHANGED allVars
  BY <1>3, <1>13 DEF allVars, recordVars
<1> QED BY <1>2, <1>5, <1>6, <1>7, <1>8, <1>9, <1>10, <1>11, <1>12, <1>13 DEF RecordNext

ReplacedWhileUp == order = "issued" /\ restarts = 0 => ReplacedInv

\* The status endpoint reports DROPPED only while the save of the replacement is issued and
\* not executed, for any number of replacements; writes keep their order and the process
\* does not exit.
THEOREM DroppedGivesWay == RecordSpec => []DroppedIsReplaced
<1>1. RecordInit => ReplacedWhileUp
  BY DEF RecordInit, ReplacedWhileUp, ReplacedInv, Documents
<1>2. /\ RecordInv /\ TypeOK /\ WrittenWhileUp /\ ReplacedWhileUp /\ [RecordNext]_allVars
      => ReplacedWhileUp'
  <2> SUFFICES ASSUME RecordInv, TypeOK, WrittenWhileUp, ReplacedWhileUp, [RecordNext]_allVars,
                      order' = "issued", restarts' = 0
               PROVE  ReplacedInv'
    BY DEF ReplacedWhileUp
  <2>1. order = "issued" /\ restarts = 0
    BY UpBefore
  <2>2. QueueInv /\ ReplacedInv
    BY <2>1 DEF WrittenWhileUp, ReplacedWhileUp, WrittenInv
  <2> QED BY <2>1, <2>2, ReplacedStep
<1>3. RecordInv /\ WrittenWhileUp /\ ReplacedWhileUp => DroppedIsReplaced
  <2> SUFFICES ASSUME RecordInv, QueueInv, ReplacedInv, NEW t \in Ids, StatusApi(t) = "DROPPED"
               PROVE  \E i \in DOMAIN writes : writes[i].op = "save" /\ writes[i].id = t
    BY DEF DroppedIsReplaced, WrittenWhileUp, ReplacedWhileUp, WrittenInv
  <2>1. PICK n : n = Newest(t)
    OBVIOUS
  <2>2. Documents(t) # {} /\ documents[t][n].status = "DROPPED"
    BY <2>1 DEF StatusApi
  <2>3. n \in Documents(t) /\ \A m \in Documents(t) : m <= n
    BY <2>1, <2>2, NewestExists
  <2>4. n + 1 \notin Documents(t)
    <3>1. n \in Int
      BY <2>3 DEF Documents, AttemptNumbers
    <3>2. ~(n + 1 <= n)
      BY <3>1
    <3> QED BY <2>3, <3>2
  <2> QED BY <2>2, <2>3, <2>4 DEF ReplacedInv, Replacement
<1>4. RecordSpec => [](TypeOK /\ RecordInv /\ WrittenWhileUp)
  BY WrittenInvariance, PTL
<1> QED BY <1>1, <1>2, <1>3, <1>4, PTL DEF RecordSpec
=============================================================================

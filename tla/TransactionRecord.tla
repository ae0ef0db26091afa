------------------------- MODULE TransactionRecord -------------------------
(***************************************************************************)
(* The database records of a transaction: what the relay controllers and   *)
(* EVMTransactionListener write, beside the life of the transaction itself *)
(* (TransactionLifecycle), and what the status and resubmit endpoints read.*)
(*                                                                         *)
(* No write of a controller or of notify is awaited: it is issued, and the *)
(* database executes it later.  One connection keeps the order of issue, a *)
(* pool of them does not; both are covered (order).                        *)
(***************************************************************************)
EXTENDS TransactionLifecycle

VARIABLES
  order,     \* "issued" or "any": the order in which writes are executed
  method,    \* "AA" or "SCW", the type of the relay request of an id
  request,   \* where the relay controller of an id is
  writes,    \* writes issued and not executed, in the order of issue
  documents  \* documents of an id, by the attempt they were created for

recordVars == <<order, method, request, writes, documents>>
allVars == <<vars, recordVars>>

Orders == {"issued", "any"}
Methods == {"AA", "SCW"}
Statuses == {"PENDING", "DROPPED", "SUCCESS", "FAILED"}
Requests == {"new", "accepted", "refused", "orphaned"}
NoDocument == <<>>

AttemptNumbers == 1 .. MaxAttempts

(* BlockchainTransactionSchema.  Mongoose keeps the fields of the schema    *)
(* and drops every other one, transactionType among them.                  *)
SchemaFields == {"transactionHash", "previousTransactionHash", "status"}

StoredUnfiltered(fields) == fields

Stored(fields) == [f \in DOMAIN fields \cap SchemaFields |-> fields[f]]

-----------------------------------------------------------------------------
(* Writes: of a controller, of notify, of the waiters. *)
Saves ==
  [op : {"save"}, id : Ids, key : AttemptNumbers,
   fields : [status : {"PENDING"}, transactionType : Methods]
     \cup [transactionHash : AttemptNumbers, previousTransactionHash : 0 .. MaxAttempts,
           status : {"PENDING"}, transactionType : Methods]]

UpdatesById ==
  [op : {"updateById"}, id : Ids, key : {0},
   fields : [transactionHash : AttemptNumbers, status : {"PENDING"}]]

UpdatesByHash ==
  [op : {"updateByHash"}, id : Ids, key : 0 .. MaxAttempts,
   fields : [status : {"DROPPED", "SUCCESS", "FAILED"}]]

Save(t, key, fields) == [op |-> "save", id |-> t, key |-> key, fields |-> fields]
UpdateById(t, fields) == [op |-> "updateById", id |-> t, key |-> 0, fields |-> fields]
UpdateByHash(t, n, fields) == [op |-> "updateByHash", id |-> t, key |-> n, fields |-> fields]

(* Both controllers give the type AA. *)
SaveRequest(t) == Save(t, 1, [status |-> "PENDING", transactionType |-> "AA"])

NoticeWithoutDocument(h) ==
  IF First(h)
  THEN <<UpdateById(h[1], [transactionHash |-> 1, status |-> "PENDING"])>>
  ELSE <<UpdateByHash(h[1], h[2] - 1, [status |-> "DROPPED"])>>

(* notify: the first hash goes into the document of the controller, another *)
(* one into a document of its own, and the hash it replaces is DROPPED,     *)
(* whatever became of it.                                                   *)
NoticeWrites(h) ==
  IF First(h)
  THEN <<UpdateById(h[1], [transactionHash |-> 1, status |-> "PENDING"])>>
  ELSE <<UpdateByHash(h[1], h[2] - 1, [status |-> "DROPPED"]),
         Save(h[1], h[2], [transactionHash |-> h[2], previousTransactionHash |-> h[2] - 1,
                           status |-> "PENDING", transactionType |-> method[h[1]]])>>

Documents(t) == {n \in AttemptNumbers : documents[t][n] # NoDocument}

HasHash(t, n, hash) ==
  "transactionHash" \in DOMAIN documents[t][n] /\ documents[t][n].transactionHash = hash

MatchesById(w) == Documents(w.id)

(* The documents an updateOne may choose from. *)
Matches(w) ==
  IF w.op = "updateById" THEN Documents(w.id)
  ELSE {n \in Documents(w.id) : HasHash(w.id, n, w.key)}

Executable == IF order = "issued" THEN {1} \cap DOMAIN writes ELSE DOMAIN writes

(* An update that finds no document does nothing. *)
Execute(w) ==
  \/ /\ w.op = "save"
     /\ documents' = [documents EXCEPT ![w.id][w.key] = Stored(w.fields)]
  \/ /\ w.op # "save" /\ Matches(w) = {}
     /\ UNCHANGED documents
  \/ /\ w.op # "save"
     /\ \E n \in Matches(w) :
          documents' = [documents EXCEPT ![w.id][n] =
            [f \in DOMAIN @ \cup DOMAIN w.fields |->
               IF f \in DOMAIN w.fields THEN w.fields[f] ELSE @[f]]]

ExecuteWrite ==
  /\ \E i \in Executable :
       /\ Execute(writes[i])
       /\ writes' = SubSeq(writes, 1, i - 1) \o SubSeq(writes, i + 1, Len(writes))
  /\ UNCHANGED <<vars, order, method, request>>

-----------------------------------------------------------------------------
(* The relay endpoints. *)
RecordInit ==
  /\ Init
  /\ order \in Orders
  /\ method \in [Ids -> Methods]
  /\ request = [t \in Ids |-> "new"]
  /\ writes = <<>>
  /\ documents = [t \in Ids |-> [n \in AttemptNumbers |-> NoDocument]]

(* The publish is a write to a socket, so the message, the write of the     *)
(* record and the answer 200 are of one turn, awaited (SCW) or not (AA).    *)
Relay(t) ==
  /\ request[t] = "new"
  /\ request' = [request EXCEPT ![t] = "accepted"]
  /\ writes' = Append(writes, SaveRequest(t))
  /\ UNCHANGED <<vars, order, method, documents>>

(* A closed channel makes the publish throw.  The SCW controller catches it *)
(* and answers 500; ...                                                     *)
RefuseSCW(t) ==
  /\ Faults /\ request[t] = "new" /\ method[t] = "SCW"
  /\ request' = [request EXCEPT ![t] = "refused"]
  /\ UNCHANGED <<vars, order, method, writes, documents>>

(* ... the AA controller does not await it: 200 is answered, the record may *)
(* be written, and the rejection ends the process.                          *)
OrphanAA(t) ==
  /\ Faults /\ request[t] = "new" /\ method[t] = "AA"
  /\ Restart
  /\ request' = [request EXCEPT ![t] = "orphaned"]
  /\ writes' = <<>>
  /\ Execute(SaveRequest(t)) \/ UNCHANGED documents
  /\ UNCHANGED <<order, method>>

-----------------------------------------------------------------------------
(* The steps of TransactionLifecycle, with the writes they issue.           *)
Issue(ws) == writes' = writes \o ws /\ UNCHANGED <<order, method, request, documents>>

Sends(t) ==
  /\ request[t] = "accepted"
  /\ Send(t) \/ SendAnswerLost(t)
  /\ UNCHANGED recordVars

Notifies(h) == Announce(h) /\ Issue(NoticeWrites(h))

Tracks(h) == Track(h) /\ UNCHANGED recordVars

(* The writes of notify come before its first publish.                      *)
NotifyFails(h) ==
  /\ PublishFails(h)
  /\ Issue(IF h \in accepted THEN NoticeWrites(h) ELSE <<>>)

(* onTransactionSuccess, onTransactionFailure: the update by id and hash.   *)
Settles(h) ==
  /\ ReceiptArrives(h)
  /\ \E s \in {"SUCCESS", "FAILED"} : Issue(<<UpdateByHash(h[1], h[2], [status |-> s])>>)

WaiterGivesUp(h) == WaiterFails(h) /\ UNCHANGED recordVars

(* retryTransaction notifies the listener of an accepted attempt alone.     *)
Retries(h) == (Retry(h) \/ RetryAnswerLost(h)) /\ UNCHANGED recordVars

Mines(a) == MineNext(a) /\ UNCHANGED recordVars

(* Writes that have not been executed are lost with the process; one that   *)
(* the database rejects ends it, for nothing catches the rejection.         *)
Restarts ==
  /\ Restart
  /\ writes' = <<>>
  /\ UNCHANGED <<order, method, request, documents>>

RecordNext ==
  \/ ExecuteWrite
  \/ \E t \in Ids : Relay(t) \/ RefuseSCW(t) \/ OrphanAA(t) \/ Sends(t)
  \/ \E h \in Hashes : Notifies(h) \/ Tracks(h) \/ NotifyFails(h) \/ Settles(h)
                         \/ WaiterGivesUp(h) \/ Retries(h)
  \/ \E a \in Accounts : Mines(a)
  \/ Restarts

(* The driver of the database runs every write it was given. *)
RecordSpec == RecordInit /\ [][RecordNext]_allVars /\ WF_allVars(ExecuteWrite)

-----------------------------------------------------------------------------
(* What the endpoints read. *)
Oldest(t) == CHOOSE n \in Documents(t) : \A m \in Documents(t) : n <= m

(* getByTransactionId sorts by _id, and the id of a document is made when   *)
(* its save is issued: the newest first.                                    *)
Newest(t) == CHOOSE n \in Documents(t) : \A m \in Documents(t) : m <= n

StatusApi(t) == IF Documents(t) = {} THEN "404" ELSE documents[t][Newest(t)].status

(* transactionResubmitApi takes the relayer manager from the type in the    *)
(* record: without one its lookup throws, which is answered with 500.       *)
ResubmitApi(t) ==
  IF Cardinality(Documents(t)) # 1 THEN "404"
  ELSE IF "transactionType" \notin DOMAIN documents[t][Newest(t)] THEN "500"
  ELSE "relayer found"

Outcomes == {"SUCCESS", "FAILED"}

(* A node had taken a replacement of the mined attempt, with its nonce: the  *)
(* newest document is another one's.                                        *)
Superseded(t) ==
  \E m, n \in AttemptNumbers :
    /\ m < n /\ n <= attempts[t]
    /\ InLedger(<<t, m>>) /\ nonce[<<t, n>>] = nonce[<<t, m>>]

OfMinedHash(t, n) == \E k \in AttemptNumbers : HasHash(t, n, k) /\ InLedger(<<t, k>>)

\* Every variable of the records has its type; what the schema does not name is not stored.
RecordTypeOK ==
  /\ order \in Orders
  /\ method \in [Ids -> Methods]
  /\ request \in [Ids -> Requests]
  /\ writes \in Seq(Saves \cup UpdatesById \cup UpdatesByHash)
  /\ \A t \in Ids : \A n \in Documents(t) :
       /\ DOMAIN documents[t][n] \subseteq SchemaFields
       /\ documents[t][n].status \in Statuses

\* A document with an outcome is the one of the mined hash, in whatever order the
\* database executes the writes of notify, of the waiters and of the controllers.
OutcomeIsMined ==
  \A t \in Ids : \A n \in Documents(t) :
    documents[t][n].status \in Outcomes => OfMinedHash(t, n)

\* DROPPED is a status on the way to another document: while writes keep their order and
\* the process does not exit, the status endpoint reports it only until the save of the
\* replacement, which notify issued behind it, is executed.
DroppedIsReplaced ==
  order = "issued" /\ restarts = 0 =>
    \A t \in Ids : StatusApi(t) = "DROPPED" =>
      \E i \in DOMAIN writes : writes[i].op = "save" /\ writes[i].id = t

\* While writes keep their order, the outcome the status endpoint reports is final unless
\* the mined attempt was superseded: no retry that raced with the receipt, and no restart,
\* makes it PENDING or DROPPED again.
SettledStays ==
  [][\A t \in Ids : order = "issued" /\ StatusApi(t) \in Outcomes /\ ~Superseded(t)
       => StatusApi(t)' = StatusApi(t)]_allVars

\* While writes keep their order and the process does not exit, a receipt that was
\* published for the client gets into the document of its hash, which a later notice may
\* turn to DROPPED but nothing to PENDING, and to the status endpoint unless the mined
\* attempt was superseded.
ReportedIsRecorded ==
  order = "issued" /\ [](restarts = 0)
    => \A t \in Ids : Reported(t) ~>
         /\ \E n \in Documents(t) : OfMinedHash(t, n) /\ documents[t][n].status # "PENDING"
         /\ Superseded(t) \/ StatusApi(t) \in Outcomes

\* While writes keep their order and the process does not exit, once no write of a
\* reported transaction is left the document of its mined hash, made by the controller or
\* by notify, was found by the update of the waiter: it is not PENDING, at most DROPPED by
\* the notice of a replacement; without one the status endpoint has the outcome.
WrittenIsRecorded ==
  order = "issued" /\ restarts = 0 =>
    \A t \in Ids : Reported(t) /\ (\A i \in DOMAIN writes : writes[i].id # t) =>
      /\ \E n \in Documents(t) : OfMinedHash(t, n) /\ documents[t][n].status # "PENDING"
      /\ Superseded(t) \/ StatusApi(t) \in Outcomes

\* transaction-resubmit/index.ts:26, "find the relayer that has initiated the transaction":
\* the endpoint finds it for a transaction with a hash and no resubmission.
ResubmitFindsRelayer ==
  \A t \in Ids : Documents(t) # {} /\ HasHash(t, Newest(t), 1)
    => ResubmitApi(t) \in {"relayer found", "404"}
=============================================================================

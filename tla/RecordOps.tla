------------------------------ MODULE RecordOps ------------------------------
(***************************************************************************)
(* DB.extend() and the record operations of three bindings under it.  Each *)
(* client thread has its own DB object, the records are shared.  RocksDB   *)
(* updates a record by get, merge and put; MongoDB and JDBC by one         *)
(* statement that sets the given fields.  RocksDB and MongoDB return       *)
(* ByteArrayByteIterators, which toString() consumes; JDBC returns         *)
(* StringByteIterators, which it does not.                                 *)
(*                                                                         *)
(* A field value is the sequence of the pieces it was built from, one      *)
(* piece for the value an operation writes or appends.                     *)
(***************************************************************************)
EXTENDS Naturals, Sequences

CONSTANTS
  Clients,         \* the client threads
  Keys,            \* the keys of the table
  Loaded,          \* the keys loaded before the transaction phase
  Absent,          \* no record
  Fields,          \* the fields of a record
  MaxFieldLength,  \* maxfieldlength, in pieces
  Bindings,        \* the bindings considered
  MaxOps           \* BOUND: the operations of a run

ASSUME RecordAssumption ==
  /\ Keys # {} /\ Loaded \subseteq Keys
  /\ Absent \notin [Fields -> Seq(Nat)]
  /\ MaxOps \in Nat
  /\ MaxFieldLength \in Nat /\ MaxFieldLength > 1    \* fieldlength < maxfieldlength
  /\ Bindings \subseteq {"rocksdb", "mongodb", "jdbc"}

VARIABLES
  binding,   \* db
  store,     \* the table: key -> record
  ops,       \* operations begun; the number of each is the piece it writes
  pc,        \* where each client is
  op,        \* its operation: kind, key, fields
  piece,     \* the value it writes or appends
  values,    \* the values map it hands to update() or insert()
  current,   \* what RocksDBClient.update() deserialized
  overtaken  \* history: clients whose record was written since they read it

vars == <<binding, store, ops, pc, op, piece, values, current, overtaken>>

NoValues == [f \in {} |-> <<>>]
NoOp == [kind |-> "none", key |-> CHOOSE k \in Keys : TRUE, fields |-> {}]
Goto(c, to) == pc' = [pc EXCEPT ![c] = to]
Record(c) == store[op[c].key]

\* The definitions marked (wrong) are variants of the definition after them,
\* with which the properties are tested.

Init ==
  /\ binding \in Bindings
  /\ store = [k \in Keys |-> IF k \in Loaded THEN [f \in Fields |-> <<0>>] ELSE Absent]
  /\ ops = 0
  /\ pc = [c \in Clients |-> "idle"]
  /\ op = [c \in Clients |-> NoOp]
  /\ piece = [c \in Clients |-> 0]
  /\ values = [c \in Clients |-> NoValues]
  /\ current = [c \in Clients |-> NoValues]
  /\ overtaken = {}

-----------------------------------------------------------------------------
\* writeallfields, or one random field
FieldChoices == {Fields} \cup {{f} : f \in Fields}

\* doTransactionUpdate, doTransactionExtend: build the values, call the DB.
Begin(c, kind, k, fields) ==
  /\ pc[c] = "idle"
  /\ ops < MaxOps
  /\ ops' = ops + 1
  /\ op' = [op EXCEPT ![c] = [kind |-> kind, key |-> k, fields |-> fields]]
  /\ piece' = [piece EXCEPT ![c] = ops + 1]
  /\ values' = [values EXCEPT ![c] = [f \in fields |-> <<ops + 1>>]]
  /\ overtaken' = overtaken \ {c}
  /\ Goto(c, IF kind = "extend" THEN "read" ELSE kind)
  /\ UNCHANGED <<binding, store, current>>

BeginOp(c) ==
  \E k \in Keys :
    \/ \E fields \in FieldChoices, kind \in {"update", "extend"} : Begin(c, kind, k, fields)
    \* a key of transactioninsertkeysequence: new, and of one client
    \/ /\ store[k] = Absent
       /\ \A d \in Clients : pc[d] = "insert" => op[d].key # k
       /\ Begin(c, "insert", k, Fields)

\* The operation returns.
Return(c) ==
  /\ Goto(c, "idle")
  /\ values' = [values EXCEPT ![c] = NoValues]
  /\ current' = [current EXCEPT ![c] = NoValues]

\* A write of the record, which overtakes the clients that have read it.
Write(c, record) ==
  /\ store' = [store EXCEPT ![op[c].key] = record]
  /\ overtaken' = overtaken \cup
       {d \in Clients \ {c} : /\ op[d].key = op[c].key
                              /\ pc[d] = "put" \/ (pc[d] = "update" /\ op[d].kind = "extend")}
  /\ Return(c)
  /\ UNCHANGED <<binding, ops, op, piece>>

NotFound(c) ==
  /\ Record(c) = Absent
  /\ Return(c)
  /\ UNCHANGED <<binding, store, ops, op, piece, overtaken>>

-----------------------------------------------------------------------------
\* What is left in the iterator of a value after toString().
Leftover(orig) == IF binding = "jdbc" THEN orig ELSE <<>>

UpToTheCap(orig) == Len(orig) + 1 <= MaxFieldLength                \* (wrong)
Fits(orig) == Len(orig) + 1 < MaxFieldLength

Prepended(orig, incr) ==                                           \* (wrong)
  IF Fits(orig) THEN <<incr>> ELSE Leftover(orig)
Extended(orig, incr) ==
  IF Fits(orig) THEN Append(orig, incr) ELSE Leftover(orig)

\* DB.extend(): read() returns OK, and the loop over the fields.
ExtendRead(c) ==
  /\ pc[c] = "read"
  /\ Record(c) # Absent
  /\ values' = [values EXCEPT ![c] = [f \in op[c].fields |-> Extended(Record(c)[f], piece[c])]]
  /\ Goto(c, "update")
  /\ UNCHANGED <<binding, store, ops, op, piece, current, overtaken>>

ExtendNotFound(c) == pc[c] = "read" /\ NotFound(c)

\* result.putAll(values), $set, SET f = ?
GivenOnly(old, new) == new                                         \* (wrong)
Merged(old, new) ==
  [f \in DOMAIN old \cup DOMAIN new |-> IF f \in DOMAIN new THEN new[f] ELSE old[f]]

\* RocksDBClient.update()
UpdateGet(c) ==
  /\ pc[c] = "update" /\ binding = "rocksdb"
  /\ Record(c) # Absent
  /\ current' = [current EXCEPT ![c] = Record(c)]
  /\ Goto(c, "put")
  /\ UNCHANGED <<binding, store, ops, op, piece, values, overtaken>>

UpdatePut(c) ==
  /\ pc[c] = "put"
  /\ Write(c, Merged(current[c], values[c]))

\* MongoDbClient.update(), JdbcDBClient.update()
UpdateStatement(c) ==
  /\ pc[c] = "update" /\ binding # "rocksdb"
  /\ Record(c) # Absent
  /\ Write(c, Merged(Record(c), values[c]))

UpdateNotFound(c) == pc[c] = "update" /\ NotFound(c)

Insert(c) ==
  /\ pc[c] = "insert"
  /\ Write(c, values[c])

Next ==
  \E c \in Clients :
    \/ BeginOp(c)
    \/ ExtendRead(c) \/ ExtendNotFound(c)
    \/ UpdateGet(c) \/ UpdatePut(c) \/ UpdateStatement(c) \/ UpdateNotFound(c)
    \/ Insert(c)

Spec == Init /\ [][Next]_vars

-----------------------------------------------------------------------------
Pieces == 0 .. MaxOps
IsRecord(r) == DOMAIN r \subseteq Fields /\ r \in [DOMAIN r -> Seq(Pieces)]

TypeOK ==
  /\ binding \in Bindings
  /\ \A k \in Keys : store[k] = Absent \/ IsRecord(store[k])
  /\ ops \in 0 .. MaxOps
  /\ pc \in [Clients -> {"idle", "read", "update", "put", "insert"}]
  /\ op \in [Clients -> [kind : {"none", "update", "extend", "insert"}, key : Keys,
                         fields : SUBSET Fields]]
  /\ piece \in [Clients -> Pieces]
  /\ \A c \in Clients : IsRecord(values[c]) /\ IsRecord(current[c])
  /\ overtaken \subseteq Clients

\* A record keeps all of its fields, through merges of values read at different
\* times: what DB.extend() takes from the result of read() is never null.
FieldsComplete == \A k \in Keys : store[k] = Absent \/ DOMAIN store[k] = Fields

\* No interleaving of extends passes maxfieldlength, although the length is
\* checked against a value that may have been extended since.
CapKept ==
  \A k \in Keys : store[k] # Absent =>
    \A f \in DOMAIN store[k] : Len(store[k][f]) < MaxFieldLength

\* The operation of c in one step, on the record as it is now.
Effect(c, old) ==
  Merged(old, [f \in op[c].fields |->
                 IF op[c].kind = "update" THEN <<piece[c]>>
                 ELSE IF Len(old[f]) < MaxFieldLength - 1 THEN old[f] \o <<piece[c]>>
                 ELSE IF binding = "jdbc" THEN old[f] ELSE <<>>])

\* Reading, extending, merging and writing amount to one atomic operation on
\* the record, unless another write came in between.  That never happens to an
\* update of the bindings that write with a single statement.
AtomicUnlessOvertaken ==
  [][\A c \in Clients :
       pc[c] \in {"put", "update"} /\ pc'[c] = "idle" /\ Record(c) # Absent
         => c \in overtaken \/ store' = [store EXCEPT ![op[c].key] = Effect(c, @)]]_vars

-----------------------------------------------------------------------------
\* "Extend fields in the database" (DB.extend): an extend leaves no field
\* shorter than it was.
ExtendKeepsLength ==
  [][\A c \in Clients :
       op[c].kind = "extend" /\ pc[c] # "idle" /\ pc'[c] = "idle" /\ Record(c) # Absent
         => \A f \in op[c].fields : Len(Record(c)'[f]) >= Len(Record(c)[f])]_vars
=============================================================================

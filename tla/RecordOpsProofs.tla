--------------------------- MODULE RecordOpsProofs ---------------------------
(***************************************************************************)
(* Through any number of clients, keys and fields, and each binding: no    *)
(* record loses a field, no field passes maxfieldlength, and an operation  *)
(* that no other write overtakes is atomic.  The inductive invariant adds  *)
(* to the types what an operation carries between its steps: while it is   *)
(* not overtaken, its values are those of the record as it is now.         *)
(***************************************************************************)
EXTENDS RecordOps, SequenceTheorems, TLAPS

-----------------------------------------------------------------------------
(* The inductive invariant                                                 *)

ShortValues == {v \in Seq(Pieces) : Len(v) < MaxFieldLength}
FullRecords == [Fields -> ShortValues]
PartRecords == UNION {[D -> ShortValues] : D \in SUBSET Fields}
PCs == {"idle", "read", "update", "put", "insert"}
Ops == [kind : {"none", "update", "extend", "insert"}, key : Keys, fields : SUBSET Fields]

TypeInv ==
  /\ binding \in Bindings
  /\ store \in [Keys -> FullRecords \cup {Absent}]
  /\ ops \in 0 .. MaxOps
  /\ pc \in [Clients -> PCs]
  /\ op \in [Clients -> Ops]
  /\ piece \in [Clients -> Pieces]
  /\ values \in [Clients -> PartRecords]
  /\ current \in [Clients -> PartRecords]
  /\ overtaken \in SUBSET Clients

KindInv ==
  \A c \in Clients :
    /\ pc[c] = "read" => op[c].kind = "extend"
    /\ pc[c] \in {"update", "put"} => op[c].kind \in {"update", "extend"}
    /\ pc[c] = "insert" => values[c] \in FullRecords
    /\ pc[c] = "put" => current[c] \in FullRecords

\* What an operation on the record old writes into its fields.
NewValues(c, old) ==
  [f \in op[c].fields |-> IF op[c].kind = "update" THEN <<piece[c]>>
                          ELSE Extended(old[f], piece[c])]

CarriedInv ==
  \A c \in Clients :
    /\ pc[c] \in {"update", "put"} /\ op[c].kind = "update" =>
         values[c] = [f \in op[c].fields |-> <<piece[c]>>]
    /\ pc[c] \in {"update", "put"} /\ op[c].kind = "extend" /\ c \notin overtaken =>
         /\ Record(c) \in FullRecords
         /\ values[c] = NewValues(c, Record(c))
    /\ pc[c] = "put" /\ c \notin overtaken => current[c] = Record(c)

IInv == TypeInv /\ KindInv /\ CarriedInv

-----------------------------------------------------------------------------
(* Operators                                                               *)

\* A merge with a part of a record gives a full record.
LEMMA MergedFull ==
  ASSUME NEW old \in FullRecords, NEW new \in PartRecords
  PROVE  Merged(old, new) \in FullRecords
<1>1. PICK D \in SUBSET Fields : new \in [D -> ShortValues]
  BY DEF PartRecords
<1>2. DOMAIN old \cup DOMAIN new = Fields
  BY <1>1 DEF FullRecords
<1>3. \A f \in Fields : (IF f \in DOMAIN new THEN new[f] ELSE old[f]) \in ShortValues
  BY <1>1 DEF FullRecords
<1> QED
  BY <1>2, <1>3 DEF Merged, FullRecords

LEMMA FullIsPart == FullRecords \subseteq PartRecords
BY DEF FullRecords, PartRecords

\* A value of one piece, and none at all, is short.
LEMMA SmallValues ==
  ASSUME NEW n \in Pieces
  PROVE  <<n>> \in ShortValues /\ <<>> \in ShortValues
<1>1. <<n>> \in Seq(Pieces) /\ Len(<<n>>) = 1 /\ <<>> \in Seq(Pieces) /\ Len(<<>>) = 0
  OBVIOUS
<1> QED
  BY <1>1, RecordAssumption DEF ShortValues

\* Extending keeps a value short, and is appending, as long as it fits.
LEMMA ExtendedShort ==
  ASSUME NEW v \in ShortValues, NEW n \in Pieces
  PROVE  /\ Extended(v, n) \in ShortValues
         /\ Extended(v, n) = IF Len(v) < MaxFieldLength - 1 THEN v \o <<n>>
                             ELSE IF binding = "jdbc" THEN v ELSE <<>>
<1>1. v \in Seq(Pieces) /\ Len(v) \in Nat /\ Len(v) < MaxFieldLength
  BY LenProperties DEF ShortValues
<1>2. Fits(v) <=> Len(v) < MaxFieldLength - 1
  BY <1>1, RecordAssumption DEF Fits
<1>3. CASE Fits(v)
  <2>1. Append(v, n) \in Seq(Pieces) /\ Len(Append(v, n)) = Len(v) + 1 /\ Append(v, n) = v \o <<n>>
    BY <1>1, AppendProperties, AppendIsConcat
  <2>2. Extended(v, n) = Append(v, n)
    BY <1>3 DEF Extended
  <2>3. Len(v) + 1 < MaxFieldLength
    BY <1>3 DEF Fits
  <2> QED
    BY <1>2, <1>3, <2>1, <2>2, <2>3 DEF ShortValues
<1>4. CASE ~Fits(v)
  BY <1>2, <1>4, SmallValues DEF Extended, Leftover
<1> QED
  BY <1>3, <1>4

\* The values of an operation on a full record are a part of one.
LEMMA NewValuesPart ==
  ASSUME TypeInv, NEW c \in Clients, NEW old \in FullRecords
  PROVE  NewValues(c, old) \in PartRecords
<1>1. op[c].fields \subseteq Fields /\ piece[c] \in Pieces
  BY DEF TypeInv, Ops
<1>2. \A f \in op[c].fields :
        (IF op[c].kind = "update" THEN <<piece[c]>> ELSE Extended(old[f], piece[c])) \in ShortValues
  <2> SUFFICES ASSUME NEW f \in op[c].fields
               PROVE  /\ <<piece[c]>> \in ShortValues
                      /\ Extended(old[f], piece[c]) \in ShortValues
    OBVIOUS
  <2>1. old[f] \in ShortValues
    BY <1>1 DEF FullRecords
  <2> QED
    BY <1>1, <2>1, SmallValues, ExtendedShort
<1> QED
  BY <1>1, <1>2 DEF NewValues, PartRecords

-----------------------------------------------------------------------------
(* The invariant is inductive                                              *)

LEMMA InitInv == Init => IInv
<1> SUFFICES ASSUME Init PROVE IInv
  OBVIOUS
<1>1. 0 \in Pieces /\ <<0>> \in ShortValues
  BY SmallValues, RecordAssumption DEF Pieces
<1>2. NoValues \in PartRecords
  BY DEF NoValues, PartRecords
<1>3. NoOp \in Ops
  BY RecordAssumption DEF NoOp, Ops
<1>4. TypeInv
  BY <1>1, <1>2, <1>3, RecordAssumption DEF Init, TypeInv, FullRecords, PCs
<1>5. KindInv /\ CarriedInv
  BY DEF Init, KindInv, CarriedInv
<1> QED
  BY <1>4, <1>5 DEF IInv

\* Begin
LEMMA BeginInv ==
  ASSUME IInv, NEW c \in Clients, BeginOp(c)
  PROVE  IInv'
<1> USE DEF IInv
<1>1. PICK k \in Keys, kind \in {"update", "extend", "insert"}, fields \in SUBSET Fields :
        Begin(c, kind, k, fields) /\ (kind = "insert" => fields = Fields)
  BY DEF BeginOp, FieldChoices
<1>2. ops + 1 \in Pieces /\ ops + 1 \in 0 .. MaxOps
  BY <1>1, RecordAssumption DEF Begin, TypeInv, Pieces
<1>3. [f \in fields |-> <<ops + 1>>] \in [fields -> ShortValues]
  BY <1>2, SmallValues
<1>4. [kind |-> kind, key |-> k, fields |-> fields] \in Ops
  BY DEF Ops
<1>5. TypeInv'
  <2>1. [f \in fields |-> <<ops + 1>>] \in PartRecords
    BY <1>3 DEF PartRecords
  <2>2. (IF kind = "extend" THEN "read" ELSE kind) \in PCs
    BY DEF PCs
  <2> QED
    BY <1>1, <1>2, <1>4, <2>1, <2>2 DEF Begin, TypeInv, Goto, Pieces
<1>6. ASSUME NEW d \in Clients, d # c
      PROVE  /\ pc'[d] = pc[d] /\ op'[d] = op[d] /\ piece'[d] = piece[d]
             /\ values'[d] = values[d] /\ current'[d] = current[d]
             /\ (d \in overtaken') = (d \in overtaken)
  BY <1>1, <1>6 DEF Begin, Goto, TypeInv
<1>7. /\ pc'[c] = IF kind = "extend" THEN "read" ELSE kind
      /\ op'[c] = [kind |-> kind, key |-> k, fields |-> fields]
      /\ piece'[c] = ops + 1
      /\ values'[c] = [f \in fields |-> <<ops + 1>>]
  BY <1>1 DEF Begin, Goto, TypeInv
<1>8. KindInv'
  <2>1. kind = "insert" => values'[c] \in FullRecords
    BY <1>1, <1>3, <1>7 DEF FullRecords
  <2> QED
    BY <1>6, <1>7, <2>1 DEF KindInv
<1>9. store' = store /\ binding' = binding
  BY <1>1 DEF Begin
<1>10. CarriedInv'
  <2>1. \A d \in Clients : d # c => Record(d)' = Record(d) /\ NewValues(d, Record(d))' = NewValues(d, Record(d))
    BY <1>6, <1>9 DEF Record, NewValues, Extended, Leftover, Fits
  <2> QED
    BY <1>6, <1>7, <1>9, <2>1 DEF CarriedInv
<1> QED
  BY <1>5, <1>8, <1>10

\* read() or update() finds no record.
LEMMA NotFoundInv ==
  ASSUME IInv, NEW c \in Clients, pc[c] \in {"read", "update"}, NotFound(c)
  PROVE  IInv'
<1> USE DEF IInv
<1>1. NoValues \in PartRecords
  BY DEF NoValues, PartRecords
<1>2. TypeInv'
  BY <1>1 DEF NotFound, Return, Goto, TypeInv, PCs
<1>3. \A d \in Clients : /\ d # c => pc'[d] = pc[d] /\ values'[d] = values[d] /\ current'[d] = current[d]
                         /\ pc'[c] = "idle"
  BY DEF NotFound, Return, Goto, TypeInv
<1>4. KindInv'
  BY <1>3 DEF NotFound, KindInv
<1>5. \A d \in Clients : Record(d)' = Record(d) /\ NewValues(d, Record(d))' = NewValues(d, Record(d))
  BY DEF NotFound, Record, NewValues, Extended, Leftover, Fits
<1>6. CarriedInv'
  BY <1>3, <1>5 DEF NotFound, CarriedInv
<1> QED
  BY <1>2, <1>4, <1>6

\* A record that is not Absent is full.
LEMMA RecordFull ==
  ASSUME TypeInv, NEW c \in Clients, Record(c) # Absent
  PROVE  Record(c) \in FullRecords
BY DEF TypeInv, Record, Ops

\* The read of an extend.
LEMMA ExtendReadInv ==
  ASSUME IInv, NEW c \in Clients, ExtendRead(c)
  PROVE  IInv'
<1> USE DEF IInv
<1>1. Record(c) \in FullRecords
  BY RecordFull DEF ExtendRead
<1>2. op[c].kind = "extend"
  BY DEF ExtendRead, KindInv
<1>3. [f \in op[c].fields |-> Extended(Record(c)[f], piece[c])] = NewValues(c, Record(c))
  BY <1>2 DEF NewValues
<1>4. TypeInv'
  BY <1>1, <1>3, NewValuesPart DEF ExtendRead, Goto, TypeInv, PCs
<1>5. /\ pc'[c] = "update" /\ values'[c] = NewValues(c, Record(c))
      /\ \A d \in Clients : d # c => pc'[d] = pc[d] /\ values'[d] = values[d]
  BY <1>3 DEF ExtendRead, Goto, TypeInv
<1>6. KindInv'
  BY <1>2, <1>5 DEF ExtendRead, KindInv
<1>7. \A d \in Clients : Record(d)' = Record(d) /\ NewValues(d, Record(d))' = NewValues(d, Record(d))
  BY DEF ExtendRead, Record, NewValues, Extended, Leftover, Fits
<1>8. CarriedInv'
  BY <1>1, <1>2, <1>5, <1>7 DEF ExtendRead, CarriedInv
<1> QED
  BY <1>4, <1>6, <1>8

\* RocksDB's get.
LEMMA UpdateGetInv ==
  ASSUME IInv, NEW c \in Clients, UpdateGet(c)
  PROVE  IInv'
<1> USE DEF IInv
<1>1. Record(c) \in FullRecords
  BY RecordFull DEF UpdateGet
<1>2. TypeInv'
  BY <1>1, FullIsPart DEF UpdateGet, Goto, TypeInv, PCs
<1>3. /\ pc[c] = "update" /\ pc'[c] = "put" /\ current'[c] = Record(c)
      /\ \A d \in Clients : d # c => pc'[d] = pc[d] /\ current'[d] = current[d]
  BY DEF UpdateGet, Goto, TypeInv
<1>4. KindInv'
  BY <1>1, <1>3 DEF UpdateGet, KindInv
<1>5. \A d \in Clients : Record(d)' = Record(d) /\ NewValues(d, Record(d))' = NewValues(d, Record(d))
  BY DEF UpdateGet, Record, NewValues, Extended, Leftover, Fits
<1>6. CarriedInv'
  BY <1>3, <1>5 DEF UpdateGet, CarriedInv
<1> QED
  BY <1>2, <1>4, <1>6

\* A write overtakes every operation that has read the record.
LEMMA WriteInv ==
  ASSUME IInv, NEW c \in Clients, NEW r \in FullRecords, Write(c, r)
  PROVE  IInv'
<1> USE DEF IInv
<1>1. NoValues \in PartRecords
  BY ZenonT(60) DEF NoValues, PartRecords
<1>2. TypeInv'
  BY <1>1 DEF Write, Return, Goto, TypeInv, PCs
<1>3. /\ pc'[c] = "idle"
      /\ \A d \in Clients : d # c => pc'[d] = pc[d] /\ values'[d] = values[d] /\ current'[d] = current[d]
  BY DEF Write, Return, Goto, TypeInv
<1>4. op' = op /\ piece' = piece /\ binding' = binding
  BY DEF Write
<1>5. KindInv'
  BY <1>3, <1>4 DEF KindInv
<1>6. ASSUME NEW d \in Clients, d # c, d \notin overtaken', pc[d] \in {"update", "put"},
             op[d].kind = "extend" \/ pc[d] = "put"
      PROVE  d \notin overtaken /\ op[d].key # op[c].key
  BY <1>6 DEF Write
<1>7. ASSUME NEW d \in Clients, op[d].key # op[c].key
      PROVE  Record(d)' = Record(d) /\ NewValues(d, Record(d))' = NewValues(d, Record(d))
  <2>1. Record(d)' = Record(d)
    BY <1>4, <1>7 DEF Write, Record, TypeInv, Ops
  <2> QED
    BY <1>4, <2>1 DEF NewValues, Extended, Leftover, Fits
<1>8. CarriedInv'
  <2> SUFFICES ASSUME NEW d \in Clients, d # c, pc[d] \in {"update", "put"}
               PROVE  /\ op[d].kind = "update" => values[d] = [f \in op[d].fields |-> <<piece[d]>>]
                      /\ op[d].kind = "extend" /\ d \notin overtaken' =>
                           /\ Record(d)' \in FullRecords
                           /\ values[d] = NewValues(d, Record(d))'
                      /\ pc[d] = "put" /\ d \notin overtaken' => current[d] = Record(d)'
    BY <1>3, <1>4 DEF CarriedInv
  <2> QED
    BY <1>6, <1>7 DEF CarriedInv
<1> QED
  BY <1>2, <1>5, <1>8

\* The three writes write full records.
LEMMA WritesFull ==
  ASSUME IInv, NEW c \in Clients
  PROVE  /\ UpdatePut(c) => Merged(current[c], values[c]) \in FullRecords
         /\ UpdateStatement(c) => Merged(Record(c), values[c]) \in FullRecords
         /\ Insert(c) => values[c] \in FullRecords
<1>1. values[c] \in PartRecords
  BY DEF IInv, TypeInv
<1>2. UpdatePut(c) => current[c] \in FullRecords
  BY DEF IInv, KindInv, UpdatePut
<1>3. UpdateStatement(c) => Record(c) \in FullRecords
  BY RecordFull DEF IInv, UpdateStatement
<1>4. Insert(c) => values[c] \in FullRecords
  BY DEF IInv, KindInv, Insert
<1> QED
  BY <1>1, <1>2, <1>3, <1>4, MergedFull

LEMMA StepInv == IInv /\ [Next]_vars => IInv'
<1> SUFFICES ASSUME IInv, [Next]_vars PROVE IInv'
  OBVIOUS
<1>1. CASE UNCHANGED vars
  BY <1>1 DEF vars, IInv, TypeInv, KindInv, CarriedInv, Record, NewValues, Extended, Leftover, Fits
<1>2. CASE Next
  <2> PICK c \in Clients :
        \/ BeginOp(c)
        \/ ExtendRead(c) \/ ExtendNotFound(c)
        \/ UpdateGet(c) \/ UpdatePut(c) \/ UpdateStatement(c) \/ UpdateNotFound(c)
        \/ Insert(c)
    BY <1>2 DEF Next
  <2>1. CASE BeginOp(c)
    BY <2>1, BeginInv
  <2>2. CASE ExtendRead(c)
    BY <2>2, ExtendReadInv
  <2>3. CASE ExtendNotFound(c) \/ UpdateNotFound(c)
    BY <2>3, NotFoundInv DEF ExtendNotFound, UpdateNotFound
  <2>4. CASE UpdateGet(c)
    BY <2>4, UpdateGetInv
  <2>5. CASE UpdatePut(c)
    BY <2>5, WritesFull, WriteInv DEF UpdatePut
  <2>6. CASE UpdateStatement(c)
    BY <2>6, WritesFull, WriteInv DEF UpdateStatement
  <2>7. CASE Insert(c)
    BY <2>7, WritesFull, WriteInv DEF Insert
  <2> QED
    BY <2>1, <2>2, <2>3, <2>4, <2>5, <2>6, <2>7
<1> QED
  BY <1>1, <1>2

LEMMA Inductive == Spec => []IInv
BY InitInv, StepInv, PTL DEF Spec

-----------------------------------------------------------------------------
(* The theorems                                                            *)

\* Every variable keeps its type.
THEOREM TypeCorrect == Spec => []TypeOK
<1>1. IInv => TypeOK
  <2> SUFFICES ASSUME IInv PROVE TypeOK
    OBVIOUS
  <2>1. \A r \in PartRecords : IsRecord(r)
    BY DEF PartRecords, IsRecord, ShortValues
  <2>2. \A r \in FullRecords : IsRecord(r)
    BY <2>1, FullIsPart
  <2>3. \A k \in Keys : store[k] = Absent \/ IsRecord(store[k])
    BY <2>2 DEF IInv, TypeInv
  <2>4. \A c \in Clients : IsRecord(values[c]) /\ IsRecord(current[c])
    BY <2>1 DEF IInv, TypeInv
  <2> QED
    BY <2>3, <2>4 DEF IInv, TypeInv, TypeOK, PCs, Ops
<1> QED
  BY <1>1, Inductive, PTL

\* No merge, of whatever age, loses a field.
THEOREM FieldsCompleteAlways == Spec => []FieldsComplete
<1>1. IInv => FieldsComplete
  BY DEF IInv, TypeInv, FieldsComplete, FullRecords
<1> QED
  BY <1>1, Inductive, PTL

\* No race of extends passes maxfieldlength.
THEOREM CapKeptAlways == Spec => []CapKept
<1>1. IInv => CapKept
  <2> SUFFICES ASSUME IInv, NEW k \in Keys, store[k] # Absent, NEW f \in DOMAIN store[k]
               PROVE  Len(store[k][f]) < MaxFieldLength
    BY DEF CapKept
  <2>1. store[k] \in FullRecords
    BY DEF IInv, TypeInv
  <2>2. store[k][f] \in ShortValues
    BY <2>1 DEF FullRecords
  <2> QED
    BY <2>2 DEF ShortValues
<1> QED
  BY <1>1, Inductive, PTL

\* What an operation carries, when it is not overtaken, is its effect in one step.
LEMMA CarriedIsEffect ==
  ASSUME TypeInv, NEW c \in Clients, NEW old \in FullRecords,
         op[c].kind \in {"update", "extend"}
  PROVE  Merged(old, NewValues(c, old)) = Effect(c, old)
<1>1. op[c].fields \subseteq Fields /\ piece[c] \in Pieces
  BY DEF TypeInv, Ops
<1>2. \A f \in op[c].fields :
        Extended(old[f], piece[c]) =
          IF Len(old[f]) < MaxFieldLength - 1 THEN old[f] \o <<piece[c]>>
          ELSE IF binding = "jdbc" THEN old[f] ELSE <<>>
  BY <1>1, ExtendedShort DEF FullRecords
<1>3. NewValues(c, old) =
        [f \in op[c].fields |->
           IF op[c].kind = "update" THEN <<piece[c]>>
           ELSE IF Len(old[f]) < MaxFieldLength - 1 THEN old[f] \o <<piece[c]>>
           ELSE IF binding = "jdbc" THEN old[f] ELSE <<>>]
  BY <1>2 DEF NewValues
<1> QED
  BY <1>3 DEF Effect

\* An operation that no other write overtakes has its effect in one step,
\* although it reads the record once or twice and writes it later.
THEOREM AtomicAlways == Spec => AtomicUnlessOvertaken
<1>1. ASSUME IInv, [Next]_vars, NEW c \in Clients,
             pc[c] \in {"put", "update"}, pc'[c] = "idle", Record(c) # Absent,
             c \notin overtaken
      PROVE  store' = [store EXCEPT ![op[c].key] = Effect(c, @)]
  <2>1. UpdatePut(c) \/ UpdateStatement(c)
    <3>1. Next
      BY <1>1 DEF vars
    <3>2. PICK d \in Clients :
            \/ BeginOp(d)
            \/ ExtendRead(d) \/ ExtendNotFound(d)
            \/ UpdateGet(d) \/ UpdatePut(d) \/ UpdateStatement(d) \/ UpdateNotFound(d)
            \/ Insert(d)
      BY <3>1 DEF Next
    <3>3. d = c
      BY <1>1, <3>2 DEF BeginOp, Begin, ExtendRead, ExtendNotFound, NotFound, UpdateGet, UpdatePut,
         UpdateStatement, UpdateNotFound, Insert, Write, Return, Goto, IInv, TypeInv
    <3>4. ~BeginOp(c) /\ ~ExtendRead(c) /\ ~ExtendNotFound(c) /\ ~UpdateNotFound(c) /\ ~Insert(c)
      BY <1>1 DEF BeginOp, Begin, ExtendRead, ExtendNotFound, NotFound, UpdateNotFound, Insert
    <3>5. ~UpdateGet(c)
      BY <1>1 DEF UpdateGet, Goto, IInv, TypeInv
    <3> QED
      BY <3>2, <3>3, <3>4, <3>5
  <2>2. Record(c) \in FullRecords /\ op[c].kind \in {"update", "extend"}
    BY <1>1, RecordFull DEF IInv, KindInv
  <2>3. values[c] = NewValues(c, Record(c))
    BY <1>1, <2>2 DEF IInv, CarriedInv, NewValues
  <2>4. Merged(Record(c), values[c]) = Effect(c, Record(c))
    BY <1>1, <2>2, <2>3, CarriedIsEffect DEF IInv
  <2>5. store' = [store EXCEPT ![op[c].key] = Merged(Record(c), values[c])]
    BY <1>1, <2>1 DEF UpdatePut, UpdateStatement, Write, IInv, CarriedInv
  <2> QED
    BY <2>4, <2>5 DEF Record
<1>2. IInv /\ [Next]_vars =>
        [\A c \in Clients :
           pc[c] \in {"put", "update"} /\ pc'[c] = "idle" /\ Record(c) # Absent
             => c \in overtaken \/ store' = [store EXCEPT ![op[c].key] = Effect(c, @)]]_vars
  BY <1>1
<1> QED
  BY <1>2, Inductive, PTL DEF Spec, AtomicUnlessOvertaken
=============================================================================

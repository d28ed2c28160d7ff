-------------------------- MODULE NamedRowsProofs ---------------------------
(***************************************************************************)
(* The safety properties of NamedRows, for any number of names, values,    *)
(* clients, batches and lost transactions.                                 *)
(***************************************************************************)
EXTENDS NamedRows, TLAPS

Requests == Inserts \cup Changes \cup Adds \cup {NoRequest}

(* What the rows of each table are, and which requests reach it. *)
KindsOf(t) == CASE t = "users" -> {"absent", "viewer", "admin"}
                [] t = "assets" -> {"absent", "mutable", "immutable"}
                [] t = "items" -> {"absent", "item"}
OpsOf(t) == CASE t = "users" -> {"none", "insert"}
              [] t = "assets" -> {"none", "insert", "update", "delete"}
              [] t = "items" -> {"none", "add"}

SomeRow == \E n \in Names : Exists(n)

\* A registration that found users adds a viewer, one that found none an admin.
InsertOK(d) ==
    req[d].op = "insert" => /\ req[d].is \in KindsOf(table) \ {"absent"}
                            /\ table = "users" => req[d].is = "admin" \/ SomeRow

\* An update has found its row mutable: if it changes the flag, it sets it.
ChangeOK(d) ==
    /\ req[d].op = "update" /\ "is" \in req[d].columns => req[d].is = "immutable"
    /\ req[d].op = "delete" => req[d].is = "absent"

\* The keys that a batch has passed are committed or inserted.
Passed(d) == \A j \in 1..Len(req[d].batch) :
                j < req[d].next => Exists(req[d].batch[j]) \/ req[d].batch[j] \in req[d].put

AddOK(d) == req[d].op = "add" => req[d].next > 0 /\ (queue = "gone" \/ Passed(d))

RequestOK(d) == req[d].op \in OpsOf(table) /\ InsertOK(d) /\ ChangeOK(d) /\ AddOK(d)

RowsOK ==
    /\ \A n \in Names : row[n].is \in KindsOf(table)
    /\ queue # "absent" => table = "items"

Inv ==
    /\ TypeOK
    /\ RowsOK
    /\ SomeoneIsAdmin
    /\ \A d \in Clients : RequestOK(d)

-----------------------------------------------------------------------------
(* The tables and their kinds. *)
LEMMA KindFacts ==
    ASSUME TypeOK
    PROVE  /\ KindsOf(table) \subseteq Kinds
           /\ table = "users" => KindsOf(table) = {"absent", "viewer", "admin"}
                                 /\ OpsOf(table) = {"none", "insert"}
           /\ table = "assets" => KindsOf(table) = {"absent", "mutable", "immutable"}
                                  /\ OpsOf(table) = {"none", "insert", "update", "delete"}
           /\ table = "items" => KindsOf(table) = {"absent", "item"}
                                 /\ OpsOf(table) = {"none", "add"}
  BY DEF TypeOK, KindsOf, OpsOf, Kinds

(* The kind of a request is known from its op. *)
LEMMA RequestKinds ==
    ASSUME NEW q \in Requests
    PROVE  /\ q.op \in {"none", "insert", "update", "delete", "add"}
           /\ q.op = "none" <=> q = NoRequest
           /\ q.op = "insert" => q \in Inserts
           /\ q.op \in {"update", "delete"} => q \in Changes
           /\ q.op = "add" => q \in Adds
  BY DEF Requests, Inserts, Changes, Adds, NoRequest

(* The tables are empty when the orchestrator is installed. *)
LEMMA InitInv == Init => Inv
<1> SUFFICES ASSUME Init PROVE Inv
  OBVIOUS
<1>1. TypeOK
  BY DEF Init, TypeOK, Row, Kinds
<1>2. RowsOK
  BY <1>1, KindFacts DEF Init, RowsOK, TypeOK
<1>3. SomeoneIsAdmin
  BY DEF Init, SomeoneIsAdmin, Exists
<1>4. ASSUME NEW d \in Clients PROVE RequestOK(d)
  <2>1. req[d].op = "none"
    BY DEF Init, NoRequest
  <2>2. "none" \in OpsOf(table)
    BY <1>1, KindFacts DEF TypeOK
  <2>3. QED
    BY <2>1, <2>2 DEF RequestOK, InsertOK, ChangeOK, AddOK
<1>5. QED
  BY <1>1, <1>2, <1>3, <1>4 DEF Inv

(* Requests under way stay as good as they are when rows appear, when assets go, and when    *)
(* the queue goes with its items.                                                            *)
LEMMA Bystander ==
    ASSUME Inv, NEW d \in Clients,
           req'[d] = req[d], table' = table, queue = "gone" => queue' = "gone",
           \/ \A n \in Names : Exists(n) => Exists(n)'
           \/ table = "assets"
           \/ table = "items" /\ queue' = "gone"
    PROVE  RequestOK(d)'
<1>1. RequestOK(d) /\ TypeOK
  BY DEF Inv
<1>2. req[d] \in Requests
  BY <1>1 DEF TypeOK, Requests
<1>3. (req[d].op \in OpsOf(table))' /\ ChangeOK(d)'
  BY <1>1 DEF RequestOK, ChangeOK
<1>4. InsertOK(d)'
  BY <1>1, <1>2, KindFacts DEF RequestOK, InsertOK, SomeRow
<1>5. AddOK(d)'
  <2> SUFFICES ASSUME req[d].op = "add", queue' # "gone"
               PROVE  req[d].next > 0 /\ Passed(d)'
    BY <1>1 DEF RequestOK, AddOK
  <2>1. req[d] \in Adds /\ req[d].batch \in Seq(Names)
    BY <1>2, RequestKinds, BatchesAssumption DEF Adds
  <2>2. req[d].next > 0 /\ Passed(d) /\ table # "assets"
    BY <1>1, KindFacts DEF RequestOK, AddOK
  <2>3. \A n \in Names : Exists(n) => Exists(n)'
    BY <2>2
  <2>4. QED
    BY <2>1, <2>2, <2>3 DEF Passed
<1>6. QED
  BY <1>3, <1>4, <1>5 DEF RequestOK

(* A client without a request asks for nothing wrong. *)
LEMMA Ended ==
    ASSUME TypeOK, NEW c \in Clients, req' = [req EXCEPT ![c] = NoRequest], table' = table
    PROVE  RequestOK(c)'
<1>1. req'[c].op = "none"
  BY DEF TypeOK, NoRequest
<1>2. "none" \in OpsOf(table)
  BY KindFacts DEF TypeOK
<1>3. QED
  BY <1>1, <1>2 DEF RequestOK, InsertOK, ChangeOK, AddOK

(* A step that changes one request and no row. *)
LEMMA OneRequest ==
    ASSUME Inv, NEW c \in Clients, NEW q \in Requests, req' = [req EXCEPT ![c] = q],
           UNCHANGED <<table, row, queue>>, faults' \in Nat, RequestOK(c)'
    PROVE  Inv'
<1>1. TypeOK'
  BY DEF Inv, TypeOK, Requests
<1>2. RowsOK' /\ SomeoneIsAdmin'
  BY DEF Inv, RowsOK, SomeoneIsAdmin, Exists
<1>3. ASSUME NEW d \in Clients, d # c PROVE RequestOK(d)'
  <2>1. req'[d] = req[d]
    BY <1>3 DEF Inv, TypeOK
  <2>2. \A n \in Names : Exists(n) => Exists(n)'
    BY DEF Exists
  <2>3. QED
    BY <2>1, <2>2, Bystander
<1>4. QED
  BY <1>1, <1>2, <1>3 DEF Inv

(* A request that ends without having written anything. *)
LEMMA NothingWritten ==
    ASSUME Inv, NEW c \in Clients, req' = [req EXCEPT ![c] = NoRequest],
           UNCHANGED <<table, row, queue>>, faults' \in Nat
    PROVE  Inv'
<1>1. RequestOK(c)'
  BY Ended DEF Inv
<1>2. QED
  BY <1>1, OneRequest DEF Requests

(* The requests of users and of assets, as their handlers decide on them. *)
LEMMA AskInv == ASSUME Inv, NEW c \in Clients, Ask(c) PROVE Inv'
<1>1. TypeOK /\ RowsOK
  BY DEF Inv
<1> USE <1>1
<1>2. ASSUME NEW n \in Names, Register(c, n) PROVE Inv'
  <2> DEFINE users == {m \in Names : Exists(m)}
  <2> DEFINE q == [op |-> "insert", name |-> n, is |-> RoleOf(users), value |-> None]
  <2>1. RoleOf(users) \in {"viewer", "admin"} /\ (users # {} => SomeRow)
        /\ (users = {} => RoleOf(users) = "admin")
    BY DEF RoleOf, SomeRow
  <2>2. q \in Requests
    BY <2>1 DEF Requests, Inserts, Kinds
  <2>3. req' = [req EXCEPT ![c] = q] /\ table = "users" /\ UNCHANGED <<table, row, queue, faults>>
    BY <1>2 DEF Register, Begin
  <2>4. req'[c] = q /\ SomeRow' = SomeRow
    BY <2>3 DEF TypeOK, SomeRow, Exists
  <2> HIDE DEF users
  <2>5. RequestOK(c)'
    BY <2>1, <2>3, <2>4, KindFacts DEF RequestOK, InsertOK, ChangeOK, AddOK
  <2> HIDE DEF q
  <2>6. QED
    BY <2>2, <2>3, <2>5, OneRequest DEF TypeOK
<1>3. ASSUME NEW n \in Names, CreateAsset(c, n) PROVE Inv'
  <2>1. PICK is \in {"mutable", "immutable"}, v \in Values :
           Begin(c, [op |-> "insert", name |-> n, is |-> is, value |-> v])
    BY <1>3 DEF CreateAsset
  <2> DEFINE q == [op |-> "insert", name |-> n, is |-> is, value |-> v]
  <2>2. q \in Requests
    BY DEF Requests, Inserts, Kinds
  <2>3. req' = [req EXCEPT ![c] = q] /\ table = "assets" /\ UNCHANGED <<table, row, queue, faults>>
    BY <1>3, <2>1 DEF CreateAsset, Begin
  <2>4. req'[c] = q
    BY <2>3 DEF TypeOK
  <2>5. RequestOK(c)'
    BY <2>3, <2>4, KindFacts DEF RequestOK, InsertOK, ChangeOK, AddOK
  <2> HIDE DEF q
  <2>6. QED
    BY <2>2, <2>3, <2>5, OneRequest DEF TypeOK
<1>4. ASSUME NEW n \in Names, UpdateAsset(c, n) PROVE Inv'
  <2> DEFINE changed(w) == {f \in {"is", "value"} : w[f] # row[n][f]}
  <2>1. PICK is \in {"mutable", "immutable"}, v \in Values :
           Begin(c, [op |-> "update", name |-> n, id |-> row[n].id, is |-> is, value |-> v,
                     columns |-> changed([is |-> is, value |-> v])])
    BY <1>4 DEF UpdateAsset
  <2> DEFINE columns == changed([is |-> is, value |-> v])
  <2> DEFINE q == [op |-> "update", name |-> n, id |-> row[n].id, is |-> is, value |-> v,
                   columns |-> columns]
  <2>2. columns \in SUBSET {"is", "value"} /\ ("is" \in columns => is # row[n].is)
    OBVIOUS
  <2>3. table = "assets" /\ row[n] \in Row /\ row[n].is = "mutable"
    BY <1>4, KindFacts DEF UpdateAsset, Changeable, Exists, RowsOK, TypeOK
  <2>4. req' = [req EXCEPT ![c] = q] /\ UNCHANGED <<table, row, queue, faults>>
    BY <2>1 DEF Begin
  <2> HIDE DEF columns
  <2>5. q \in Requests
    BY <2>2, <2>3 DEF Requests, Changes, Kinds, Row
  <2>6. req'[c] = q
    BY <2>4 DEF TypeOK
  <2>7. RequestOK(c)'
    BY <2>2, <2>3, <2>4, <2>6, KindFacts DEF RequestOK, InsertOK, ChangeOK, AddOK
  <2> HIDE DEF q
  <2>8. QED
    BY <2>4, <2>5, <2>7, OneRequest DEF TypeOK
<1>5. ASSUME NEW n \in Names, DeleteAsset(c, n) PROVE Inv'
  <2> DEFINE q == [op |-> "delete", name |-> n, id |-> row[n].id,
                   is |-> "absent", value |-> None, columns |-> {"is", "value"}]
  <2>1. q \in Requests
    BY DEF Requests, Changes, Kinds, Row, TypeOK
  <2>2. req' = [req EXCEPT ![c] = q] /\ table = "assets" /\ UNCHANGED <<table, row, queue, faults>>
    BY <1>5 DEF DeleteAsset, Begin
  <2>3. req'[c] = q
    BY <2>2 DEF TypeOK
  <2>4. RequestOK(c)'
    BY <2>2, <2>3, KindFacts DEF RequestOK, InsertOK, ChangeOK, AddOK
  <2> HIDE DEF q
  <2>5. QED
    BY <2>1, <2>2, <2>4, OneRequest DEF TypeOK
<1>6. ASSUME NEW b \in Batches, AddBegin(c, b) PROVE Inv'
  <2> DEFINE q == [op |-> "add", batch |-> b, next |-> 1, looked |-> FALSE, put |-> {}]
  <2>1. q \in Requests
    BY DEF Requests, Adds
  <2>2. req' = [req EXCEPT ![c] = q] /\ table = "items" /\ UNCHANGED <<table, row, queue, faults>>
    BY <1>6 DEF AddBegin, Begin
  <2>3. req'[c] = q
    BY <2>2 DEF TypeOK
  <2>4. RequestOK(c)'
    BY <2>2, <2>3, KindFacts DEF RequestOK, InsertOK, ChangeOK, AddOK, Passed
  <2> HIDE DEF q
  <2>5. QED
    BY <2>1, <2>2, <2>4, OneRequest DEF TypeOK
<1>7. QED
  BY <1>2, <1>3, <1>4, <1>5, <1>6 DEF Ask

(* An insert: a first user is an admin, a viewer is not the first. *)
LEMMA InsertInv == ASSUME Inv, NEW c \in Clients, Insert(c) PROVE Inv'
<1> DEFINE n == req[c].name
<1> DEFINE new == [id |-> row[n].id + 1, is |-> req[c].is, value |-> req[c].value]
<1>1. TypeOK /\ RowsOK /\ SomeoneIsAdmin /\ RequestOK(c)
  BY DEF Inv
<1>2. req[c] \in Inserts /\ req' = [req EXCEPT ![c] = NoRequest]
      /\ UNCHANGED <<table, queue, faults>>
  BY <1>1, RequestKinds DEF Insert, End, TypeOK, Requests
<1>3. CASE Exists(n)
  <2>1. row' = row
    BY <1>3 DEF Insert
  <2>2. QED
    BY <1>1, <1>2, <2>1, NothingWritten DEF TypeOK
<1>4. CASE ~Exists(n)
  <2>1. row' = [row EXCEPT ![n] = new] /\ n \in Names
    BY <1>2, <1>4 DEF Insert, Inserts
  <2>2. new \in Row /\ new.is \in KindsOf(table) \ {"absent"}
        /\ (table = "users" => new.is = "admin" \/ SomeRow)
    BY <1>1, <1>2, <2>1 DEF TypeOK, Row, RequestOK, InsertOK, Inserts, RowsOK
  <2> HIDE DEF new, n
  <2>3. \A m \in Names : Exists(m) => row'[m] = row[m] /\ Exists(m)'
    BY <1>1, <1>4, <2>1 DEF Exists, TypeOK
  <2>4. TypeOK'
    BY <1>1, <1>2, <2>1, <2>2 DEF TypeOK
  <2>5. RowsOK'
    BY <1>1, <1>2, <2>1, <2>2 DEF RowsOK, TypeOK
  <2>6. SomeoneIsAdmin'
    <3>1. CASE SomeRow
      BY <1>1, <1>2, <2>3, <3>1 DEF SomeoneIsAdmin, SomeRow, Exists
    <3>2. CASE ~SomeRow
      BY <1>1, <1>2, <2>1, <2>2, <3>2 DEF SomeoneIsAdmin, TypeOK
    <3>3. QED
      BY <3>1, <3>2
  <2>7. ASSUME NEW d \in Clients PROVE RequestOK(d)'
    <3>1. CASE d = c
      BY <1>1, <1>2, <3>1, Ended
    <3>2. CASE d # c
      <4>1. req'[d] = req[d]
        BY <1>1, <1>2, <3>2 DEF TypeOK
      <4>2. QED
        BY <1>2, <2>3, <4>1, Bystander
    <3>3. QED
      BY <3>1, <3>2
  <2>8. QED
    BY <2>4, <2>5, <2>6, <2>7 DEF Inv
<1>5. QED
  BY <1>3, <1>4

(* A change reaches assets only. *)
LEMMA ChangeFacts ==
    ASSUME Inv, NEW c \in Clients, Change(c)
    PROVE  /\ req[c] \in Changes /\ table = "assets"
           /\ req' = [req EXCEPT ![c] = NoRequest] /\ UNCHANGED <<table, queue, faults>>
           /\ \/ row' = row
              \/ row' = [row EXCEPT ![req[c].name] = Changed(row[req[c].name], req[c])]
           /\ \A old \in Row : Changed(old, req[c]) \in Row
<1>1. req[c] \in Changes
  BY RequestKinds DEF Change, Inv, TypeOK, Requests
<1>2. table = "assets"
  BY KindFacts DEF Change, Inv, TypeOK, RequestOK
<1>3. \A old \in Row : Changed(old, req[c]) \in Row
  BY <1>1 DEF Changed, Row, Changes
<1>4. QED
  BY <1>1, <1>2, <1>3 DEF Change, End

(* A change of an asset. *)
LEMMA ChangeInv == ASSUME Inv, NEW c \in Clients, Change(c) PROVE Inv'
<1> DEFINE n == req[c].name
<1>1. TypeOK /\ RowsOK
  BY DEF Inv
<1>2. TypeOK'
  BY <1>1, ChangeFacts DEF TypeOK, Changes
<1>3. n \in Names /\ row[n] \in Row /\ row[n].is \in KindsOf("assets")
  BY <1>1, ChangeFacts DEF Changes, TypeOK, RowsOK
<1>4. Changed(row[n], req[c]).is \in KindsOf("assets")
  <2>1. req[c].op \in {"update", "delete"} /\ ChangeOK(c)
    BY ChangeFacts DEF Changes, Inv, RequestOK
  <2>2. QED
    BY <1>1, <1>3, <2>1, ChangeFacts, KindFacts DEF Changed, Row, ChangeOK
<1>5. RowsOK'
  BY <1>1, <1>3, <1>4, ChangeFacts DEF RowsOK, TypeOK
<1>6. SomeoneIsAdmin'
  BY ChangeFacts DEF SomeoneIsAdmin
<1>7. ASSUME NEW d \in Clients PROVE RequestOK(d)'
  <2>1. CASE d = c
    BY <1>1, <2>1, ChangeFacts, Ended
  <2>2. CASE d # c
    BY <1>1, <2>2, ChangeFacts, Bystander DEF TypeOK
  <2>3. QED
    BY <2>1, <2>2
<1>8. QED
  BY <1>2, <1>5, <1>6, <1>7 DEF Inv

(* The statements of a batch. *)
LEMMA AddFacts ==
    ASSUME Inv, NEW c \in Clients, req[c].op = "add"
    PROVE  /\ req[c] \in Adds /\ table = "items" /\ req[c].batch \in Seq(Names)
           /\ req[c].next > 0 /\ (queue = "gone" \/ Passed(c))
           /\ Adding(c) => Key(c) \in Names
<1>1. req[c] \in Adds /\ table = "items"
  BY RequestKinds, KindFacts DEF Inv, TypeOK, Requests, RequestOK
<1>2. req[c].batch \in Seq(Names) /\ req[c].next \in Nat
  BY <1>1, BatchesAssumption DEF Adds
<1>3. req[c].next > 0 /\ (queue = "gone" \/ Passed(c))
  BY DEF Inv, RequestOK, AddOK
<1>4. QED
  BY <1>1, <1>2, <1>3 DEF Adding, Key

(* A key that is passed over, or inserted, is committed or inserted. *)
LEMMA AddStepInv ==
    ASSUME Inv, NEW c \in Clients, AddLook(c) \/ AddInsert(c)
    PROVE  Inv'
<1> DEFINE q == req'[c]
<1>1. req[c].op = "add" /\ Adding(c) /\ UNCHANGED <<table, row, queue, faults>>
  BY DEF AddLook, AddInsert, Adding
<1>2. req[c] \in Adds /\ table = "items" /\ req[c].batch \in Seq(Names) /\ Key(c) \in Names
  BY <1>1, AddFacts
<1>3. TypeOK /\ req \in [Clients -> Requests]
  BY DEF Inv, TypeOK, Requests
<1> DEFINE old == req[c]
<1>4. \/ Found(c, Key(c)) /\ q = [old EXCEPT !.next = old.next + 1]
      \/ q = [old EXCEPT !.looked = TRUE]
      \/ q = [old EXCEPT !.put = old.put \cup {Key(c)}, !.looked = FALSE, !.next = old.next + 1]
  <2>1. CASE AddLook(c)
    BY <1>3, <2>1 DEF AddLook
  <2>2. CASE AddInsert(c)
    BY <1>3, <2>2 DEF AddInsert
  <2>3. QED
    BY <2>1, <2>2
<1>5. req' = [req EXCEPT ![c] = q]
  BY <1>3 DEF AddLook, AddInsert
<1> HIDE DEF q
<1>6. /\ q \in Adds /\ q.op = "add" /\ q.batch = req[c].batch /\ q.next \in Nat /\ q.next > 0
      /\ req[c].put \subseteq q.put
      /\ \/ q.next = req[c].next
         \/ q.next = req[c].next + 1 /\ (Exists(Key(c)) \/ Key(c) \in q.put)
  <2>1. old.next > 0
    BY <1>1, AddFacts
  <2>2. q \in Adds
    <3>1. old.next + 1 \in Nat /\ old.put \cup {Key(c)} \in SUBSET Names
      BY <1>2 DEF Adds
    <3>2. [old EXCEPT !.next = old.next + 1] \in Adds
      BY <1>2, <3>1 DEF Adds
    <3>3. [old EXCEPT !.looked = TRUE] \in Adds
      BY <1>2 DEF Adds
    <3>4. [old EXCEPT !.put = old.put \cup {Key(c)}, !.looked = FALSE, !.next = old.next + 1]
             \in Adds
      BY <1>2, <3>1 DEF Adds
    <3>5. QED
      BY <1>4, <3>2, <3>3, <3>4
  <2>3. QED
    <3>1. DOMAIN old = {"op", "batch", "next", "looked", "put"} /\ old.next \in Nat
      BY <1>2 DEF Adds
    <3>2. /\ q.op = "add" /\ q.batch = old.batch /\ old.put \subseteq q.put
          /\ \/ q.next = old.next
             \/ q.next = old.next + 1 /\ (Found(c, Key(c)) \/ Key(c) \in q.put)
      BY <1>1, <1>2, <1>4 DEF Adds
    <3>3. QED
      BY <1>1, <2>1, <2>2, <3>1, <3>2 DEF Found, Put
<1>7. queue = "gone" \/ Passed(c)'
  <2> SUFFICES ASSUME queue # "gone", NEW j \in 1..Len(q.batch), j < q.next
               PROVE  Exists(q.batch[j]) \/ q.batch[j] \in q.put
    BY <1>1 DEF Passed, q, Exists
  <2>1. CASE j < req[c].next
    BY <1>1, <1>6, <2>1, AddFacts DEF Passed
  <2>2. CASE ~(j < req[c].next)
    <3>1. j = req[c].next
      BY <1>2, <1>6, <2>2 DEF Adds
    <3>2. QED
      BY <1>6, <2>2, <3>1 DEF Key
  <2>3. QED
    BY <2>1, <2>2
<1>8. RequestOK(c)'
  BY <1>1, <1>2, <1>3, <1>5, <1>6, <1>7, KindFacts
     DEF RequestOK, InsertOK, ChangeOK, AddOK, q
<1>9. QED
  BY <1>1, <1>3, <1>5, <1>6, <1>8, OneRequest DEF Requests, TypeOK

(* A commit makes the inserted keys of a batch visible. *)
LEMMA AddCommitInv == ASSUME Inv, NEW c \in Clients, AddCommit(c) PROVE Inv'
<1>1. /\ req[c].op = "add" /\ req' = [req EXCEPT ![c] = NoRequest]
      /\ UNCHANGED <<table, queue, faults>>
      /\ row' = [n \in Names |-> IF n \in Put(c) THEN [row[n] EXCEPT !.is = "item"] ELSE row[n]]
  BY DEF AddCommit, End
<1>2. table = "items" /\ TypeOK /\ RowsOK /\ "item" \in KindsOf(table)
  BY <1>1, AddFacts, KindFacts DEF Inv
<1>3. ASSUME NEW n \in Names
      PROVE  row'[n] \in Row /\ row'[n].is \in KindsOf(table) /\ (Exists(n) => Exists(n)')
  BY <1>1, <1>2 DEF TypeOK, RowsOK, Row, Kinds, Exists
<1>4. TypeOK' /\ RowsOK' /\ SomeoneIsAdmin'
  BY <1>1, <1>2, <1>3 DEF TypeOK, RowsOK, SomeoneIsAdmin
<1>5. ASSUME NEW d \in Clients PROVE RequestOK(d)'
  <2>1. CASE d = c
    BY <1>1, <1>2, <2>1, Ended
  <2>2. CASE d # c
    BY <1>1, <1>2, <1>3, <2>2, Bystander DEF TypeOK
  <2>3. QED
    BY <2>1, <2>2
<1>6. QED
  BY <1>4, <1>5 DEF Inv

(* The queue and its items. *)
LEMMA QueueInv == ASSUME Inv, CreateQueue \/ DeleteQueue PROVE Inv'
<1>1. /\ table = "items" /\ UNCHANGED <<table, req, faults>> /\ TypeOK /\ RowsOK
      /\ \/ queue = "absent" /\ queue' = "there" /\ row' = row
         \/ queue = "there" /\ queue' = "gone"
            /\ row' = [n \in Names |-> [row[n] EXCEPT !.is = "absent"]]
  BY DEF CreateQueue, DeleteQueue, Inv, RowsOK
<1>2. "absent" \in KindsOf(table)
  BY <1>1, KindFacts
<1>3. TypeOK' /\ RowsOK' /\ SomeoneIsAdmin'
  BY <1>1, <1>2 DEF TypeOK, RowsOK, SomeoneIsAdmin, Row, Kinds
<1>4. ASSUME NEW d \in Clients PROVE RequestOK(d)'
  BY <1>1, Bystander DEF Exists
<1>5. QED
  BY <1>3, <1>4 DEF Inv

(* Every step keeps the invariant. *)
LEMMA NextInv == Inv /\ [Next]_vars => Inv'
<1> SUFFICES ASSUME Inv, [Next]_vars PROVE Inv'
  OBVIOUS
<1>1. ASSUME NEW c \in Clients, AddLost(c) \/ AddDeadlock(c) \/ Rollback(c) PROVE Inv'
  BY <1>1, NothingWritten DEF AddLost, AddDeadlock, Rollback, End, Inv, TypeOK
<1>2. ASSUME NEW c \in Clients, Add(c) PROVE Inv'
  BY <1>1, <1>2, AddStepInv, AddCommitInv DEF Add
<1>3. CASE UNCHANGED vars
  BY <1>3 DEF vars, Inv, TypeOK, RowsOK, SomeoneIsAdmin, RequestOK, InsertOK, ChangeOK, AddOK,
              SomeRow, Passed, Exists
<1>4. QED
  BY <1>1, <1>2, <1>3, AskInv, InsertInv, ChangeInv, QueueInv DEF Next

LEMMA Invariance == Spec => []Inv
<1>1. QED
  BY InitInv, NextInv, PTL DEF Spec

-----------------------------------------------------------------------------
(* Each column holds values of its type, and each request is one of a kind the handlers      *)
(* serve.                                                                                    *)
THEOREM TypeCorrect == Spec => []TypeOK
<1>1. Inv => TypeOK
  BY DEF Inv
<1>2. QED
  BY <1>1, Invariance, PTL

(* Whatever registrations race, and whichever of them fail, somebody is admin as soon as     *)
(* there are users: a viewer is only inserted after another user was there, and no row of    *)
(* users goes.                                                                               *)
THEOREM AdminExists == Spec => []SomeoneIsAdmin
<1>1. Inv => SomeoneIsAdmin
  BY DEF Inv
<1>2. QED
  BY <1>1, Invariance, PTL

(* What one step does to a row that is immutable. *)
LEMMA ImmutableRow ==
    ASSUME Inv, [Next]_vars, NEW n \in Names, row[n].is = "immutable"
    PROVE  /\ table = "assets"
           /\ \/ row'[n] = row[n]
              \/ \E c \in Clients : /\ Change(c) /\ req[c].name = n
                                    /\ row'[n] = Changed(row[n], req[c])
<1>1. TypeOK /\ table = "assets" /\ Exists(n)
  BY KindFacts DEF Inv, TypeOK, RowsOK, Exists
<1>2. ASSUME NEW c \in Clients, Insert(c) PROVE row'[n] = row[n]
  BY <1>1, <1>2 DEF Insert, TypeOK
<1>3. ASSUME NEW c \in Clients, Change(c)
      PROVE  row'[n] = row[n] \/ (req[c].name = n /\ row'[n] = Changed(row[n], req[c]))
  BY <1>1, <1>3, ChangeFacts DEF TypeOK, Changes
<1>4. ASSUME NEW c \in Clients, Add(c) PROVE row' = row
  <2>1. req[c].op # "add"
    BY <1>1, AddFacts
  <2>2. CASE AddDeadlock(c)
    BY <2>2 DEF AddDeadlock
  <2>3. QED
    BY <1>4, <2>1, <2>2 DEF Add, AddLook, AddInsert, AddLost, AddCommit, Adding
<1>5. ASSUME NEW c \in Clients, Ask(c) \/ Rollback(c) PROVE row' = row
  BY <1>5 DEF Ask, Register, CreateAsset, UpdateAsset, DeleteAsset, AddBegin, Begin, Rollback
<1>6. ~CreateQueue /\ ~DeleteQueue
  BY <1>1 DEF CreateQueue, DeleteQueue, Inv, RowsOK
<1>7. CASE UNCHANGED vars
  BY <1>1, <1>7 DEF vars
<1>8. QED
  BY <1>1, <1>2, <1>3, <1>4, <1>5, <1>6, <1>7 DEF Next

(* An asset that has been locked stays locked until its row goes, also under updates that    *)
(* were decided before: those write the flag only if they set it.                            *)
THEOREM LocksHold == Spec => LockIsForGood
<1> DEFINE A == \A n \in Names : row[n].is = "immutable" => row'[n].is \in {"immutable", "absent"}
<1>1. Inv /\ [Next]_vars => [A]_vars
  <2> SUFFICES ASSUME Inv, [Next]_vars, NEW n \in Names, row[n].is = "immutable"
               PROVE  row'[n].is \in {"immutable", "absent"}
    OBVIOUS
  <2>1. CASE row'[n] = row[n]
    BY <2>1
  <2>2. ASSUME NEW c \in Clients, Change(c), row'[n] = Changed(row[n], req[c])
        PROVE  row'[n].is \in {"immutable", "absent"}
    <3>1. row[n] \in Row /\ ChangeOK(c) /\ req[c].op \in {"update", "delete"}
      BY <2>2, ChangeFacts DEF Changes, Inv, TypeOK, RequestOK
    <3>2. Changed(row[n], req[c]).is \in {"immutable", "absent"}
      BY <3>1 DEF Changed, Row, ChangeOK
    <3>3. QED
      BY <2>2, <3>2
  <2>3. QED
    BY <2>1, <2>2, ImmutableRow
<1>2. QED
  BY <1>1, Invariance, PTL DEF Spec, LockIsForGood, A

(* Once the requests that had loaded an asset before it was locked are gone, nothing changes *)
(* it any more.                                                                              *)
THEOREM SealsHold == Spec => SealedForGood
<1> DEFINE A == \A n \in Names : Sealed(n) => Sealed(n)' /\ row'[n] = row[n]
<1>1. Inv /\ [Next]_vars => [A]_vars
  <2> SUFFICES ASSUME Inv, [Next]_vars, NEW n \in Names, Sealed(n)
               PROVE  Sealed(n)' /\ row'[n] = row[n]
    OBVIOUS
  <2>1. row'[n] = row[n]
    BY ImmutableRow DEF Sealed, Change
  <2>2. ASSUME NEW c \in Clients, req'[c].op \in {"update", "delete"}, req'[c].name = n
        PROVE  FALSE
    <3>1. req'[c] # req[c]
      BY <2>2 DEF Sealed
    <3>2. table = "assets" /\ TypeOK
      BY ImmutableRow DEF Sealed, Inv
    <3>3. ASSUME NEW d \in Clients, Insert(d) \/ Change(d) \/ Rollback(d) \/ AddLost(d)
                                    \/ AddDeadlock(d) \/ AddCommit(d)
          PROVE  FALSE
      <4>1. req' = [req EXCEPT ![d] = NoRequest]
        BY <3>3 DEF Insert, Change, Rollback, AddLost, AddDeadlock, AddCommit, End
      <4>2. QED
        BY <2>2, <3>1, <3>2, <4>1 DEF TypeOK, NoRequest
    <3>4. ASSUME NEW d \in Clients, AddLook(d) \/ AddInsert(d) PROVE FALSE
      BY <3>2, <3>4, AddFacts DEF AddLook, AddInsert, Adding
    <3>5. ASSUME NEW d \in Clients, Ask(d) PROVE FALSE
      <4>1. \A m \in Names : ~Register(d, m) /\ \A b \in Batches : ~AddBegin(d, b)
        BY <3>2 DEF Register, AddBegin
      <4>2. ASSUME NEW m \in Names, CreateAsset(d, m) PROVE FALSE
        BY <2>2, <3>1, <3>2, <4>2 DEF CreateAsset, Begin, TypeOK
      <4>3. ASSUME NEW m \in Names, UpdateAsset(d, m) \/ DeleteAsset(d, m) PROVE FALSE
        <5>1. m # n
          BY <4>3 DEF UpdateAsset, DeleteAsset, Changeable, Sealed
        <5>2. \E q : q.name = m /\ Begin(d, q)
          <6>1. CASE DeleteAsset(d, m)
            BY <6>1 DEF DeleteAsset
          <6>2. CASE UpdateAsset(d, m)
            BY <6>2 DEF UpdateAsset
          <6>3. QED
            BY <4>3, <6>1, <6>2
        <5>3. QED
          BY <2>2, <3>1, <3>2, <5>1, <5>2 DEF Begin, TypeOK
      <4>4. QED
        BY <3>5, <4>1, <4>2, <4>3 DEF Ask
    <3>6. QED
      BY <3>1, <3>3, <3>4, <3>5 DEF Next, Add, CreateQueue, DeleteQueue, vars
  <2>3. QED
    BY <2>1, <2>2 DEF Sealed
<1>2. QED
  BY <1>1, Invariance, PTL DEF Spec, SealedForGood, A

(* A batch that commits is committed as a whole: a key that it has passed was committed then *)
(* and goes only with the queue, or is among those it has inserted.                          *)
THEOREM BatchesCommitWhole == Spec => BatchesAreAtomic
<1> DEFINE A == \A c \in Clients : AddCommit(c) =>
                   queue = "gone" \/ \A k \in Range(req[c].batch) : row'[k].is = "item"
<1>1. Inv /\ [Next]_vars => [A]_vars
  <2> SUFFICES ASSUME Inv, NEW c \in Clients, AddCommit(c), queue # "gone",
                      NEW k \in Range(req[c].batch)
               PROVE  row'[k].is = "item"
    OBVIOUS
  <2>1. req[c].op = "add" /\ ~Adding(c)
    BY DEF AddCommit
  <2>2. req[c] \in Adds /\ table = "items" /\ req[c].batch \in Seq(Names) /\ Passed(c)
    BY <2>1, AddFacts
  <2>3. PICK j \in 1..Len(req[c].batch) : k = req[c].batch[j]
    BY <2>2 DEF Range
  <2>4. Exists(k) \/ k \in req[c].put
    BY <2>1, <2>2, <2>3 DEF Adding, Passed, Adds
  <2>5. k \in Names /\ row[k] \in Row /\ row[k].is \in {"absent", "item"}
    BY <2>2, <2>3, KindFacts DEF Inv, TypeOK, RowsOK
  <2>6. QED
    BY <2>1, <2>4, <2>5 DEF AddCommit, Put, Exists, Row
<1>2. QED
  BY <1>1, Invariance, PTL DEF Spec, BatchesAreAtomic, A
=============================================================================

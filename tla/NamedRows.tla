----------------------------- MODULE NamedRows ------------------------------
(***************************************************************************)
(* The tables whose rows are found by a name under a unique constraint:    *)
(* users by e-mail (routes/auth.py), assets by name (routes/assets.py),    *)
(* and the items of one queue by idempotency key (routes/queues.py).       *)
(*                                                                         *)
(* A handler looks without a lock, decides, and writes later; when names   *)
(* collide the database lets the second writer wait and then fail.         *)
(* Handlers that write one row and commit are two steps: look and write.   *)
(* A batch of items keeps its inserted rows locked from the first insert   *)
(* to the commit, so each of its statements is a step.                     *)
(*                                                                         *)
(* These tables do not refer to each other: a behaviour is about one.      *)
(***************************************************************************)
EXTENDS Integers, FiniteSets, Sequences, Functions

CONSTANTS
    Names,        \* e-mails, names of assets, idempotency keys
    Values,       \* values of assets
    Clients,      \* requests that are served at the same time
    Batches,      \* sequences of idempotency keys that clients send
    Open,         \* REGISTRATION_OPEN
    MaxRows,      \* assets are created until their names have had this many rows
    MaxFaults,    \* bound on transactions that are lost
    None          \* no request, no value

ASSUME BatchesAssumption == Batches \subseteq Seq(Names)
ASSUME OpenAssumption == Open \in BOOLEAN
ASSUME BoundsAssumption == MaxRows \in Nat /\ MaxFaults \in Nat
ASSUME NoneAssumption == None \notin Names \cup Values

VARIABLES
    table,   \* what this behaviour is about
    row,     \* the committed row of each name
    queue,   \* the row of the queue of the items
    req,     \* the request that each client has sent
    faults   \* transactions lost so far

vars == <<table, row, queue, req, faults>>

-----------------------------------------------------------------------------
\* id: the row that the name stands for, among all that have had it.
\* is: the role of a user, whether an asset is immutable, or that the item exists.
Kinds == {"absent", "viewer", "admin", "mutable", "immutable", "item"}
Row == [id : Nat, is : Kinds, value : Values \cup {None}]

\* id, want: the row as loaded and the columns as asked for; columns: those that differ.
\* next, looked, put: how far a batch is, whether the SELECT of its next key has missed,
\* the keys that it has inserted.
Inserts == [op : {"insert"}, name : Names, is : Kinds, value : Values \cup {None}]
Changes == [op : {"update", "delete"}, name : Names, id : Nat,
            is : Kinds, value : Values \cup {None}, columns : SUBSET {"is", "value"}]
Adds    == [op : {"add"}, batch : Batches, next : Nat, looked : BOOLEAN, put : SUBSET Names]
NoRequest == [op |-> "none"]

TypeOK ==
    /\ table \in {"users", "assets", "items"}
    /\ row \in [Names -> Row]
    /\ queue \in {"absent", "there", "gone"}
    /\ req \in [Clients -> Inserts \cup Changes \cup Adds \cup {NoRequest}]
    /\ faults \in Nat

Init ==
    /\ table \in {"users", "assets", "items"}
    /\ row = [n \in Names |-> [id |-> 0, is |-> "absent", value |-> None]]
    /\ queue = "absent"
    /\ req = [c \in Clients |-> NoRequest]
    /\ faults = 0

Exists(n) == row[n].is # "absent"

Begin(c, request) ==
    /\ req[c] = NoRequest
    /\ req' = [req EXCEPT ![c] = request]
    /\ UNCHANGED <<table, row, queue, faults>>

\* The response: the transaction is committed, rolled back, or has changed nothing.
End(c) ==
    /\ req' = [req EXCEPT ![c] = NoRequest]
    /\ UNCHANGED <<table, faults>>

-----------------------------------------------------------------------------
(* POST /auth/register, POST /assets *)

\* Mutant of RoleOf: the user who registers is taken to be counted already.
RoleOfOthers(users) == IF Cardinality(users) = 1 THEN "admin" ELSE "viewer"

RoleOf(users) == IF users = {} THEN "admin" ELSE "viewer"

Register(c, n) ==
    LET users == {m \in Names : Exists(m)} IN
    /\ table = "users"
    /\ users # {} => Open
    /\ Begin(c, [op |-> "insert", name |-> n, is |-> RoleOf(users), value |-> None])

CreateAsset(c, n) ==
    /\ table = "assets"
    /\ ~Exists(n) /\ row[n].id < MaxRows
    /\ \E is \in {"mutable", "immutable"}, v \in Values :
          Begin(c, [op |-> "insert", name |-> n, is |-> is, value |-> v])

\* The row of a user comes with the first refresh token in one transaction.
Insert(c) ==
    LET n == req[c].name IN
    /\ req[c].op = "insert"
    /\ IF Exists(n) THEN UNCHANGED row      \* IntegrityError: 400, 409
       ELSE row' = [row EXCEPT ![n] = [id |-> @.id + 1, is |-> req[c].is, value |-> req[c].value]]
    /\ End(c)
    /\ UNCHANGED queue

-----------------------------------------------------------------------------
(* PATCH and DELETE /assets/{name} *)

\* Mutant of Changeable: nobody looks at the flag.
ChangeableAlways(n) == Exists(n)

Changeable(n) == Exists(n) /\ row[n].is # "immutable"

\* The session writes only the columns whose values have changed since it loaded them.
UpdateAsset(c, n) ==
    /\ table = "assets"
    /\ Changeable(n)
    /\ \E is \in {"mutable", "immutable"}, v \in Values :
          LET want == [is |-> is, value |-> v]
              changed == {f \in {"is", "value"} : want[f] # row[n][f]}
          IN /\ changed # {}
             /\ Begin(c, [op |-> "update", name |-> n, id |-> row[n].id,
                          is |-> is, value |-> v, columns |-> changed])

DeleteAsset(c, n) ==
    /\ table = "assets"
    /\ Changeable(n)
    /\ Begin(c, [op |-> "delete", name |-> n, id |-> row[n].id,
                 is |-> "absent", value |-> None, columns |-> {"is", "value"}])

\* Mutants of Changed: fields that were left out are written as NULL; an update writes every
\* column.
ChangedToNull(old, q) ==
    [old EXCEPT !.is = IF "is" \in q.columns THEN q.is ELSE None,
                !.value = IF "value" \in q.columns THEN q.value ELSE None]
ChangedWholly(old, q) == [old EXCEPT !.is = q.is, !.value = q.value]

Changed(old, q) ==
    [old EXCEPT !.is = IF "is" \in q.columns THEN q.is ELSE @,
                !.value = IF "value" \in q.columns THEN q.value ELSE @]

\* By primary key, whatever the row has become; nothing if it is gone, even when its name is
\* back (an update then ends with an error).
Change(c) ==
    LET n == req[c].name IN
    /\ req[c].op \in {"update", "delete"}
    /\ row' = IF Exists(n) /\ row[n].id = req[c].id
              THEN [row EXCEPT ![n] = Changed(@, req[c])] ELSE row
    /\ End(c)
    /\ UNCHANGED queue

-----------------------------------------------------------------------------
(* POST and DELETE /queues, POST /queues/{name}/items *)

\* Whoever finds the queue there, or loses the race for its name, returns it as it is.
CreateQueue ==
    /\ table = "items"
    /\ queue = "absent"
    /\ queue' = "there"
    /\ UNCHANGED <<table, row, req, faults>>

AddBegin(c, b) ==
    /\ table = "items"
    /\ queue = "there"
    /\ Begin(c, [op |-> "add", batch |-> b, next |-> 1, looked |-> FALSE, put |-> {}])

Adding(c) == req[c].op = "add" /\ req[c].next <= Len(req[c].batch)

Key(c) == req[c].batch[req[c].next]

\* The keys that a transaction has inserted and not committed.
Put(c) == IF req[c].op = "add" THEN req[c].put ELSE {}

\* Mutant of Found: the SELECT does not see what other requests have committed.
FoundOwn(c, k) == k \in Put(c)

Found(c, k) == Exists(k) \/ k \in Put(c)

\* The SELECT for one key: a row that is there is returned, and the next key is looked up.
AddLook(c) ==
    /\ Adding(c) /\ ~req[c].looked
    /\ req' = IF Found(c, Key(c)) THEN [req EXCEPT ![c].next = @ + 1]
                                  ELSE [req EXCEPT ![c].looked = TRUE]
    /\ UNCHANGED <<table, row, queue, faults>>

\* The INSERT waits for another transaction that has inserted the same key.
WaitsFor(c, d) == Adding(c) /\ req[c].looked /\ Key(c) \in Put(d) /\ d # c

AddInsert(c) ==
    /\ Adding(c) /\ req[c].looked
    /\ \A d \in Clients : ~WaitsFor(c, d)
    /\ ~Exists(Key(c)) /\ queue = "there"
    /\ req' = [req EXCEPT ![c].put = @ \cup {Key(c)}, ![c].looked = FALSE, ![c].next = @ + 1]
    /\ UNCHANGED <<table, row, queue, faults>>

\* Mutant of AddLost: the savepoint is rolled back, with the inserts before it, and the
\* batch goes on.
AddLostGoesOn(c) ==
    /\ Adding(c) /\ req[c].looked
    /\ Exists(Key(c))
    /\ req' = [req EXCEPT ![c].put = {}, ![c].looked = FALSE, ![c].next = @ + 1]
    /\ UNCHANGED <<table, row, queue, faults>>

\* The key was committed since the SELECT, or the queue was deleted.  add() has left the row
\* pending, so begin_nested() itself flushes it, before the SAVEPOINT: the error ends the whole
\* transaction, and the SELECT for the winner raises.
AddLost(c) ==
    /\ Adding(c) /\ req[c].looked
    /\ Exists(Key(c)) \/ queue = "gone"
    /\ End(c)
    /\ UNCHANGED <<row, queue>>

\* The database ends one of two transactions that wait for each other.
AddDeadlock(c) ==
    /\ \E d \in Clients : WaitsFor(c, d) /\ WaitsFor(d, c)
    /\ End(c)
    /\ UNCHANGED <<row, queue>>

AddCommit(c) ==
    /\ req[c].op = "add" /\ ~Adding(c)
    /\ row' = [n \in Names |-> IF n \in Put(c) THEN [row[n] EXCEPT !.is = "item"] ELSE row[n]]
    /\ End(c)
    /\ UNCHANGED queue

\* The items cascade.  An inserted row holds the row of its queue until its commit.
DeleteQueue ==
    /\ queue = "there"
    /\ \A c \in Clients : Put(c) = {}
    /\ queue' = "gone"
    /\ row' = [n \in Names |-> [row[n] EXCEPT !.is = "absent"]]
    /\ UNCHANGED <<table, req, faults>>

-----------------------------------------------------------------------------
\* An error response, a lost connection, a crash of the orchestrator.
Rollback(c) ==
    /\ req[c] # NoRequest
    /\ faults < MaxFaults
    /\ faults' = faults + 1
    /\ req' = [req EXCEPT ![c] = NoRequest]
    /\ UNCHANGED <<table, row, queue>>

Ask(c) ==
    \/ \E n \in Names : Register(c, n) \/ CreateAsset(c, n) \/ UpdateAsset(c, n) \/ DeleteAsset(c, n)
    \/ \E b \in Batches : AddBegin(c, b)

Add(c) == AddLook(c) \/ AddInsert(c) \/ AddLost(c) \/ AddDeadlock(c) \/ AddCommit(c)

Next ==
    \/ \E c \in Clients : Ask(c) \/ Insert(c) \/ Change(c) \/ Add(c) \/ Rollback(c)
    \/ CreateQueue \/ DeleteQueue

Spec == Init /\ [][Next]_vars

\* A statement that can be executed is executed.  An INSERT that waits with rows of its own in
\* hand is woken when the other transaction ends: a retry of that one, which has to be sent
\* first, does not get in before it for ever.  Nobody has to send anything.
FairSpec ==
    /\ Spec
    /\ \A c \in Clients : WF_vars(Insert(c) \/ Change(c) \/ Add(c))
                          /\ SF_vars(Put(c) # {} /\ AddInsert(c))

-----------------------------------------------------------------------------
(* Properties *)

\* However many first registrations race, and whichever of them fail, the users are never
\* without an admin: nobody else could make one.
SomeoneIsAdmin ==
    table = "users" /\ (\E n \in Names : Exists(n)) => \E n \in Names : row[n].is = "admin"

\* No request makes an immutable asset mutable, not even one that has loaded it before it was
\* locked; as long as the row exists.
LockIsForGood ==
    [][\A n \in Names : row[n].is = "immutable" => row'[n].is \in {"immutable", "absent"}]_vars

\* The asset is immutable, and so is every request that could still write to it.
Sealed(n) ==
    /\ row[n].is = "immutable"
    /\ \A c \in Clients : req[c].op \in {"update", "delete"} => req[c].name # n

\* "Rows flagged immutable reject update/delete": from every request that comes after the lock.
SealedForGood == [][\A n \in Names : Sealed(n) => Sealed(n)' /\ row'[n] = row[n]]_vars

\* A batch that is accepted is there, every key of it, though other batches insert the same
\* keys, lose them or wait for them; unless the queue is deleted.
BatchesAreAtomic ==
    [][\A c \in Clients : AddCommit(c) =>
          queue = "gone" \/ \A k \in Range(req[c].batch) : row'[k].is = "item"]_vars

\* A batch that is sent again and again gets through: neither the batches that it collides
\* with nor deadlocks with them keep it out for ever.
BatchesGetThrough ==
    \A b \in Batches :
        []<><<\E c \in Clients : AddBegin(c, b)>>_vars =>
            <>(queue = "gone" \/ \A k \in Range(b) : Exists(k))

\* What the documentation says and the code does not keep.

\* "A duplicate idempotency_key returns the existing row" (queues.py:125): a request does not
\* end without its batch because the key that it comes to exists.
DuplicatesAreReturned ==
    [][\A c \in Clients : Adding(c) /\ Exists(Key(c)) =>
          req'[c] # NoRequest \/ faults' # faults]_vars
=============================================================================

--------------------------- MODULE SessionsProofs ---------------------------
(***************************************************************************)
(* The safety properties of Sessions, for any number of users, tabs,       *)
(* invocations, tokens and mishaps.                                        *)
(***************************************************************************)
EXTENDS Sessions, TLAPS

(* Requests that present a token have one. *)
Shape(a) ==
    /\ req[a].op \in {"none", "login"} => req[a].token = None
    /\ req[a].op \in {"refresh", "logout"} => req[a].token # None

(* A token that is still on its way to a client has not been presented by anybody: the one   *)
(* reply is all that knows it.                                                               *)
Secret(a, t) ==
    req[a].issued = t =>
        /\ tok[t].revoked \in {"no", "reuse"}
        /\ \A s \in Stores : store[s] # t
        /\ \A c \in Clients : memory[c] # t /\ req[c].token # t
        /\ \A c \in Clients \ {a} : req[c].issued # t

(* The clients of a store, and the store, that know a token. *)
Has(s, t) ==
    \/ store[s] = t
    \/ \E c \in Clients : StoreOf(c) = s /\ t \in {memory[c], req[c].token, req[c].issued}

(* Tabs and commands never know of one another's tokens. *)
Apart == \A t \in Tokens : ~(Has("browser", t) /\ Has("file", t))

(* Without faults, everybody waits for their replies. *)
Waiting == faults = 0 => \A a \in Clients : req[a].at # "idle" => req[a].waiting

Inv ==
    /\ TypeOK
    /\ \A a \in Clients : Shape(a) /\ \A t \in Tokens : Secret(a, t)
    /\ Apart
    /\ Waiting
    /\ \A c \in Clients : kind[c] = "tab" => memory[c] = None
    /\ RotatedTokenIsReplaced

-----------------------------------------------------------------------------
(* The empty values are in the types. *)
LEMMA Constants ==
    /\ None \notin Tokens /\ Idle \in Request /\ Unused \in Row
    /\ \A u \in Users \cup {None} : [Unused EXCEPT !.user = u] \in Row
<1>1. None \notin Tokens
  BY NoneAssumption, TokensAssumption DEF Tokens
<1>2. Idle \in Request /\ Unused \in Row
  BY DEF Idle, Request, Unused, Row
<1>3. \A u \in Users \cup {None} : [Unused EXCEPT !.user = u] \in Row
  BY DEF Unused, Row
<1>4. QED
  BY <1>1, <1>2, <1>3

(* Every client has one store. *)
LEMMA StoreFacts ==
    ASSUME TypeOK, NEW a \in Clients
    PROVE  /\ StoreOf(a) \in Stores
           /\ kind[a] = "tab" <=> StoreOf(a) = "browser"
           /\ kind[a] = "command" <=> StoreOf(a) = "file"
  BY DEF TypeOK, StoreOf, Stores

(* A token that tabs know is not that of a command, and the other way round. *)
LEMMA ApartFacts ==
    ASSUME TypeOK, Apart, NEW s \in Stores, NEW r \in Stores, NEW t \in Tokens,
           Has(s, t), Has(r, t)
    PROVE  s = r
  BY DEF Apart, Stores

(* Nobody knows anything at first. *)
LEMMA InitInv == Init => Inv
<1> SUFFICES ASSUME Init PROVE Inv
  OBVIOUS
<1>1. TypeOK
  BY Constants DEF Init, TypeOK, Request
<1>2. ASSUME NEW a \in Clients
      PROVE  /\ req[a].op = "none" /\ req[a].token = None /\ req[a].issued = None
             /\ req[a].at = "idle" /\ memory[a] = None
  BY <1>2 DEF Init, Idle
<1>3. ASSUME NEW s \in Stores PROVE store[s] = None
  BY <1>3 DEF Init
<1>4. ASSUME NEW a \in Clients PROVE Shape(a) /\ \A t \in Tokens : Secret(a, t)
  BY <1>2, Constants DEF Shape, Secret
<1>5. Apart
  BY <1>2, <1>3, Constants DEF Apart, Has, Stores
<1>6. Waiting
  BY <1>2 DEF Waiting
<1>7. RotatedTokenIsReplaced
  BY <1>3 DEF RotatedTokenIsReplaced
<1>8. QED
  BY <1>1, <1>2, <1>4, <1>5, <1>6, <1>7 DEF Inv

(* Who knows a token that it did not know before has broken the separation. *)
LEMMA ApartKept ==
    ASSUME TypeOK, Apart, kind' = kind,
           \A s \in Stores, t \in Tokens : Has(s, t)' => Has(s, t)
    PROVE  Apart'
  BY DEF Apart, Stores, TypeOK

(* A request is sent with a token that its store knows. *)
LEMMA SendInv == ASSUME Inv, NEW a \in Clients, Ask(a) PROVE Inv'
<1>1. TypeOK /\ Apart /\ Waiting /\ RotatedTokenIsReplaced
      /\ \A c \in Clients : kind[c] = "tab" => memory[c] = None
  BY DEF Inv
<1>2. PICK op, u, t :
         /\ Send(a, op, u, t)
         /\ \/ op = "login" /\ u \in Users /\ t = None
            \/ op \in {"refresh", "logout"} /\ u = None /\ t = Held(a) /\ t # None
  BY DEF Ask, Login, Refresh, Logout
<1>3. t \in Tokens \cup {None} /\ (t # None => Has(StoreOf(a), t))
      /\ (t # None => t \in {store[s] : s \in Stores} \cup {memory[a]})
  BY <1>1, <1>2, StoreFacts DEF Held, TypeOK, Has, Stores
<1> DEFINE q == [Idle EXCEPT !.op = op, !.at = "sent", !.user = u, !.token = t, !.waiting = TRUE]
<1>4. /\ q \in Request /\ q.op = op /\ q.at = "sent" /\ q.token = t /\ q.issued = None /\ q.waiting
  BY <1>2, <1>3 DEF Idle, Request
<1>5. req' = [req EXCEPT ![a] = q] /\ UNCHANGED <<kind, tok, store, memory, open, faults, expiries>>
      /\ req[a] = Idle
  BY <1>2 DEF Send
<1> HIDE DEF q
<1>6. req'[a] = q /\ \A b \in Clients : b # a => req'[b] = req[b]
  BY <1>1, <1>5 DEF TypeOK
<1>7. TypeOK'
  BY <1>1, <1>4, <1>5 DEF TypeOK
<1>8. ASSUME NEW b \in Clients PROVE Shape(b)'
  BY <1>2, <1>4, <1>6 DEF Shape, Inv
<1>9. ASSUME NEW b \in Clients, NEW x \in Tokens PROVE Secret(b, x)'
  <2> SUFFICES ASSUME req'[b].issued = x PROVE Secret(b, x)'
    BY DEF Secret
  <2>1. b # a /\ req[b].issued = x
    BY <1>4, <1>6, Constants
  <2>2. /\ tok[x].revoked \in {"no", "reuse"}
        /\ \A s \in Stores : store[s] # x
        /\ \A c \in Clients : memory[c] # x /\ req[c].token # x
        /\ \A c \in Clients \ {b} : req[c].issued # x
    BY <2>1 DEF Inv, Secret
  <2>3. t # x
    BY <1>3, <2>2, Constants
  <2>4. QED
    BY <1>4, <1>5, <1>6, <2>2, <2>3, Constants DEF Secret
<1>10. Apart'
  <2>1. ASSUME NEW s \in Stores, NEW x \in Tokens, Has(s, x)' PROVE Has(s, x)
    BY <1>3, <1>4, <1>5, <1>6, <2>1, Constants DEF Has, StoreOf
  <2>2. QED
    BY <1>1, <1>5, <2>1, ApartKept
<1>11. Waiting'
  BY <1>1, <1>4, <1>5, <1>6 DEF Waiting
<1>12. RotatedTokenIsReplaced'
  <2> SUFFICES ASSUME faults = 0, NEW s \in Stores, store[s] # None,
                      tok[store[s]].revoked \in {"refresh", "logout"}
               PROVE  \E b \in Clients : /\ StoreOf(b) = s /\ req'[b].token = store[s]
                                         /\ req'[b].waiting
    BY <1>5 DEF RotatedTokenIsReplaced, StoreOf
  <2>1. PICK b \in Clients : StoreOf(b) = s /\ req[b].token = store[s] /\ req[b].waiting
    BY <1>1 DEF RotatedTokenIsReplaced
  <2>2. b # a
    BY <1>5, <2>1 DEF Idle
  <2>3. QED
    BY <1>6, <2>1, <2>2
<1>13. QED
  BY <1>1, <1>5, <1>7, <1>8, <1>9, <1>10, <1>11, <1>12 DEF Inv

(* The orchestrator answers: it marks at most the token of the request as used up, and says  *)
(* nothing, or what it has said, or a new token.                                             *)
LEMMA AnswerInv ==
    ASSUME Inv, NEW a \in Clients, NEW t \in Tokens \cup {None},
           req' \in [Clients -> Request], tok' \in [Tokens -> Row],
           \A b \in Clients : b # a => req'[b] = req[b],
           /\ req'[a].op = req[a].op /\ req'[a].token = req[a].token
           /\ req'[a].waiting = req[a].waiting /\ req'[a].issued = t /\ req[a].at # "idle",
           UNCHANGED <<kind, store, memory, open>>, expiries' \in Nat,
           faults' \in {faults, faults + 1},
           t \in {None, req[a].issued} \/ (t \in Fresh /\ tok'[t].revoked = "no"),
           \A r \in Tokens : tok'[r].revoked \in {tok[r].revoked, "no", "reuse"}
                             \/ r = req[a].token
    PROVE  Inv'
<1>1. TypeOK /\ Apart /\ Waiting /\ RotatedTokenIsReplaced /\ faults \in Nat
      /\ \A c \in Clients : kind[c] = "tab" => memory[c] = None
  BY DEF Inv, TypeOK
<1>2. TypeOK'
  BY <1>1 DEF TypeOK
<1>3. ASSUME NEW b \in Clients PROVE Shape(b)'
  BY DEF Shape, Inv
<1>4. ASSUME t \in Fresh, t # None
      PROVE  /\ \A s \in Stores : store[s] # t
             /\ \A c \in Clients : memory[c] # t /\ req[c].token # t /\ req[c].issued # t
  BY <1>4 DEF Fresh, Known
<1>5. ASSUME NEW b \in Clients, NEW x \in Tokens PROVE Secret(b, x)'
  <2> SUFFICES ASSUME req'[b].issued = x PROVE Secret(b, x)'
    BY DEF Secret
  <2>1. CASE req[b].issued = x
    <3>1. /\ tok[x].revoked \in {"no", "reuse"}
          /\ \A s \in Stores : store[s] # x
          /\ \A c \in Clients : memory[c] # x /\ req[c].token # x
          /\ \A c \in Clients \ {b} : req[c].issued # x
      BY <2>1 DEF Inv, Secret
    <3>2. b # a => t # x
      BY <1>4, <2>1, <3>1, Constants
    <3>3. tok'[x].revoked \in {"no", "reuse"}
      BY <3>1
    <3>4. \A c \in Clients \ {b} : req'[c].issued # x
      BY <3>1, <3>2
    <3>5. QED
      BY <3>1, <3>3, <3>4 DEF Secret
  <2>2. CASE req[b].issued # x
    <3>1. b = a /\ t = x /\ t \in Fresh /\ tok'[t].revoked = "no"
      BY <2>2, Constants
    <3>2. QED
      BY <1>4, <3>1, Constants DEF Secret
  <2>3. QED
    BY <2>1, <2>2
<1>6. Apart'
  <2>1. ASSUME NEW s \in Stores, NEW x \in Tokens, Has(s, x)'
        PROVE  Has(s, x) \/ (x = t /\ t \in Fresh /\ s = StoreOf(a))
    <3>1. CASE store[s] = x
      BY <3>1 DEF Has
    <3>2. ASSUME NEW c \in Clients, StoreOf(c) = s, x \in {memory[c], req'[c].token, req'[c].issued}
          PROVE  Has(s, x) \/ (x = t /\ t \in Fresh /\ s = StoreOf(a))
      BY <3>2, Constants DEF Has
    <3>3. QED
      BY <2>1, <3>1, <3>2 DEF Has, StoreOf
  <2>2. t \in Fresh /\ t # None => \A s \in Stores : ~Has(s, t)
    BY <1>4 DEF Has
  <2>3. QED
    BY <1>1, <2>1, <2>2, StoreFacts, Constants DEF Apart, Stores
<1>7. Waiting'
  BY <1>1 DEF Waiting
<1>8. RotatedTokenIsReplaced'
  <2> SUFFICES ASSUME faults' = 0, NEW s \in Stores, store[s] # None,
                      tok'[store[s]].revoked \in {"refresh", "logout"}
               PROVE  \E b \in Clients : /\ StoreOf(b) = s /\ req'[b].token = store[s]
                                         /\ req'[b].waiting
    BY DEF RotatedTokenIsReplaced, StoreOf
  <2>1. faults = 0 /\ store[s] \in Tokens
    BY <1>1 DEF TypeOK
  <2>2. CASE store[s] = req[a].token
    <3>1. Has(s, store[s]) /\ Has(StoreOf(a), store[s])
      BY <2>2 DEF Has
    <3>2. StoreOf(a) = s
      BY <1>1, <2>1, <3>1, ApartFacts, StoreFacts
    <3>3. QED
      BY <1>1, <2>1, <2>2, <3>2 DEF Waiting
  <2>3. CASE store[s] # req[a].token
    <3>1. tok[store[s]].revoked \in {"refresh", "logout"}
      BY <2>1, <2>3
    <3>2. PICK b \in Clients : StoreOf(b) = s /\ req[b].token = store[s] /\ req[b].waiting
      BY <1>1, <2>1, <3>1 DEF RotatedTokenIsReplaced
    <3>3. QED
      BY <3>2
  <2>4. QED
    BY <2>2, <2>3
<1>9. QED
  BY <1>1, <1>2, <1>3, <1>5, <1>6, <1>7, <1>8 DEF Inv

(* What Answer writes. *)
LEMMA AnswerFacts ==
    ASSUME TypeOK, NEW a \in Clients, NEW at \in {"accepted", "refused"},
           NEW t \in Tokens \cup {None}, Answer(a, at, t)
    PROVE  /\ req' \in [Clients -> Request]
           /\ \A b \in Clients : b # a => req'[b] = req[b]
           /\ req'[a].op = req[a].op /\ req'[a].token = req[a].token
           /\ req'[a].waiting = req[a].waiting /\ req'[a].issued = t
<1>1. req[a] \in Request /\ req' = [req EXCEPT ![a].at = at, ![a].issued = t]
  BY DEF Answer, TypeOK
<1>2. /\ req'[a] = [req[a] EXCEPT !.at = at, !.issued = t]
      /\ \A b \in Clients : b # a => req'[b] = req[b]
  BY <1>1 DEF TypeOK
<1>3. [req[a] EXCEPT !.at = at, !.issued = t] \in Request
  BY <1>1 DEF Request
<1>4. req' \in [Clients -> Request]
  BY <1>1, <1>2, <1>3 DEF TypeOK
<1>5. QED
  BY <1>1, <1>2, <1>4 DEF Request

(* Marking one token as used. *)
LEMMA RevokeFacts ==
    ASSUME TypeOK, NEW t \in Tokens, NEW why \in {"refresh", "logout"}
    PROVE  /\ Revoke(t, why) \in [Tokens -> Row]
           /\ \A r \in Tokens : r # t => Revoke(t, why)[r] = tok[r]
  BY DEF Revoke, TypeOK, Row

(* The handlers. *)
LEMMA ServeInv == ASSUME Inv, NEW a \in Clients, Serve(a) PROVE Inv'
<1>1. TypeOK /\ req[a] \in Request /\ faults \in Nat /\ expiries \in Nat
  BY DEF Inv, TypeOK
<1>2. req[a].op \in {"refresh", "logout"} => req[a].token \in Tokens
  BY <1>1 DEF Inv, Shape, Request
<1>3. ASSUME NEW rows \in [Tokens -> Row], NEW u \in Users \cup {None}, Issue(a, rows, u),
             req[a].at # "idle", UNCHANGED <<kind, store, memory, open, faults, expiries>>,
             \A r \in Tokens : r # req[a].token => rows[r] = tok[r]
      PROVE  Inv'
  <2>1. PICK t \in Fresh : /\ tok' = [rows EXCEPT ![t] = [Unused EXCEPT !.user = u]]
                           /\ Answer(a, "accepted", t)
    BY <1>3 DEF Issue
  <2>2. t \in Tokens
    BY DEF Fresh
  <2>3. tok' \in [Tokens -> Row] /\ tok'[t].revoked = "no"
        /\ \A r \in Tokens : r # t /\ r # req[a].token => tok'[r] = tok[r]
    BY <1>3, <2>1, <2>2, Constants DEF Unused
  <2>4. \A r \in Tokens : tok'[r].revoked \in {tok[r].revoked, "no", "reuse"} \/ r = req[a].token
    BY <2>3
  <2>5. QED
    BY <1>1, <1>3, <2>1, <2>2, <2>3, <2>4, AnswerFacts, AnswerInv
<1>4. CASE LoginCommit(a)
  BY <1>1, <1>3, <1>4 DEF LoginCommit, TypeOK, Request
<1>5. CASE RefreshDecide(a)
  <2>1. /\ req' \in [Clients -> Request] /\ \A b \in Clients : b # a => req'[b] = req[b]
        /\ req'[a].op = req[a].op /\ req'[a].token = req[a].token
        /\ req'[a].waiting = req[a].waiting /\ req'[a].issued = req[a].issued
    BY <1>1, <1>5 DEF RefreshDecide, TypeOK, Request
  <2>2. req[a].issued \in Tokens \cup {None} /\ req[a].at # "idle"
    BY <1>1, <1>5 DEF Request, RefreshDecide
  <2>3. QED
    BY <1>1, <1>5, <2>1, <2>2, AnswerInv DEF RefreshDecide, TypeOK
<1>6. CASE RefreshCommit(a)
  <2> DEFINE t == req[a].token
  <2>1. t \in Tokens /\ tok[t].user \in Users \cup {None} /\ req[a].at # "idle"
    BY <1>1, <1>2, <1>6 DEF RefreshCommit, TypeOK, Row
  <2>2. Issue(a, Revoke(t, "refresh"), tok[t].user)
        /\ UNCHANGED <<kind, store, memory, open, faults, expiries>>
    BY <1>6 DEF RefreshCommit
  <2>3. QED
    BY <1>1, <1>3, <2>1, <2>2, RevokeFacts
<1>7. CASE ReuseCommit(a)
  <2>1. Answer(a, "refused", None) /\ req[a].at # "idle"
        /\ UNCHANGED <<kind, store, memory, open, faults, expiries>>
    BY <1>7 DEF ReuseCommit
  <2>2. tok' \in [Tokens -> Row]
        /\ \A r \in Tokens : tok'[r].revoked \in {tok[r].revoked, "no", "reuse"}
    BY <1>1, <1>7 DEF ReuseCommit, TypeOK, Row
  <2>3. QED
    BY <1>1, <2>1, <2>2, AnswerFacts, AnswerInv
<1>8. CASE LogoutCommit(a)
  <2>1. /\ Answer(a, "accepted", None) /\ req[a].at # "idle" /\ req[a].token \in Tokens
        /\ UNCHANGED <<kind, store, memory, open, faults, expiries>>
        /\ tok' = Revoke(req[a].token, "logout")
    BY <1>2, <1>8 DEF LogoutCommit
  <2>2. tok' \in [Tokens -> Row]
        /\ \A r \in Tokens : tok'[r].revoked = tok[r].revoked \/ r = req[a].token
    BY <1>1, <2>1, RevokeFacts
  <2>3. QED
    BY <1>1, <2>1, <2>2, AnswerFacts, AnswerInv
<1>9. QED
  BY <1>4, <1>5, <1>6, <1>7, <1>8 DEF Serve

(* An error status. *)
LEMMA ServerErrorInv == ASSUME Inv, NEW a \in Clients, ServerError(a) PROVE Inv'
<1>1. TypeOK /\ faults \in Nat
  BY DEF Inv, TypeOK
<1>2. /\ Answer(a, "refused", None) /\ req[a].at # "idle" /\ faults' = faults + 1
      /\ UNCHANGED <<kind, tok, store, memory, open, expiries>>
  BY DEF ServerError, Fault
<1>3. QED
  BY <1>1, <1>2, AnswerFacts, AnswerInv DEF TypeOK

(* Rows are dropped only of tokens that nobody knows any more. *)
LEMMA ForgetFacts ==
    ASSUME TypeOK, Forget
    PROVE  /\ tok' \in [Tokens -> Row]
           /\ \A t \in Tokens : tok'[t].revoked \in {tok[t].revoked, "no"}
  BY Constants DEF Forget, TypeOK, Unused

(* A client that loads the credentials, or gets a reply, or stops waiting for one: its store *)
(* gets what it knew before, or nothing; its request ends, or goes on without it.            *)
LEMMA ClientInv ==
    ASSUME Inv, NEW a \in Clients, NEW t \in Tokens \cup {None}, NEW kept \in BOOLEAN,
           IF kept THEN UNCHANGED <<store, memory>> ELSE Keep(a, t),
           t \in {None, req[a].issued},
           req' \in [Clients -> Request], \A b \in Clients : b # a => req'[b] = req[b],
           \/ req'[a] = Idle
           \/ t = None /\ faults' # 0 /\ req'[a].op = req[a].op
              /\ req'[a].token = req[a].token /\ req'[a].issued = req[a].issued,
           kept => req[a].token = None \/ faults' # 0,
           kind' = kind, open' \subseteq Clients, faults' \in {faults, faults + 1},
           expiries' \in Nat, tok' \in [Tokens -> Row],
           \A x \in Tokens : tok'[x].revoked \in {tok[x].revoked, "no"}
    PROVE  Inv'
<1>1. TypeOK /\ Apart /\ Waiting /\ RotatedTokenIsReplaced /\ faults \in Nat
      /\ \A c \in Clients : kind[c] = "tab" => memory[c] = None
  BY DEF Inv, TypeOK
<1>2. /\ \A s \in Stores : store'[s] = store[s] \/ (s = StoreOf(a) /\ store'[s] = t)
      /\ \A c \in Clients :
            memory'[c] = memory[c] \/ (c = a /\ kind[a] = "command" /\ memory'[c] = t)
      /\ store' \in [Stores -> Tokens \cup {None}] /\ memory' \in [Clients -> Tokens \cup {None}]
      /\ (~kept => store'[StoreOf(a)] = t)
  BY <1>1, StoreFacts DEF Keep, TypeOK
<1>3. TypeOK'
  BY <1>1, <1>2 DEF TypeOK
<1>4. \A c \in Clients : (kind[c] = "tab" => memory[c] = None)'
  BY <1>1, <1>2
<1>5. Idle.op = "none" /\ Idle.token = None /\ Idle.issued = None /\ Idle.at = "idle"
  BY DEF Idle
<1>6. ASSUME NEW b \in Clients PROVE Shape(b)'
  BY <1>5 DEF Inv, Shape
<1>7. ASSUME NEW b \in Clients, NEW x \in Tokens PROVE Secret(b, x)'
  <2> SUFFICES ASSUME req'[b].issued = x PROVE Secret(b, x)'
    BY DEF Secret
  <2>1. req[b].issued = x /\ t # x
    <3>1. req[b].issued = x
      BY <1>5, Constants
    <3>2. CASE b = a
      BY <1>5, <3>2, Constants
    <3>3. CASE b # a
      BY <3>1, <3>3, Constants DEF Inv, Secret
    <3>4. QED
      BY <3>1, <3>2, <3>3
  <2>2. /\ tok[x].revoked \in {"no", "reuse"}
        /\ \A s \in Stores : store[s] # x
        /\ \A c \in Clients : memory[c] # x /\ req[c].token # x
        /\ \A c \in Clients \ {b} : req[c].issued # x
    BY <2>1 DEF Inv, Secret
  <2>3. \A c \in Clients : req'[c].token # x /\ (c # b => req'[c].issued # x)
    BY <1>5, <2>2, Constants
  <2>4. tok'[x].revoked \in {"no", "reuse"}
    BY <2>2
  <2>5. QED
    BY <1>2, <2>1, <2>2, <2>3, <2>4 DEF Secret
<1>8. Apart'
  <2>1. ASSUME NEW s \in Stores, NEW x \in Tokens, Has(s, x)' PROVE Has(s, x)
    <3>1. ASSUME store'[s] = x PROVE Has(s, x)
      BY <1>2, <3>1, Constants DEF Has
    <3>2. ASSUME NEW c \in Clients, StoreOf(c) = s,
                 x \in {memory'[c], req'[c].token, req'[c].issued}
          PROVE  Has(s, x)
      <4>1. x \in {memory[c], req[c].token, req[c].issued}
        BY <1>2, <1>5, <3>2, Constants
      <4>2. QED
        BY <3>2, <4>1 DEF Has
    <3>3. QED
      BY <2>1, <3>1, <3>2 DEF Has, StoreOf
  <2>2. QED
    BY <1>1, <2>1, ApartKept
<1>9. Waiting'
  BY <1>1, <1>5 DEF Waiting
<1>10. RotatedTokenIsReplaced'
  <2> SUFFICES ASSUME faults' = 0, NEW s \in Stores, store'[s] # None,
                      tok'[store'[s]].revoked \in {"refresh", "logout"}
               PROVE  \E b \in Clients : /\ StoreOf(b) = s /\ req'[b].token = store'[s]
                                         /\ req'[b].waiting
    BY DEF RotatedTokenIsReplaced, StoreOf
  <2>1. faults = 0 /\ req'[a] = Idle /\ store'[s] \in Tokens
    BY <1>1, <1>2
  <2>2. tok[store'[s]].revoked \in {"refresh", "logout"}
    BY <2>1
  <2>3. store'[s] = store[s] /\ (s = StoreOf(a) => kept)
    <3>1. t # None => tok[t].revoked \in {"no", "reuse"}
      BY DEF Inv, Secret
    <3>2. QED
      BY <1>2, <2>2, <3>1
  <2>4. PICK b \in Clients : StoreOf(b) = s /\ req[b].token = store[s] /\ req[b].waiting
    BY <1>1, <2>1, <2>2, <2>3 DEF RotatedTokenIsReplaced
  <2>5. b # a
    BY <2>1, <2>3, <2>4, Constants
  <2>6. QED
    BY <2>3, <2>4, <2>5
<1>11. QED
  BY <1>3, <1>4, <1>6, <1>7, <1>8, <1>9, <1>10 DEF Inv

(* An invocation of the command-line client loads what the file holds. *)
LEMMA LoadInv == ASSUME Inv, NEW a \in Clients, Load(a) PROVE Inv'
<1>1. TypeOK /\ Apart /\ Waiting /\ RotatedTokenIsReplaced
      /\ \A c \in Clients : kind[c] = "tab" => memory[c] = None
  BY DEF Inv
<1>2. /\ kind[a] = "command" /\ memory' = [memory EXCEPT ![a] = store["file"]]
      /\ UNCHANGED <<kind, store, open, req, faults, expiries>> /\ Forget
  BY DEF Load
<1>3. "file" \in Stores /\ store["file"] \in Tokens \cup {None}
  BY <1>1 DEF TypeOK, Stores
<1>4. TypeOK'
  BY <1>1, <1>2, <1>3, ForgetFacts DEF TypeOK
<1>5. \A c \in Clients : Shape(c)' /\ (kind[c] = "tab" => memory[c] = None)'
  BY <1>1, <1>2 DEF Inv, Shape, TypeOK
<1>6. ASSUME NEW b \in Clients, NEW x \in Tokens PROVE Secret(b, x)'
  BY <1>1, <1>2, <1>3, ForgetFacts DEF Inv, Secret, TypeOK
<1>7. Apart'
  <2>1. ASSUME NEW s \in Stores, NEW x \in Tokens, Has(s, x)' PROVE Has(s, x)
    <3>1. ASSUME NEW c \in Clients, StoreOf(c) = s,
                 x \in {memory'[c], req[c].token, req[c].issued}
          PROVE  Has(s, x)
      <4>1. CASE c = a
        BY <1>1, <1>2, <3>1, <4>1, StoreFacts DEF Has, TypeOK
      <4>2. CASE c # a
        BY <1>1, <1>2, <3>1, <4>2 DEF Has, TypeOK
      <4>3. QED
        BY <4>1, <4>2
    <3>2. QED
      BY <1>2, <2>1, <3>1 DEF Has, StoreOf
  <2>2. QED
    BY <1>1, <1>2, <2>1, ApartKept
<1>8. Waiting'
  BY <1>1, <1>2 DEF Waiting
<1>9. RotatedTokenIsReplaced'
  BY <1>1, <1>2, ForgetFacts DEF RotatedTokenIsReplaced, StoreOf, TypeOK
<1>10. QED
  BY <1>4, <1>5, <1>6, <1>7, <1>8, <1>9 DEF Inv

(* A reply arrives. *)
LEMMA ReceiveInv == ASSUME Inv, NEW a \in Clients, Receive(a) PROVE Inv'
<1>1. TypeOK /\ Waiting /\ Shape(a) /\ req[a] \in Request /\ faults \in Nat /\ expiries \in Nat
  BY DEF Inv, TypeOK
<1>2. /\ req[a].at # "idle" /\ req' = [req EXCEPT ![a] = Idle]
      /\ UNCHANGED <<kind, faults, expiries>> /\ Forget
      /\ IF req[a].waiting THEN Received(a) ELSE UNCHANGED <<store, memory>>
      /\ open' \subseteq Clients
  BY <1>1 DEF Receive, Shown, TypeOK
<1>3. req' \in [Clients -> Request] /\ req'[a] = Idle
      /\ \A b \in Clients : b # a => req'[b] = req[b]
  BY <1>1, <1>2, Constants DEF TypeOK
<1>4. PICK t \in {None, req[a].issued}, kept \in BOOLEAN :
         /\ IF kept THEN UNCHANGED <<store, memory>> ELSE Keep(a, t)
         /\ kept => req[a].token = None \/ faults # 0
  <2>1. CASE ~req[a].waiting
    BY <1>1, <1>2, <2>1 DEF Waiting
  <2>2. CASE req[a].waiting /\ req[a].issued # None
    BY <1>2, <2>2 DEF Received
  <2>3. CASE req[a].waiting /\ req[a].issued = None /\ req[a].op \in {"refresh", "logout"}
    BY <1>2, <2>3 DEF Received
  <2>4. CASE req[a].waiting /\ req[a].issued = None /\ req[a].op \notin {"refresh", "logout"}
    BY <1>1, <1>2, <2>4 DEF Received, Shape, Request
  <2>5. QED
    BY <2>1, <2>2, <2>3, <2>4
<1>5. t \in Tokens \cup {None}
  BY <1>1 DEF Request
<1>6. QED
  BY <1>1, <1>2, <1>3, <1>4, <1>5, ClientInv, ForgetFacts

(* A client without a token logs out: its store is cleared. *)
LEMMA LogoutLocallyInv == ASSUME Inv, NEW a \in Clients, LogoutLocally(a) PROVE Inv'
<1>1. TypeOK /\ faults \in Nat /\ expiries \in Nat
  BY DEF Inv, TypeOK
<1>2. /\ Keep(a, None) /\ open' = open \ {a} /\ req[a] = Idle
      /\ UNCHANGED <<kind, req, faults, expiries>> /\ Forget
  BY DEF LogoutLocally
<1>3. open' \subseteq Clients /\ req' \in [Clients -> Request]
  BY <1>1, <1>2 DEF TypeOK
<1>4. QED
  BY <1>1, <1>2, <1>3, ClientInv, ForgetFacts

(* A tab loads: what it waits for is lost to it. *)
LEMMA ReloadInv == ASSUME Inv, NEW a \in Clients, Reload(a) PROVE Inv'
<1>1. TypeOK /\ req[a] \in Request /\ faults \in Nat /\ expiries \in Nat
  BY DEF Inv, TypeOK
<1>2. open' \subseteq Clients /\ UNCHANGED <<kind, tok, store, memory, expiries>>
  BY <1>1 DEF Reload, TypeOK
<1>3. CASE ~req[a].waiting
  <2>1. UNCHANGED <<req, faults>>
    BY <1>3 DEF Reload
  <2>2. QED
    BY <1>2, <2>1 DEF Inv, TypeOK, Shape, Secret, Apart, Has, StoreOf, Waiting,
                      RotatedTokenIsReplaced
<1>4. CASE req[a].waiting
  <2>1. faults' = faults + 1 /\ req' = [req EXCEPT ![a].waiting = FALSE]
    BY <1>4 DEF Reload, Fault
  <2>2. /\ req' \in [Clients -> Request] /\ \A b \in Clients : b # a => req'[b] = req[b]
        /\ req'[a].op = req[a].op /\ req'[a].token = req[a].token
        /\ req'[a].issued = req[a].issued
    BY <1>1, <2>1 DEF TypeOK, Request
  <2>3. faults' # 0 /\ tok' \in [Tokens -> Row]
    BY <1>1, <1>2, <2>1 DEF TypeOK
  <2>4. QED
    BY <1>1, <1>2, <2>1, <2>2, <2>3, ClientInv
<1>5. QED
  BY <1>3, <1>4

(* A client stops waiting. *)
LEMMA GiveUpInv == ASSUME Inv, NEW a \in Clients, GiveUp(a) PROVE Inv'
<1>1. TypeOK /\ req[a] \in Request /\ faults \in Nat /\ expiries \in Nat
  BY DEF Inv, TypeOK
<1>2. /\ faults' = faults + 1 /\ req' = [req EXCEPT ![a].waiting = FALSE]
      /\ UNCHANGED <<kind, open, expiries>> /\ Forget
  BY DEF GiveUp, Fault
<1>3. /\ req' \in [Clients -> Request] /\ \A b \in Clients : b # a => req'[b] = req[b]
      /\ req'[a].op = req[a].op /\ req'[a].token = req[a].token /\ req'[a].issued = req[a].issued
  BY <1>1, <1>2 DEF TypeOK, Request
<1>4. PICK kept \in BOOLEAN : IF kept THEN UNCHANGED <<store, memory>> ELSE Keep(a, None)
  BY DEF GiveUp
<1>5. faults' # 0
  BY <1>1, <1>2
<1>6. QED
  BY <1>1, <1>2, <1>3, <1>4, <1>5, ClientInv, ForgetFacts DEF TypeOK

(* A token expires. *)
LEMMA ExpireInv == ASSUME Inv, NEW t \in Tokens, Expire(t) PROVE Inv'
<1>1. TypeOK /\ UNCHANGED <<kind, store, memory, open, req, faults>>
      /\ tok' = [tok EXCEPT ![t].expired = TRUE] /\ expiries' = expiries + 1
  BY DEF Inv, Expire
<1>2. tok' \in [Tokens -> Row] /\ \A r \in Tokens : tok'[r].revoked = tok[r].revoked
  BY <1>1 DEF TypeOK, Row
<1>3. TypeOK'
  BY <1>1, <1>2 DEF TypeOK
<1>4. \A a \in Clients : Shape(a)' /\ \A x \in Tokens : Secret(a, x)'
  BY <1>1, <1>2 DEF Inv, Shape, Secret
<1>5. Apart' /\ Waiting' /\ \A c \in Clients : (kind[c] = "tab" => memory[c] = None)'
  BY <1>1 DEF Inv, Apart, Has, StoreOf, Waiting
<1>6. RotatedTokenIsReplaced'
  BY <1>1, <1>2 DEF Inv, RotatedTokenIsReplaced, StoreOf, TypeOK
<1>7. QED
  BY <1>3, <1>4, <1>5, <1>6 DEF Inv

LEMMA Invariance == Spec => []Inv
<1>1. Inv /\ [Next]_vars => Inv'
  <2>1. CASE UNCHANGED vars
    BY <2>1 DEF vars, Inv, TypeOK, Shape, Secret, Apart, Has, StoreOf, Waiting,
                RotatedTokenIsReplaced
  <2>2. QED
    BY <2>1, SendInv, ServeInv, ReceiveInv, LogoutLocallyInv, ReloadInv, GiveUpInv,
       ServerErrorInv, LoadInv, ExpireInv DEF Next
<1>2. QED
  BY <1>1, InitInv, PTL DEF Spec

-----------------------------------------------------------------------------
(* The tables, the stores and the requests hold values of their types: in particular every   *)
(* refresh that is decided presents a token, and every store holds a token or nothing.       *)
THEOREM TypeCorrect == Spec => []TypeOK
<1>1. Inv => TypeOK
  BY DEF Inv
<1>2. QED
  BY <1>1, Invariance, PTL

(* As long as no reply gets lost, a token that a store holds is replaced on the server only  *)
(* while the reply is on its way to a client of that store, however many clients share it:   *)
(* stores never mix, and a reply carries a token that nobody has presented yet.              *)
THEOREM RotationReachesStores == Spec => []RotatedTokenIsReplaced
<1>1. Inv => RotatedTokenIsReplaced
  BY DEF Inv
<1>2. QED
  BY <1>1, Invariance, PTL
=============================================================================

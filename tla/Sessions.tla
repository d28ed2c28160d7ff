------------------------------ MODULE Sessions ------------------------------
(***************************************************************************)
(* Users, their refresh tokens (routes/auth.py), and the clients that keep *)
(* them: browser tabs that share one localStorage (frontend/lib/api.ts),   *)
(* and invocations of the command-line client that share one credentials   *)
(* file, of which each has loaded a copy (cli/client.py).                  *)
(*                                                                         *)
(* A request is sent, decided on what the handler reads without a lock,    *)
(* committed, and answered; the reply is a step of the client.  Access     *)
(* tokens are not stored anywhere: that one is missing or has expired is   *)
(* what makes a client refresh, and a page that loads ask for a login.     *)
(***************************************************************************)
EXTENDS Integers, FiniteSets

CONSTANTS
    Users,         \* e-mail addresses
    Clients,       \* browser tabs and invocations of the command-line client
    MaxTokens,     \* rows of refresh_tokens that clients can know of at a time
    MaxMishaps,    \* bound on lost replies, server errors and expired tokens together
    None           \* no user, no token

ASSUME TokensAssumption == MaxTokens \in Nat \ {0}
ASSUME MishapsAssumption == MaxMishaps \in Nat
ASSUME NoneAssumption == None \notin Users \cup Nat

VARIABLES
    tok,     \* refresh_tokens
    kind,    \* what each client is: it shares the store of its kind
    store,   \* the refresh token in localStorage and in the credentials file
    memory,  \* OrchestratorClient._refresh_token, loaded when an invocation starts
    open,    \* tabs that show their pages; the others show the login page
    req,     \* the request of each client
    faults,  \* faults so far
    expiries \* expiries so far

vars == <<kind, tok, store, memory, open, req, faults, expiries>>

-----------------------------------------------------------------------------
Tokens == 1..MaxTokens
Stores == {"browser", "file"}

\* localStorage is one for all tabs, the credentials file one for all invocations.
StoreOf(a) == IF kind[a] = "tab" THEN "browser" ELSE "file"

\* revoked: "no", or the kind of request that set refresh_tokens.revoked.
Row == [user : Users \cup {None}, revoked : {"no", "refresh", "reuse", "logout"},
        expired : BOOLEAN]
Unused == [user |-> None, revoked |-> "no", expired |-> FALSE]

\* token: the one presented; issued: the new token in the reply; waiting: whether the client
\* still waits for the reply.
Request == [op : {"none", "login", "refresh", "logout"},
            at : {"idle", "sent", "decided", "accepted", "refused"},
            user : Users \cup {None},
            token : Tokens \cup {None},
            issued : Tokens \cup {None},
            waiting : BOOLEAN]

Idle == [op |-> "none", at |-> "idle", user |-> None, token |-> None,
         issued |-> None, waiting |-> FALSE]

TypeOK ==
    /\ kind \in [Clients -> {"tab", "command"}]
    /\ tok \in [Tokens -> Row]
    /\ store \in [Stores -> Tokens \cup {None}]
    /\ memory \in [Clients -> Tokens \cup {None}]
    /\ open \subseteq Clients
    /\ req \in [Clients -> Request]
    /\ faults \in Nat
    /\ expiries \in Nat

Init ==
    /\ kind \in [Clients -> {"tab", "command"}]
    /\ tok = [t \in Tokens |-> Unused]
    /\ store = [s \in Stores |-> None]
    /\ memory = [c \in Clients |-> None]
    /\ open = {}
    /\ req = [a \in Clients |-> Idle]
    /\ faults = 0
    /\ expiries = 0

-----------------------------------------------------------------------------
(* The clients send *)

\* The token that a client would present: localStorage is read when it is needed, the
\* command-line client uses the copy that it loaded when it was started.
Held(a) == IF kind[a] = "tab" THEN store["browser"] ELSE memory[a]

Send(a, op, u, t) ==
    /\ req[a] = Idle
    /\ req' = [req EXCEPT ![a] = [Idle EXCEPT !.op = op, !.at = "sent", !.user = u,
                                              !.token = t, !.waiting = TRUE]]
    /\ UNCHANGED <<kind, tok, store, memory, open, faults, expiries>>

\* The login page is shown to a tab without a user, whatever localStorage holds.
Login(a, u) == (kind[a] = "tab" => a \notin open) /\ Send(a, "login", u, None)

\* A request was answered 401: its access token has expired.  The login page sends none that
\* would be repeated.
Refresh(a) == /\ kind[a] = "tab" => a \in open
              /\ Held(a) # None
              /\ Send(a, "refresh", None, Held(a))

Logout(a) == /\ kind[a] = "tab" => a \in open
             /\ Held(a) # None
             /\ Send(a, "logout", None, Held(a))

-----------------------------------------------------------------------------
(* The orchestrator.  A refresh decides on the row as it reads it and commits later.  What the *)
(* other paths read (an account, a token that is revoked) stays as it is, so for them one step *)
(* at the commit is as good as two.                                                            *)

\* A token that no client has or will have can never be presented again.  Its row is dropped
\* from the model, and its number stands for a new one.
Known(t) == \/ \E s \in Stores : store[s] = t
            \/ \E c \in Clients : memory[c] = t
            \/ \E a \in Clients : t \in {req[a].token, req[a].issued}

Forget == tok' = [t \in Tokens |-> IF Known(t)' THEN tok[t] ELSE Unused]

Fresh == {t \in Tokens : ~Known(t) /\ \A u \in 1..t-1 : Known(u)}

Answer(a, answer, t) == req' = [req EXCEPT ![a].at = answer, ![a].issued = t]

\* _issue_pair
Issue(a, rows, u) ==
    \E t \in Fresh : tok' = [rows EXCEPT ![t] = [Unused EXCEPT !.user = u]]
                     /\ Answer(a, "accepted", t)

LoginCommit(a) ==
    /\ req[a].op = "login" /\ req[a].at = "sent"
    /\ Issue(a, tok, req[a].user)
    /\ UNCHANGED <<kind, store, memory, open, faults, expiries>>

Usable(row) == row.revoked = "no" /\ ~row.expired

RefreshDecide(a) ==
    /\ req[a].op = "refresh" /\ req[a].at = "sent"
    /\ Usable(tok[req[a].token])
    /\ req' = [req EXCEPT ![a].at = "decided"]
    /\ UNCHANGED <<kind, tok, store, memory, open, faults, expiries>>

Revoke(t, why) == [tok EXCEPT ![t].revoked = IF @ = "no" THEN why ELSE @]

\* Whatever has become of the token since it was read: it is marked, and a successor is issued.
RefreshCommit(a) ==
    LET t == req[a].token IN
    /\ req[a].op = "refresh" /\ req[a].at = "decided"
    /\ Issue(a, Revoke(t, "refresh"), tok[t].user)
    /\ UNCHANGED <<kind, store, memory, open, faults, expiries>>

\* "Possible theft": everything issued to the user is revoked.
ReuseCommit(a) ==
    LET t == req[a].token IN
    /\ req[a].op = "refresh" /\ req[a].at = "sent"
    /\ ~Usable(tok[t])
    /\ tok' = [r \in Tokens |-> IF tok[r].user = tok[t].user /\ tok[r].revoked = "no"
                                THEN [tok[r] EXCEPT !.revoked = "reuse"] ELSE tok[r]]
    /\ Answer(a, "refused", None)
    /\ UNCHANGED <<kind, store, memory, open, faults, expiries>>

LogoutCommit(a) ==
    /\ req[a].op = "logout" /\ req[a].at = "sent"
    /\ tok' = Revoke(req[a].token, "logout")
    /\ Answer(a, "accepted", None)
    /\ UNCHANGED <<kind, store, memory, open, faults, expiries>>

Serve(a) == \/ LoginCommit(a) \/ RefreshDecide(a) \/ RefreshCommit(a) 
            \/ ReuseCommit(a) \/ LogoutCommit(a)

-----------------------------------------------------------------------------
(* The clients receive *)

Fault == faults + expiries < MaxMishaps /\ faults' = faults + 1

\* Mutant of Keep: every client writes an entry of its own.
KeepApart(a, t) ==
    /\ store' = [s \in Stores \cup {a} |-> IF s = a THEN t ELSE store[s]]
    /\ UNCHANGED memory

Keep(a, t) ==
    /\ store' = [store EXCEPT ![StoreOf(a)] = t]
    /\ memory' = IF kind[a] = "command" THEN [memory EXCEPT ![a] = t] ELSE memory

\* A logout of a client that holds no token sends nothing, and still clears the store: a
\* command may so delete what another one has saved since it was started.
LogoutLocally(a) ==
    /\ req[a] = Idle /\ Held(a) = None
    /\ kind[a] = "tab" => a \in open
    /\ Keep(a, None)
    /\ open' = open \ {a}
    /\ UNCHANGED <<kind, req, faults, expiries>>
    /\ Forget

\* A tab is loaded, and forgets the request that it waits for.  With an access token it asks
\* for its user.  The pages are shown if it gets one (or if the orchestrator does not even say
\* whether it wants logins); otherwise the login page is, and the tokens stay: a 401 of
\* /auth/me is neither refreshed nor clears them.  A closed tab is like one at the login page.
Reload(a) ==
    /\ kind[a] = "tab"
    /\ open' \in {open \cup {a}, open \ {a}}
    /\ IF req[a].waiting THEN Fault /\ req' = [req EXCEPT ![a].waiting = FALSE]
                         ELSE UNCHANGED <<req, faults>>
    /\ UNCHANGED <<kind, tok, store, memory, expiries>>

\* A new invocation of the command-line client.
Load(c) ==
    /\ kind[c] = "command"
    /\ req[c] = Idle
    /\ memory[c] # store["file"]
    /\ memory' = [memory EXCEPT ![c] = store["file"]]
    /\ UNCHANGED <<kind, store, open, req, faults, expiries>>
    /\ Forget

\* Mutant of Received: a failed refresh leaves the tokens where they are.
ReceivedKeepsTokens(a) ==
    IF req[a].issued # None THEN Keep(a, req[a].issued)
    ELSE IF req[a].op = "logout" THEN Keep(a, None) ELSE UNCHANGED <<store, memory>>

\* Mutant of Received: a refresh renews the access token only.
ReceivedAccessToken(a) ==
    IF req[a].op = "login" /\ req[a].issued # None THEN Keep(a, req[a].issued)
    ELSE IF req[a].op = "logout" \/ req[a].at = "refused"
         THEN Keep(a, None) ELSE UNCHANGED <<store, memory>>

\* A logout drops the tokens whatever the answer is, a refresh when it is refused.
Received(a) ==
    IF req[a].issued # None THEN Keep(a, req[a].issued)
    ELSE IF req[a].op \in {"refresh", "logout"} THEN Keep(a, None)
    ELSE UNCHANGED <<store, memory>>

\* A tab sets its user when its login was accepted and /auth/me answers, and resets it when
\* its logout was accepted; a logout that fails leaves the pages as they are.
Shown(a) ==
    IF kind[a] = "tab" /\ req[a].at = "accepted" /\ req[a].op # "refresh"
    THEN open' \in IF req[a].op = "login" THEN {open, open \cup {a}} ELSE {open \ {a}}
    ELSE UNCHANGED open

Receive(a) ==
    /\ req[a].at \in {"accepted", "refused"}
    /\ IF req[a].waiting THEN Received(a) /\ Shown(a) ELSE UNCHANGED <<store, memory, open>>
    /\ req' = [req EXCEPT ![a] = Idle]
    /\ UNCHANGED <<kind, faults, expiries>>
    /\ Forget

\* No reply in time.  The handler goes on.  The browser takes it for a refusal; the
\* command-line client keeps its tokens, except when it logs out.
GiveUp(a) ==
    /\ req[a].waiting
    /\ Fault
    /\ req' = [req EXCEPT ![a].waiting = FALSE]
    /\ IF req[a].op = "logout" \/ (req[a].op = "refresh" /\ kind[a] = "tab")
         THEN Keep(a, None) ELSE UNCHANGED <<store, memory>>
    /\ UNCHANGED <<kind, open, expiries>>
    /\ Forget

\* The transaction is rolled back and the answer is an error status.
ServerError(a) ==
    /\ req[a].at \in {"sent", "decided"}
    /\ Fault
    /\ Answer(a, "refused", None)
    /\ UNCHANGED <<kind, tok, store, memory, open, expiries>>

\* Seven days without a refresh.
Expire(t) ==
    /\ faults + expiries < MaxMishaps
    /\ Known(t) /\ tok[t].user # None /\ ~tok[t].expired
    /\ tok' = [tok EXCEPT ![t].expired = TRUE]
    /\ expiries' = expiries + 1
    /\ UNCHANGED <<kind, store, memory, open, req, faults>>

Ask(a) == Refresh(a) \/ Logout(a) \/ \E u \in Users : Login(a, u)

Next ==
    \/ \E a \in Clients : Ask(a) \/ Serve(a) \/ Receive(a)
                         \/ LogoutLocally(a) \/ Reload(a)
                         \/ GiveUp(a) \/ ServerError(a)
    \/ \E c \in Clients : Load(c)
    \/ \E t \in Tokens : Expire(t)

Spec == Init /\ [][Next]_vars

\* Requests are handled and answered.  Pages that are shown send requests: those of runs,
\* triggers and logs poll, the others are used.  Nothing is assumed of the login page, or that
\* a tab shows its pages.  Scripts go on to call the command-line client.
FairSpec ==
    /\ Spec
    /\ \A a \in Clients : WF_vars(Serve(a) \/ Receive(a)) /\ SF_vars(Refresh(a))
    /\ \A c \in Clients : SF_vars(Load(c))

-----------------------------------------------------------------------------
(* What a session promises *)

\* As long as no reply gets lost, a client's stored token has only been rotated or logged out
\* on the server if the reply that replaces it in the store is on its way.  Otherwise the next
\* refresh would look like a theft.  It says nothing of the tokens that a theft revokes: two
\* refreshes that present one token can be taken for one.
RotatedTokenIsReplaced ==
    faults = 0 =>
        \A s \in Stores : store[s] # None /\ tok[store[s]].revoked \in {"refresh", "logout"} =>
            \E a \in Clients : StoreOf(a) = s /\ req[a].token = store[s] /\ req[a].waiting

\* The clients that use a store do not sit for ever on a session that the server has ended,
\* whatever others write to it.  localStorage is in use while a tab shows its pages.
InUse(s) == s = "browser" => open # {}

EndedSessionsAreDropped ==
    \A s \in Stores : []<>(store[s] = None \/ Usable(tok[store[s]]) \/ ~InUse(s))

\* "Stale token - request() already cleared it": a tab that has tokens of a session that has
\* ended, and gets no user for them when it loads, drops them.
StaleTokensAreCleared ==
    [][\A a \in Clients :
          /\ Reload(a) /\ a \notin open'
          /\ store["browser"] # None /\ ~Usable(tok[store["browser"]])
          => store'["browser"] = None]_vars
=============================================================================

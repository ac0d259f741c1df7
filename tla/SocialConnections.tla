------------------------- MODULE SocialConnections -------------------------
(***************************************************************************)
(* The one account connected per social network, and its tokens.  A refresh *)
(* keeps the row locked across the call to the network: TikTok takes back   *)
(* the refresh token it is shown and issues another, Reddit keeps it.        *)
(* Transactions are one step unless a call lies within them.                *)
(***************************************************************************)
EXTENDS Naturals, FiniteSets

CONSTANTS
    Accounts,  \* the network's accounts that are connected one after the other
    Requests,  \* administration requests and worker jobs that can overlap
    MaxTokens, \* refresh tokens the network issues in a behaviour
    MaxLosses  \* failing calls and statements, lost answers and ends of processes

ASSUME SocialAssumption == MaxTokens \in Nat /\ MaxLosses \in Nat

VARIABLES
    network,   \* which of the two networks this is about
    valid,     \* the account's refresh tokens that the network accepts
    issued,
    row,       \* social_connections: status, refresh token, and whether the access token is due
    lock,      \* who holds the row
    request,   \* what each request is doing, for which account, with which token
    events,    \* what has happened: an account was disconnected or replaced by another, or a
               \* token was asked for when none was connected
    losses

socialVars == <<network, valid, issued, row, lock, request, events, losses>>

Active == {"connected", "refresh_failed"}
Tokens == 1..MaxTokens
NoRequest == [at |-> "rest", account |-> {}, token |-> 0]

SocialInit ==
    /\ network \in {"tiktok", "reddit"}
    /\ valid = [a \in Accounts |-> {}] /\ issued = 0
    /\ row = [a \in Accounts |-> [status |-> "none", token |-> 0, due |-> FALSE]]
    /\ lock = [a \in Accounts |-> {}]
    /\ request = [q \in Requests |-> NoRequest]
    /\ events = {} /\ losses = 0

Loss == losses < MaxLosses /\ losses' = losses + 1
NoLoss == UNCHANGED losses
Connected == {a \in Accounts : row[a].status = "connected"}
Unlocked(accounts) == \A a \in accounts : lock[a] = {}
Asks(q, step, a) == request[q].at = step /\ a \in request[q].account
Proceed(q, step) == request' = [request EXCEPT ![q].at = step]
Done(q) == request' = [request EXCEPT ![q] = NoRequest]

\* Access tokens last a day, or an hour.
AccessTokenDue(a) ==
    /\ row[a].status = "connected" /\ ~row[a].due /\ Unlocked({a})
    /\ row' = [row EXCEPT ![a].due = TRUE]
    /\ UNCHANGED <<network, valid, issued, lock, request, events, losses>>

-----------------------------------------------------------------------------
(* Connecting: the callback of the authorization.                           *)

Issue(a, spent) ==
    /\ issued < MaxTokens /\ issued' = issued + 1
    /\ valid' = [valid EXCEPT ![a] = (@ \ spent) \cup {issued + 1}]

Authorize(q, a) ==
    /\ request[q].at = "rest"
    /\ Issue(a, {})
    /\ request' = [request EXCEPT ![q] = [at |-> "save", account |-> {a}, token |-> issued + 1]]
    /\ UNCHANGED <<network, row, lock, events, losses>>

\* save*Connection.  Of two saves at a time one can fail on the unique index.
Save(q, a) ==
    /\ Asks(q, "save", a) /\ Done(q)
    /\ LET others == {b \in Accounts \ {a} : row[b].status \in Active}
       IN \/ /\ Unlocked(others \cup {a})
             /\ row' = [b \in Accounts |->
                          IF b = a THEN [status |-> "connected", token |-> request[q].token, due |-> FALSE]
                          ELSE IF b \in others THEN [row[b] EXCEPT !.status = "disconnected"]
                          ELSE row[b]]
             /\ events' = IF others = {} THEN events ELSE events \cup {"replaced"}
             /\ NoLoss
          \/ /\ UNCHANGED <<row, events>>
             /\ IF \E p \in Requests \ {q} : request[p].at = "save" THEN NoLoss ELSE Loss
    /\ UNCHANGED <<network, valid, issued, lock>>

-----------------------------------------------------------------------------
(* getValid*AccessToken                                                      *)

\* The select finds the connected row, and waits for its lock, or finds none and throws.
Select(q) ==
    /\ request[q].at = "rest"
    /\ \/ \E a \in Connected :
             request' = [request EXCEPT ![q] = [at |-> "wait", account |-> {a}, token |-> 0]]
       \/ Connected = {} /\ Proceed(q, "mark")
    /\ events' = IF Connected = {} THEN events \cup {"missed"} ELSE events
    /\ UNCHANGED <<network, valid, issued, row, lock, losses>>

\* Mutant: the select does not lock the row.
LockNothing(q, a) == UNCHANGED lock

TakeRow(q, a) == lock' = [lock EXCEPT ![a] = {q}]
Release(q) == lock' = [a \in Accounts |-> lock[a] \ {q}]

\* With the lock, the row is looked at again: no longer connected, fresh, or due.
LookAgain(q, a) ==
    /\ Asks(q, "wait", a) /\ Unlocked({a})
    /\ IF row[a].status # "connected" THEN Proceed(q, "mark") /\ UNCHANGED lock
       ELSE IF ~row[a].due THEN Done(q) /\ UNCHANGED lock
       ELSE /\ TakeRow(q, a)
            /\ request' = [request EXCEPT ![q].at = "refresh", ![q].token = row[a].token]
    /\ UNCHANGED <<network, valid, issued, row, events, losses>>

\* The network issues a token, refuses, is not reached, or its answer is lost.
Refresh(q, a) ==
    /\ Asks(q, "refresh", a)
    /\ \/ /\ request[q].token \in valid[a]
          /\ IF network = "tiktok" THEN Issue(a, {request[q].token}) ELSE UNCHANGED <<valid, issued>>
          /\ \/ /\ request' = [request EXCEPT ![q].at = "store",
                                              ![q].token = IF network = "tiktok" THEN issued + 1 ELSE @]
                /\ UNCHANGED lock /\ NoLoss
             \/ Proceed(q, "mark") /\ Release(q) /\ Loss
       \/ /\ UNCHANGED <<valid, issued>> /\ Proceed(q, "mark") /\ Release(q)
          /\ IF request[q].token \in valid[a] THEN Loss ELSE NoLoss
    /\ UNCHANGED <<network, row, events>>

\* The update and its commit, or an error that rolls it back.
Store(q, a) ==
    /\ Asks(q, "store", a) /\ Release(q)
    /\ \/ /\ row' = [row EXCEPT ![a] = [status |-> "connected", token |-> request[q].token, due |-> FALSE]]
          /\ Done(q) /\ NoLoss
       \/ UNCHANGED row /\ Proceed(q, "mark") /\ Loss
    /\ UNCHANGED <<network, valid, issued, events>>

\* markRefreshFailure: after the rollback, for whatever row is connected by then.
Mark(q) ==
    /\ request[q].at = "mark" /\ Done(q)
    /\ \/ /\ Unlocked(Connected) /\ NoLoss
          /\ row' = [a \in Accounts |-> IF a \in Connected THEN [row[a] EXCEPT !.status = "refresh_failed"]
                                        ELSE row[a]]
       \/ UNCHANGED row /\ Loss
    /\ UNCHANGED <<network, valid, issued, lock, events>>

-----------------------------------------------------------------------------
(* disconnect*Connection                                                     *)

ReadActive(q, a) ==
    /\ request[q].at = "rest" /\ row[a].status \in Active
    /\ request' = [request EXCEPT ![q] = [at |-> "revoke", account |-> {a}, token |-> row[a].token]]
    /\ UNCHANGED <<network, valid, issued, row, lock, events, losses>>

\* The account's tokens are revoked, or the call has no effect; the row is updated in any case.
Revoke(q, a) ==
    /\ Asks(q, "revoke", a) /\ Proceed(q, "forget")
    /\ \/ request[q].token \in valid[a] /\ valid' = [valid EXCEPT ![a] = {}] /\ NoLoss
       \/ UNCHANGED valid /\ IF request[q].token \in valid[a] THEN Loss ELSE NoLoss
    /\ events' = events \cup {"disconnected"}
    /\ UNCHANGED <<network, issued, row, lock>>

\* By id, whatever has happened to the row.
Forget(q, a) ==
    /\ Asks(q, "forget", a) /\ Unlocked({a}) /\ Done(q)
    /\ row' = [row EXCEPT ![a].status = "disconnected"]
    /\ UNCHANGED <<network, valid, issued, lock, events, losses>>

\* The process ends, and the database gives the lock back.
RequestEnds(q) ==
    /\ request[q].at # "rest" /\ Loss /\ Done(q) /\ Release(q)
    /\ UNCHANGED <<network, valid, issued, row, events>>

SocialNext ==
    \/ \E a \in Accounts : AccessTokenDue(a)
    \/ \E q \in Requests :
          \/ Select(q) \/ Mark(q) \/ RequestEnds(q)
          \/ \E a \in Accounts : \/ Authorize(q, a) \/ Save(q, a) \/ LookAgain(q, a) \/ Refresh(q, a)
                                 \/ Store(q, a) \/ ReadActive(q, a) \/ Revoke(q, a) \/ Forget(q, a)

SocialSpec == SocialInit /\ [][SocialNext]_socialVars

-----------------------------------------------------------------------------
(* Properties                                                                *)

\* Every row and request holds what the code can write there.
SocialTypeOK ==
    /\ valid \in [Accounts -> SUBSET Tokens] /\ issued \in 0..MaxTokens
    /\ row \in [Accounts -> [status : Active \cup {"none", "disconnected"}, token : 0..MaxTokens,
                             due : BOOLEAN]]
    /\ lock \in [Accounts -> SUBSET Requests]
    /\ request \in [Requests -> [at : {"rest", "save", "wait", "refresh", "store", "mark", "revoke",
                                       "forget"}, account : SUBSET Accounts, token : 0..MaxTokens]]
    /\ events \subseteq {"replaced", "missed", "disconnected"} /\ losses \in 0..MaxLosses

\* However refreshes and new authorizations overlap, nothing but a loss or a disconnection leaves
\* a connected account with a token the network no longer takes; and nothing but these, a change
\* of accounts, or a token asked for before one was connected marks an account as failed.
ConnectionIsUsable ==
    losses = 0 =>
        \A a \in Accounts :
            /\ (row[a].status = "connected" /\ lock[a] = {} /\ "disconnected" \notin events)
                  => row[a].token \in valid[a]
            /\ row[a].status = "refresh_failed" => events # {}
=============================================================================

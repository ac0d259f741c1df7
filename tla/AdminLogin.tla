----------------------------- MODULE AdminLogin -----------------------------
(***************************************************************************)
(* The limit on failed logins of the administration: counters by address and *)
(* by client, in the memory of the process, each with the end of its window. *)
(* Nothing is awaited between the check and the count, so a login is a step. *)
(***************************************************************************)
EXTENDS Naturals, Sequences, FiniteSets

CONSTANTS
    Admins, Addresses, \* who logs in, from where
    MaxFailures,       \* MAX_FAILURES
    Window,            \* WINDOW_MS
    LastMoment, MaxRestarts

ASSUME LoginAssumption ==
    /\ MaxFailures \in Nat \ {0} /\ Window \in Nat \ {0}
    /\ LastMoment \in Nat /\ MaxRestarts \in Nat

VARIABLES
    moment,
    limit,    \* the map of the process: {} or one counter by key
    failed,   \* history: when logins of a key failed, since its last login that succeeded
    restarts

loginVars == <<moment, limit, failed, restarts>>

LimitKeys == Admins \cup Addresses

LoginInit ==
    /\ moment = 0 /\ restarts = 0
    /\ limit = [k \in LimitKeys |-> {}]
    /\ failed = [k \in LimitKeys |-> <<>>]

Advance ==
    /\ moment < LastMoment /\ moment' = moment + 1
    /\ UNCHANGED <<limit, failed, restarts>>

\* A deployment or the end of the process.
Restart ==
    /\ restarts < MaxRestarts /\ restarts' = restarts + 1
    /\ limit' = [k \in LimitKeys |-> {}]
    /\ UNCHANGED <<moment, failed>>

\* The client's address may be unknown.
KeysOfLogin(email, address) == {email} \cup address

Running(k) == {c \in limit[k] : c.resetAt > moment}
Blocks(k) == \E c \in Running(k) : c.failures >= MaxFailures

Allowed(email, address) == \A k \in KeysOfLogin(email, address) : ~Blocks(k)

\* checkAdminLoginRateLimit removes the counters it finds expired.
Checked(keys) == [k \in LimitKeys |-> IF k \in keys THEN Running(k) ELSE limit[k]]

Deny(email, address) ==
    /\ ~Allowed(email, address)
    /\ limit' = Checked(KeysOfLogin(email, address))
    /\ UNCHANGED <<moment, failed, restarts>>

\* recordAdminLoginFailure: a window begins with its first failure and is not moved.
Counted(k) ==
    IF Running(k) = {} THEN {[failures |-> 1, resetAt |-> moment + Window]}
    ELSE {[c EXCEPT !.failures = @ + 1] : c \in Running(k)}

Refuse(email, address) ==
    LET keys == KeysOfLogin(email, address)
    IN  /\ Allowed(email, address)
        /\ limit' = [k \in LimitKeys |-> IF k \in keys THEN Counted(k) ELSE limit[k]]
        /\ failed' = [k \in LimitKeys |-> IF k \in keys THEN Append(failed[k], moment) ELSE failed[k]]
        /\ UNCHANGED <<moment, restarts>>

\* clearAdminLoginFailures
Admit(email, address) ==
    LET keys == KeysOfLogin(email, address)
    IN  /\ Allowed(email, address)
        /\ limit' = [k \in LimitKeys |-> IF k \in keys THEN {} ELSE limit[k]]
        /\ failed' = [k \in LimitKeys |-> IF k \in keys THEN <<>> ELSE failed[k]]
        /\ UNCHANGED <<moment, restarts>>

LoginNext ==
    \/ Advance \/ Restart
    \/ \E email \in Admins, address \in {{}} \cup {{a} : a \in Addresses} :
          Deny(email, address) \/ Refuse(email, address) \/ Admit(email, address)

LoginSpec == LoginInit /\ [][LoginNext]_loginVars

-----------------------------------------------------------------------------
(* Properties                                                                *)

\* Counters are what the code can write.
LoginTypeOK ==
    /\ moment \in 0..LastMoment /\ restarts \in 0..MaxRestarts
    /\ \A k \in LimitKeys :
          /\ Cardinality(limit[k]) <= 1
          /\ \A c \in limit[k] : c.failures \in Nat \ {0} /\ c.resetAt \in Window..moment + Window

\* Since its last success, and within the length of a window, an address or a client fails less
\* than twice as often as the limit allows, wherever the windows begin and however the two are
\* combined; each restart allows the limit once more, and each success begins anew.
FailuresAreBounded ==
    \A k \in LimitKeys : \A t \in 0..LastMoment :
        Cardinality({i \in DOMAIN failed[k] : failed[k][i] \in t..t + Window - 1})
            <= (restarts + 2) * MaxFailures - 1
=============================================================================

--------------------------- MODULE CustomerSignIn ---------------------------
(***************************************************************************)
(* Signing in to the widget account: a request mails a link, the link signs  *)
(* in once. A session is a signed cookie; what it may do is WidgetAccount's.  *)
(***************************************************************************)
EXTENDS Naturals, FiniteSets

CONSTANTS
    SignIns,     \* requests for a link that may overlap, all for one customer
    Links,       \* rows of widget_customer_login_tokens
    MaxRecent,   \* links of one customer within Recent
    Recent,      \* 15 minutes
    Lifetime,    \* of a link: 20 minutes
    EndOfTime,
    MaxMailErrors

ASSUME SignInAssumption ==
    /\ MaxRecent \in Nat \ {0} /\ Recent \in Nat \ {0} /\ Lifetime \in Nat \ {0}
    /\ EndOfTime \in Nat /\ MaxMailErrors \in Nat
    /\ IsFiniteSet(SignIns) /\ IsFiniteSet(Links)

VARIABLES
    time,
    status,  \* widget_customers.status
    link,    \* the stored links: {} or one record by name
    asking,  \* what each request is doing
    mailed,  \* links that may have reached the customer
    session, \* sessions given out: the link, and when
    erred

signInVars == <<time, status, link, asking, mailed, session, erred>>

Served == {"active", "past_due"}

SignInInit ==
    /\ time = 0 /\ status = "active"
    /\ link = [l \in Links |-> {}]
    /\ asking = [r \in SignIns |-> [at |-> "idle", with |-> {}]]
    /\ mailed = {} /\ session = {} /\ erred = 0

TimePasses ==
    /\ time < EndOfTime /\ time' = time + 1
    /\ UNCHANGED <<status, link, asking, mailed, session, erred>>

\* The webhook and the administration change the customer's status.
ChangeStatus(s) ==
    /\ status # s /\ status' = s
    /\ UNCHANGED <<time, link, asking, mailed, session, erred>>

-----------------------------------------------------------------------------
(* auth/request                                                              *)

AskingAt(r, step) == asking[r].at = step
Ask(r, step, with) == asking' = [asking EXCEPT ![r] = [at |-> step, with |-> with]]

FindCustomer(r) ==
    /\ AskingAt(r, "idle") /\ status \in Served
    /\ Ask(r, "count", {})
    /\ UNCHANGED <<time, status, link, mailed, session, erred>>

Stored == {l \in Links : link[l] # {}}
Young(l) == \E row \in link[l] : row.created + Recent > time

\* Mutant: links that were used are not counted.
RecentUnused == {l \in Stored : Young(l) /\ \A row \in link[l] : row.used = {}}

RecentLinks == {l \in Stored : Young(l)}

CountLinks(r) ==
    /\ AskingAt(r, "count")
    /\ Ask(r, IF Cardinality(RecentLinks) >= MaxRecent THEN "idle" ELSE "insert", {})
    /\ UNCHANGED <<time, status, link, mailed, session, erred>>

\* Links are random; which name stands for the next one makes no difference.
InsertLink(r) ==
    /\ AskingAt(r, "insert") /\ Stored # Links
    /\ LET l == CHOOSE k \in Links : link[k] = {}
       IN  /\ link' = [link EXCEPT
                  ![l] = {[created |-> time, expires |-> time + Lifetime, used |-> {}]}]
           /\ Ask(r, "mail", {l})
    /\ UNCHANGED <<time, status, mailed, session, erred>>

MailLink(r) ==
    /\ AskingAt(r, "mail") /\ Ask(r, "idle", {})
    /\ mailed' = mailed \cup asking[r].with
    /\ UNCHANGED <<time, status, link, session, erred>>

\* A statement throws, or the mail's answer: the same answer goes out, the link stays stored.
AskingFails(r) ==
    /\ ~AskingAt(r, "idle") /\ erred < MaxMailErrors /\ erred' = erred + 1
    /\ Ask(r, "idle", {})
    /\ mailed' \in {mailed, mailed \cup asking[r].with}
    /\ UNCHANGED <<time, status, link, session>>

-----------------------------------------------------------------------------
(* auth/verify and the account                                               *)

Unspent(row) == row.used = {} /\ row.expires > time

\* One statement finds the link, its customer, and marks it.
OpenLink(l) ==
    /\ l \in mailed /\ status \in Served
    /\ \E row \in link[l] :
          /\ Unspent(row)
          /\ link' = [link EXCEPT ![l] = {[row EXCEPT !.used = @ \cup {time}]}]
    /\ session' = session \cup {[link |-> l, from |-> time]}
    /\ UNCHANGED <<time, status, asking, mailed, erred>>

SignInNext ==
    \/ TimePasses \/ \E s \in Served \cup {"deactivated"} : ChangeStatus(s)
    \/ \E r \in SignIns :
          FindCustomer(r) \/ CountLinks(r) \/ InsertLink(r) \/ MailLink(r) \/ AskingFails(r)
    \/ \E l \in Links : OpenLink(l)

SignInSpec == SignInInit /\ [][SignInNext]_signInVars

-----------------------------------------------------------------------------
(* Properties                                                                *)

\* Links, requests and sessions are what the code can write.
SignInTypeOK ==
    /\ time \in 0..EndOfTime /\ status \in Served \cup {"deactivated"} /\ erred \in 0..MaxMailErrors
    /\ \A l \in Links : \A row \in link[l] :
          row.created + Lifetime = row.expires /\ row.used \subseteq 0..time
    /\ \A r \in SignIns : asking[r].with \subseteq Stored
    /\ mailed \subseteq Stored

\* In no quarter of an hour does a customer get more links than the limit and the requests that
\* had counted before one of the others inserted.
LinksAreLimited ==
    \A t \in 0..EndOfTime :
        Cardinality({l \in Stored : \E row \in link[l] : row.created \in t..t + Recent - 1})
            <= MaxRecent + Cardinality(SignIns) - 1

\* A session goes back to a link that was mailed, opened in its lifetime, and opened only once.
OneSessionPerLink ==
    \A s \in session :
        /\ \E row \in link[s.link] : s.from \in row.created..row.expires - 1
        /\ \A u \in session : u.link = s.link => u = s
=============================================================================

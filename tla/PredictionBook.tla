--------------------------- MODULE PredictionBook ---------------------------
(***************************************************************************)
(* What the prediction archive promises: a match has at most one current    *)
(* prediction per profile, and whatever was current once is archived for    *)
(* good.  No job runs, transactions or retries here: storing is one step,   *)
(* and the same answer is stored at most once.                              *)
(***************************************************************************)
CONSTANTS Matches, Profiles, Answers, NoAnswer

VARIABLES current, archive

book == <<current, archive>>

Init == /\ current = [m \in Matches |-> [p \in Profiles |-> NoAnswer]]
        /\ archive = {}

Store(m, p, a) == /\ <<m, p, a>> \notin archive
                  /\ current' = [current EXCEPT ![m][p] = a]
                  /\ archive' = archive \cup {<<m, p, a>>}

Next == \E m \in Matches, p \in Profiles, a \in Answers : Store(m, p, a)

Spec == Init /\ [][Next]_book
=============================================================================

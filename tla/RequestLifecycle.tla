-------------------------- MODULE RequestLifecycle --------------------------
(***************************************************************************)
(* What the queue promises about one movie request, whoever serves it: the *)
(* life cycle that internal/storage/model.go documents status by status.   *)
(* There are no workers, no handlers and no files here, only the status of *)
(* every request and the number of attempts it has used.                   *)
(*                                                                         *)
(*   - a request is worked on only after it was queued, and every attempt  *)
(*     ends in an answer, a failure or back in the queue;                  *)
(*   - a resting request moves only because the operator acts on it, and a *)
(*     DOWNLOADED one only to be removed;                                  *)
(*   - an attempt may go back to the queue only while attempts are left,   *)
(*     except at a restart, which gives every interrupted attempt back.    *)
(***************************************************************************)
EXTENDS Naturals

CONSTANTS Ids,          \* the requests that may ever exist
          MaxAttempts   \* RETRY_MAX_ATTEMPTS

VARIABLES status, tries

lifeVars == <<status, tries>>

Resting == {"DOWNLOADED", "NOT_FOUND", "FAILED", "DUPLICATE", "CANCELLED"}
Working == {"SEARCHING", "FOUND"}

LifeInit == /\ status = [i \in Ids |-> "ABSENT"]
            /\ tries  = [i \in Ids |-> 0]

\* A submission stores every line, as work to do or as a rejected duplicate.
Admit == \E S \in SUBSET Ids : \E new \in [S -> {"QUEUED", "DUPLICATE"}] :
           /\ \A i \in S : status[i] = "ABSENT"
           /\ status' = [i \in Ids |-> IF i \in S THEN new[i] ELSE status[i]]
           /\ UNCHANGED tries

Begin(i) == /\ status[i] = "QUEUED"
            /\ status' = [status EXCEPT ![i] = "SEARCHING"]
            /\ tries' = [tries EXCEPT ![i] = @ + 1]

Select(i) == /\ status[i] = "SEARCHING"
             /\ status' = [status EXCEPT ![i] = "FOUND"]
             /\ UNCHANGED tries

\* NOT_FOUND answers a search, DOWNLOADED a selected release; either can fail.
Conclude(i) == /\ \E s \in Resting :
                    /\ \/ s = "FAILED"     /\ status[i] \in Working
                       \/ s = "NOT_FOUND"  /\ status[i] = "SEARCHING"
                       \/ s = "DOWNLOADED" /\ status[i] = "FOUND"
                    /\ status' = [status EXCEPT ![i] = s]
               /\ UNCHANGED tries

GiveBack(i) == /\ status[i] \in Working
               /\ tries[i] < MaxAttempts
               /\ status' = [status EXCEPT ![i] = "QUEUED"]
               /\ UNCHANGED tries

Restart == /\ status' = [i \in Ids |-> IF status[i] \in Working THEN "QUEUED" ELSE status[i]]
           /\ UNCHANGED tries

Withdraw(i) == /\ status[i] = "QUEUED"
               /\ status' = [status EXCEPT ![i] = "CANCELLED"]
               /\ UNCHANGED tries

\* The operator may ask again for anything that rests without a file.
Reopen(i) == /\ status[i] \in Resting \ {"DOWNLOADED"}
             /\ \E s \in {"QUEUED", "DUPLICATE"} : status' = [status EXCEPT ![i] = s]
             /\ tries' = [tries EXCEPT ![i] = 0]

Remove(i) == /\ status[i] \notin {"ABSENT", "DELETED"}
             /\ status' = [status EXCEPT ![i] = "DELETED"]
             /\ tries' = [tries EXCEPT ![i] = 0]

LifeNext == \/ Admit
            \/ Restart
            \/ \E i \in Ids : \/ Begin(i) \/ Select(i) \/ Conclude(i) \/ GiveBack(i)
                              \/ Withdraw(i) \/ Reopen(i) \/ Remove(i)

LifeSpec == LifeInit /\ [][LifeNext]_lifeVars
=============================================================================

------------------------------ MODULE JobQueue ------------------------------
(***************************************************************************)
(* What the spool of sim/simq.py promises, with no file, pidfile or        *)
(* polling in it: a job is queued once, claimed by one worker, and either  *)
(* finished by the worker that claimed it, dropped before anybody claimed  *)
(* it, or left visibly claimed by a worker that died.                      *)
(***************************************************************************)
CONSTANTS Jobs, Workers,
          NoWorker   \* not one of Workers

VARIABLES status,   \* what became of each job
          worker    \* the worker that holds a claimed job

vars == <<status, worker>>

Statuses == {"new", "queued", "claimed", "finished", "dropped"}

Init == /\ status = [j \in Jobs |-> "new"]
        /\ worker = [j \in Jobs |-> NoWorker]

Move(j, from, to, w) == /\ status[j] = from
                        /\ status' = [status EXCEPT ![j] = to]
                        /\ worker' = [worker EXCEPT ![j] = w]

Submit(j)   == Move(j, "new", "queued", NoWorker)
Drop(j)     == Move(j, "queued", "dropped", NoWorker)
Claim(j, w) == w \in Workers /\ Move(j, "queued", "claimed", w)

\* Only the worker that holds the job may finish it.
Finish(j)   == worker[j] \in Workers /\ Move(j, "claimed", "finished", NoWorker)

\* A worker that dies takes none of its claims with it: they stay claimed.
Die(w) == /\ \E j \in Jobs : worker[j] = w
          /\ worker' = [j \in Jobs |-> IF worker[j] = w THEN NoWorker ELSE worker[j]]
          /\ UNCHANGED status

\* A claim that its worker gave up on (its record cannot be finished).
Abandon(j) == /\ worker[j] \in Workers
              /\ worker' = [worker EXCEPT ![j] = NoWorker]
              /\ UNCHANGED status

Next == \/ \E j \in Jobs : \/ Submit(j) \/ Drop(j) \/ Finish(j) \/ Abandon(j)
                           \/ \E w \in Workers : Claim(j, w)
        \/ \E w \in Workers : Die(w)

Spec == Init /\ [][Next]_vars
=============================================================================

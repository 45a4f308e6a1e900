------------------------------- MODULE Sessions -------------------------------
(***************************************************************************)
(* The database session of a request (core/db.py, get_db): one             *)
(* transaction, begun by what the handler reads first and ended by its     *)
(* commit, or by the rollback after an exception.  What a request in       *)
(* flight has read, and what it writes, each module says for itself.       *)
(***************************************************************************)
CONSTANT Requests    \* requests that may be in flight at the same time

VARIABLE req         \* what each of them carries

Idle == [op |-> "idle"]

Start(t, request) == req[t] = Idle /\ req' = [req EXCEPT ![t] = request]
Finish(t) == req' = [req EXCEPT ![t] = Idle]
==============================================================================

------------------------------ MODULE Requests ------------------------------
(***************************************************************************)
(* What the HTTP handlers of the API have in common.                       *)
(*                                                                         *)
(* A request runs on the single Node.js event loop.  Between two awaited   *)
(* SQL statements it runs without interruption, and at every await any     *)
(* other request may run.  The pool executes each statement in autocommit, *)
(* so a statement is one atomic step on the database.  The control state   *)
(* of a request is therefore either "idle" (not sent), the name of the     *)
(* statement it will run next, or the answer it was given.                 *)
(***************************************************************************)

CONSTANT Nil  \* SQL NULL, and "no row" or "no value" in the service code

(* "duplicate" is the error Postgres raises when a UNIQUE index rejects a  *)
(* row.  "failed" is every other error: the statement or the connection    *)
(* fails, the process dies, or the answer is lost on its way.  The client  *)
(* sees a 500 for both, as GlobalExceptionFilter gives every exception     *)
(* that is not an HttpException.                                           *)
Answers == {"created", "ok", "noContent", "unauthorized", "forbidden",
            "notFound", "conflict", "tooManyRequests", "duplicate", "failed"}

(* The answers a request may end with once its last statement committed:   *)
(* executeQuery logs an error and throws it again, so a connection lost    *)
(* after the commit reports an error for a statement that took effect.     *)
Committed(answer) == {answer, "failed"}

=============================================================================

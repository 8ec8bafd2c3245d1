------------------------------ MODULE LeaseRow ------------------------------
(***************************************************************************)
(* One row of a leased work table: event_log (multiworker.py) or outbox    *)
(* (outbox.py).  Both tables carry the same lease columns and both stores  *)
(* run the same SQL over them; only the names of two statuses differ:      *)
(*                                                                         *)
(*            Active          Final                                        *)
(*   events   "PROCESSING"    "COMMITTED"                                  *)
(*   outbox   "SENDING"       "DISPATCHED"                                 *)
(*                                                                         *)
(* The operators below are the WHERE clauses (predicates on a row and on   *)
(* the clock reading bound to the statement) and the SET clauses (from a   *)
(* row to the updated row).  Times are integers; SQL NULL is NoTime or     *)
(* NoWorker.                                                               *)
(***************************************************************************)
EXTENDS Integers

CONSTANTS
  Active,     \* status of a leased row
  Final,      \* status of a row whose work is done
  Workers,    \* worker ids that may own a lease
  NoWorker    \* lease_owner IS NULL

NoTime == -1

Waiting  == {"PENDING", "FAILED"}
Terminal == {Final, "DEAD_LETTER"}
Statuses == {"ABSENT", Active} \cup Waiting \cup Terminal

Row == [status   : Statuses,
        owner    : Workers \cup {NoWorker},
        version  : Nat,          \* lease_version, the fencing generation
        expires  : Int,          \* lease_expires_at
        attempts : Nat,          \* attempt_count
        budget   : Nat,          \* max_attempts
        next     : Nat,          \* next_attempt_at
        created  : Nat]          \* created_at

NoRow == [status |-> "ABSENT", owner |-> NoWorker, version |-> 0,
          expires |-> NoTime, attempts |-> 0, budget |-> 0, next |-> 0,
          created |-> 0]

Fresh(now, budget) ==
  [status |-> "PENDING", owner |-> NoWorker, version |-> 0,
   expires |-> NoTime, attempts |-> 0, budget |-> budget, next |-> now,
   created |-> now]

-----------------------------------------------------------------------------
(* The statements of the two stores, on one row.  An operator named        *)
(* Faulty... is the next operator with a plausible mistake in it; it is    *)
(* used only to show that a property would notice the mistake.             *)

\* INSERT OR IGNORE: an existing row, whatever its status, is left alone.
Inserted(r, now, budget) ==
  IF r.status = "ABSENT" THEN Fresh(now, budget) ELSE r

FaultyExhausted(r, now) ==
  r.status \in Waiting \cup {Active} /\ r.attempts >= r.budget

\* WHERE clause of the dead-letter UPDATE that opens every claim.
Exhausted(r, now) ==
  /\ r.status \in Waiting \cup {Active}
  /\ r.attempts >= r.budget
  /\ r.status = Active => (r.expires = NoTime \/ r.expires <= now)

Buried(r) ==
  [r EXCEPT !.status = "DEAD_LETTER", !.owner = NoWorker, !.expires = NoTime]

FaultyClaimableLive(r, now) ==
  /\ r.attempts < r.budget
  /\ r.status = Active \/ (r.status \in Waiting /\ r.next <= now)

FaultyClaimableNoRecovery(r, now) ==
  r.attempts < r.budget /\ r.status \in Waiting /\ r.next <= now

\* WHERE clause of the SELECT that looks for work.
Claimable(r, now) ==
  /\ r.attempts < r.budget
  /\ \/ r.status \in Waiting /\ r.next <= now
     \/ r.status = Active /\ r.expires <= now

FaultyGrantedSameVersion(r, w, now, seconds) ==
  [r EXCEPT !.status = Active, !.owner = w, !.expires = now + seconds,
            !.attempts = @ + 1]

FaultyGrantedFree(r, w, now, seconds) ==
  [r EXCEPT !.status = Active, !.owner = w, !.expires = now + seconds,
            !.version = @ + 1]

\* SET clause of the UPDATE that takes the row; each grant is a new generation.
Granted(r, w, now, seconds) ==
  [r EXCEPT !.status = Active, !.owner = w, !.expires = now + seconds,
            !.version = @ + 1, !.attempts = @ + 1]

\* The fence every finalization passes inside its own transaction.
FenceHolds(r, w, version, clock) ==
  /\ r.status = Active
  /\ r.owner = w
  /\ r.version = version
  /\ r.expires # NoTime
  /\ r.expires > clock

Finalized(r) ==
  [r EXCEPT !.status = Final, !.owner = NoWorker, !.expires = NoTime]

\* A reported failure: the last permitted attempt ends in DEAD_LETTER.
Failed(r, now, backoff) ==
  [r EXCEPT !.status = IF r.attempts >= r.budget THEN "DEAD_LETTER"
                                                  ELSE "FAILED",
            !.next = now + backoff, !.owner = NoWorker, !.expires = NoTime]

Extended(r, now, seconds) == [r EXCEPT !.expires = now + seconds]
=============================================================================

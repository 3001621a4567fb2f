-------------------------------- MODULE Users --------------------------------
(***************************************************************************)
(* The user administration: the handlers of routes/users.py on the table   *)
(* user_model, as DatabaseUserRepository uses it.  Every request runs in a *)
(* transaction of its own at READ COMMITTED.  A handler first looks the    *)
(* account up and then writes it, and its transaction commits after the    *)
(* answer has been sent, so the handlers of several administrators         *)
(* interleave at these points.  A key belongs to one account for good and  *)
(* is represented by the account's id.                                     *)
(***************************************************************************)
EXTENDS Integers, Sequences

CONSTANTS
    Admins,         \* requests with the admin key that may be open together
    Emails,
    Roles,          \* roles the platform configuration declares
    Initial,        \* accounts created earlier: a sequence, its indices are the ids
    Budgets         \* bound: how many requests each of them makes, a choice of mixes

Account == [email : Emails, roles : SUBSET Roles]

ASSUME InitialAssumption ==
    /\ Initial \in Seq(Account)
    /\ \A u, v \in 1..Len(Initial) : Initial[u].email = Initial[v].email => u = v

VARIABLES
    users,          \* the committed rows of user_model, by id
    nextUser,       \* ids are fresh: uuid4
    budget,         \* the requests each of them has left
    stage,          \* "idle", "looked" (the account was looked up), "answered"
    job             \* the request: what it does, to which account

adminVars == <<users, nextUser, stage, job>>

NoJob == [op |-> "none", id |-> 0, row |-> [email |-> "none", roles |-> {}]]

-----------------------------------------------------------------------------
(* The transactions.  One that has answered has written its row: until it    *)
(* commits the row is locked, and an insert of the same email waits.         *)

Answered(a) == stage[a] = "answered"

\* A deletion may have found its row gone.
HasWritten(a) == Answered(a) /\ (job[a].op = "create" \/ job[a].id \in DOMAIN users)

\* Mistake: the session caches the row it looked up, and writes it back blindly.
UnlockedNone(a, u) == TRUE

\* UPDATE and DELETE wait for the transaction that has written the row.
Unlocked(a, u) == \A b \in Admins \ {a} : ~(HasWritten(b) /\ job[b].id = u)

EmailOf(a) == job[a].row.email

Taken(e) == \E u \in DOMAIN users : users[u].email = e

\* Mistake: the column is declared without unique=True.
SettledNoIndex(a) == TRUE

\* The unique index: an insert waits for an open transaction that has touched
\* an entry of the same email.
EmailSettled(a) ==
    \A b \in Admins \ {a} : HasWritten(b) => EmailOf(b) # EmailOf(a)

Begin(a, j) ==
    /\ stage[a] = "idle" /\ budget[a] > 0
    /\ budget' = [budget EXCEPT ![a] = @ - 1]
    /\ job' = [job EXCEPT ![a] = j]
    /\ stage' = [stage EXCEPT ![a] = "looked"]
    /\ UNCHANGED <<users, nextUser>>

\* The end of a request, with or without an error; a rollback leaves no trace.
Finish(a) ==
    /\ stage' = [stage EXCEPT ![a] = "idle"]
    /\ job' = [job EXCEPT ![a] = NoJob]

Answer(a) ==
    /\ stage' = [stage EXCEPT ![a] = "answered"]
    /\ UNCHANGED <<users, budget, job>>

-----------------------------------------------------------------------------
(* The handlers.  Requests refused at once (an unknown role: 422, an account *)
(* that is not found: 404, an address in use: 409) change nothing.           *)

Lookup(a) ==
    \/ \E e \in Emails, r \in SUBSET Roles :
         ~Taken(e) /\ Begin(a, [op |-> "create", id |-> 0,
                                row |-> [email |-> e, roles |-> r]])
    \/ \E u \in DOMAIN users :
         \/ \E r \in SUBSET Roles :
              Begin(a, [op |-> "patch", id |-> u, row |-> [users[u] EXCEPT !.roles = r]])
         \/ Begin(a, [op |-> "delete", id |-> u, row |-> users[u]])

\* create_user: INSERT, then 201 with the key.
Insert(a) ==
    /\ stage[a] = "looked" /\ job[a].op = "create"
    /\ EmailSettled(a) /\ ~Taken(EmailOf(a))
    /\ stage' = [stage EXCEPT ![a] = "answered"]
    /\ job' = [job EXCEPT ![a].id = nextUser]
    /\ nextUser' = nextUser + 1
    /\ UNCHANGED <<users, budget>>

\* patch_user: UPDATE and 200.
Update(a) ==
    /\ stage[a] = "looked" /\ job[a].op = "patch"
    /\ Unlocked(a, job[a].id) /\ job[a].id \in DOMAIN users
    /\ Answer(a) /\ UNCHANGED nextUser

\* delete_user: DELETE and 204, also when the row has gone in the meantime.
Delete(a) ==
    /\ stage[a] = "looked" /\ job[a].op = "delete"
    /\ Unlocked(a, job[a].id)
    /\ Answer(a) /\ UNCHANGED nextUser

\* The look-up was overtaken: IntegrityError of the index, NoResultFound of
\* scalar_one.  The answer is 500.
Overtaken(a) ==
    /\ stage[a] = "looked"
    /\ \/ job[a].op = "create" /\ EmailSettled(a) /\ Taken(EmailOf(a))
       \/ job[a].op = "patch" /\ Unlocked(a, job[a].id) /\ job[a].id \notin DOMAIN users
    /\ Finish(a)
    /\ UNCHANGED <<users, nextUser, budget>>

Applied(j) ==
    IF j.op = "delete"
    THEN [u \in DOMAIN users \ {j.id} |-> users[u]]
    ELSE [u \in DOMAIN users \cup {j.id} |-> IF u = j.id THEN j.row ELSE users[u]]

CommitUser(a) ==
    /\ Answered(a)
    /\ users' = Applied(job[a])
    /\ Finish(a)
    /\ UNCHANGED <<nextUser, budget>>

\* The connection or the server dies, before or after the answer.
Abort(a) ==
    /\ stage[a] # "idle"
    /\ Finish(a)
    /\ UNCHANGED <<users, nextUser, budget>>

AdminStep(a) ==
    \/ Lookup(a) \/ Insert(a) \/ Update(a) \/ Delete(a) \/ Overtaken(a)
    \/ CommitUser(a) \/ Abort(a)

InitUsers ==
    /\ users = Initial
    /\ nextUser = Len(Initial) + 1
    /\ budget \in Budgets
    /\ stage = [a \in Admins |-> "idle"]
    /\ job = [a \in Admins |-> NoJob]

UsersNext == \E a \in Admins : AdminStep(a)

UsersSpec == InitUsers /\ [][UsersNext]_adminVars

-----------------------------------------------------------------------------
(* Properties *)

Job == [op : {"create", "patch", "delete"}, id : Nat, row : Account]

UsersTypeOK ==
    /\ users = [u \in DOMAIN users |-> users[u]]
    /\ nextUser \in Nat \ {0}
    /\ \A u \in DOMAIN users : u \in 1..(nextUser - 1) /\ users[u] \in Account
    /\ stage \in [Admins -> {"idle", "looked", "answered"}]
    /\ job = [a \in Admins |-> job[a]]
    /\ \A a \in Admins : stage[a] # "idle" => job[a] \in Job
    /\ \A a \in Admins : stage[a] # "idle" => job[a].id < nextUser

\* The answer precedes the commit, and still it comes true: until the request's
\* transaction commits, the address of the account it has announced is free,
\* and the account it has changed is there, of the same address and
\* locked against everybody else.
AnswersHold ==
    \A a \in Admins : Answered(a) =>
      /\ job[a].op = "create" => ~Taken(EmailOf(a)) /\ job[a].id \notin DOMAIN users
      /\ job[a].op = "patch"  => job[a].id \in DOMAIN users
      /\ job[a].id \in DOMAIN users =>
           /\ users[job[a].id].email = EmailOf(a)
           /\ Unlocked(a, job[a].id)

\* The ids of accounts that have been announced and are not committed yet.
Announced == {job[a].id : a \in {b \in Admins : Answered(b) /\ job[b].op = "create"}}

\* Every other id drawn so far has its account, had it, or lost its transaction.
Spent == 1..(nextUser - 1) \ Announced

Directory == INSTANCE UserDirectory WITH users <- users, spent <- Spent

\* However creations, role changes and deletions interleave between their
\* look-ups, writes, commits and rollbacks, the accounts change one at a time,
\* an email address belongs to one account, and an id is given to one account
\* once: no late write brings a deleted account, or a creation that has been
\* rolled back, to life.
ImplementsDirectory == Directory!Spec
=============================================================================

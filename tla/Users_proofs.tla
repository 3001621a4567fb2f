----------------------------- MODULE Users_proofs -----------------------------
(***************************************************************************)
(* Proofs about the user administration.  The inductive invariant says     *)
(* what the handlers rely on between their statements: an id in use is     *)
(* never given to a new account, an account never changes its address, and *)
(* a request that has answered keeps the row or the address it has written *)
(* to itself.                                                              *)
(***************************************************************************)
EXTENDS Users, TLAPS

Busy(a) == stage[a] # "idle"

\* The address of an account that is being changed or deleted is the one that
\* was looked up.
SameAddress ==
    \A a \in Admins : Busy(a) /\ job[a].op # "create" /\ job[a].id \in DOMAIN users =>
      users[job[a].id].email = job[a].row.email

\* Ids: 0 until a creation has answered, then one that nobody else works on.
FreshIds ==
    \A a, b \in Admins : a # b /\ Answered(a) /\ job[a].op = "create" /\ Busy(b) =>
      job[a].id # job[b].id

RealIds ==
    \A a \in Admins :
      /\ Busy(a) /\ job[a].op # "create" => job[a].id # 0
      /\ Answered(a) => job[a].id # 0

\* Two accounts announced at the same time have different addresses.
Apart ==
    \A a, b \in Admins :
      a # b /\ Answered(a) /\ Answered(b) /\ job[a].op = "create" /\ job[b].op = "create"
        => job[a].row.email # job[b].row.email

UniqueEmails ==
    \A u, v \in DOMAIN users : users[u].email = users[v].email => u = v

IInv ==
    /\ UsersTypeOK /\ AnswersHold
    /\ SameAddress /\ FreshIds /\ RealIds /\ Apart /\ UniqueEmails

-----------------------------------------------------------------------------

\* Initially the table holds the accounts created earlier, and nobody works.
LEMMA InitInv == InitUsers => IInv
<1> SUFFICES ASSUME InitUsers PROVE IInv
  OBVIOUS
<1> USE InitialAssumption DEF InitUsers
<1>1. /\ users \in Seq(Account) /\ DOMAIN users = 1..Len(users) /\ Len(users) \in Nat
      /\ nextUser = Len(users) + 1
  OBVIOUS
<1>2. UsersTypeOK
  <2>1. users = [u \in DOMAIN users |-> users[u]]
    BY <1>1
  <2>2. \A u \in DOMAIN users : u \in 1..(nextUser - 1) /\ users[u] \in Account
    BY <1>1
  <2>3. nextUser \in Nat \ {0}
    BY <1>1
  <2> QED
    BY <2>1, <2>2, <2>3 DEF UsersTypeOK
<1>3. UniqueEmails
  BY <1>1 DEF UniqueEmails
<1> QED
  BY <1>2, <1>3 DEF IInv, AnswersHold, SameAddress, FreshIds, RealIds, Apart, Busy,
     Answered

\* A request that ends without a trace: the account was not as looked up, or the
\* server died.
LEMMA FinishStep ==
  ASSUME IInv, NEW a \in Admins, Finish(a), UNCHANGED <<users, nextUser>>
  PROVE  IInv'
<1> USE DEF Finish, NoJob
<1>1. UsersTypeOK'
  BY DEF IInv, UsersTypeOK
<1>2. AnswersHold'
  BY DEF IInv, UsersTypeOK, AnswersHold, Answered, Taken, EmailOf, Unlocked, HasWritten
<1>3. (SameAddress /\ FreshIds /\ RealIds /\ Apart /\ UniqueEmails)'
  BY DEF IInv, UsersTypeOK, SameAddress, FreshIds, RealIds, Apart, UniqueEmails, Busy,
     Answered
<1> QED
  BY <1>1, <1>2, <1>3 DEF IInv

\* A look-up starts a request on an account of the table, or on none.
LEMMA LookupStep ==
  ASSUME IInv, NEW a \in Admins, Lookup(a)
  PROVE  IInv'
<1> DEFINE Looked(j) ==
      /\ Begin(a, j)
      /\ \/ j.op = "create" /\ j.id = 0
         \/ j.op # "create" /\ j.id \in DOMAIN users /\ j.row.email = users[j.id].email
<1>1. PICK j \in Job : Looked(j)
  <2>1. ASSUME NEW e \in Emails, NEW r \in SUBSET Roles,
               Begin(a, [op |-> "create", id |-> 0, row |-> [email |-> e, roles |-> r]])
        PROVE  \E j \in Job : Looked(j)
    BY <2>1 DEF Job, Account
  <2>2. ASSUME NEW u \in DOMAIN users, NEW r \in SUBSET Roles,
               Begin(a, [op |-> "patch", id |-> u, row |-> [users[u] EXCEPT !.roles = r]])
        PROVE  \E j \in Job : Looked(j)
    <3>1. u \in Nat /\ users[u] \in Account
      BY DEF IInv, UsersTypeOK
    <3> QED
      BY <2>2, <3>1 DEF Job, Account
  <2>3. ASSUME NEW u \in DOMAIN users,
               Begin(a, [op |-> "delete", id |-> u, row |-> users[u]])
        PROVE  \E j \in Job : Looked(j)
    <3>1. u \in Nat /\ users[u] \in Account
      BY DEF IInv, UsersTypeOK
    <3> QED
      BY <2>3, <3>1 DEF Job, Account
  <2> QED
    BY <2>1, <2>2, <2>3 DEF Lookup
<1>2. /\ stage[a] = "idle" /\ UNCHANGED <<users, nextUser>>
      /\ job' = [job EXCEPT ![a] = j]
      /\ stage' = [stage EXCEPT ![a] = "looked"]
      /\ j.id < nextUser /\ (j.op # "create" => j.id # 0)
  BY <1>1 DEF Begin, IInv, UsersTypeOK
<1>3. UsersTypeOK'
  BY <1>2 DEF IInv, UsersTypeOK
<1>4. AnswersHold'
  BY <1>2 DEF IInv, UsersTypeOK, AnswersHold, Answered, Taken, EmailOf, Unlocked, HasWritten
<1>5. SameAddress'
  BY <1>1, <1>2 DEF IInv, UsersTypeOK, SameAddress, Busy
<1>6. FreshIds'
  BY <1>1, <1>2 DEF IInv, UsersTypeOK, FreshIds, RealIds, AnswersHold, Busy, Answered
<1>7. (RealIds /\ Apart /\ UniqueEmails)'
  BY <1>2 DEF IInv, UsersTypeOK, RealIds, Apart, UniqueEmails, Busy, Answered
<1> QED
  BY <1>3, <1>4, <1>5, <1>6, <1>7 DEF IInv

\* The creation of an account takes a new id, and waits until nobody else has
\* its address in hand.
LEMMA InsertStep ==
  ASSUME IInv, NEW a \in Admins, Insert(a)
  PROVE  IInv'
<1> USE DEF Insert
<1>1. nextUser \notin DOMAIN users /\ \A b \in Admins : Busy(b) => job[b].id # nextUser
  BY DEF IInv, UsersTypeOK, Busy
<1>2. UsersTypeOK'
  BY DEF IInv, UsersTypeOK, Job
<1>3. AnswersHold'
  BY <1>1 DEF IInv, UsersTypeOK, AnswersHold, Answered, Taken, EmailOf, Unlocked,
     HasWritten, Busy
<1>4. (SameAddress /\ FreshIds /\ RealIds /\ UniqueEmails)'
  BY <1>1 DEF IInv, UsersTypeOK, SameAddress, FreshIds, RealIds, UniqueEmails, Busy,
     Answered, Job
<1>5. Apart'
  BY DEF IInv, UsersTypeOK, Apart, EmailSettled, HasWritten, EmailOf, Answered, Job
<1> QED
  BY <1>2, <1>3, <1>4, <1>5 DEF IInv

\* A role change or a deletion waits until nobody else has written its row.
LEMMA WriteStep ==
  ASSUME IInv, NEW a \in Admins, Update(a) \/ Delete(a)
  PROVE  IInv'
<1>1. /\ stage[a] = "looked" /\ job[a].op # "create" /\ Unlocked(a, job[a].id)
      /\ job[a].op = "patch" => job[a].id \in DOMAIN users
      /\ stage' = [stage EXCEPT ![a] = "answered"]
      /\ UNCHANGED <<users, nextUser, job>>
  BY DEF Update, Delete, Answer
<1>2. UsersTypeOK'
  BY <1>1 DEF IInv, UsersTypeOK
<1>3. AnswersHold'
  BY <1>1 DEF IInv, UsersTypeOK, AnswersHold, Answered, Taken, EmailOf, Unlocked,
     HasWritten, SameAddress, Busy
<1>4. (SameAddress /\ FreshIds /\ RealIds /\ Apart /\ UniqueEmails)'
  BY <1>1 DEF IInv, UsersTypeOK, SameAddress, FreshIds, RealIds, Apart, UniqueEmails,
     Busy, Answered
<1> QED
  BY <1>2, <1>3, <1>4 DEF IInv

\* What a commit makes of the table, one kind of request at a time.
LEMMA CommitEffect ==
  ASSUME IInv, NEW a \in Admins, CommitUser(a)
  PROVE  LET u == job[a].id
             row == job[a].row
         IN  \/ /\ job[a].op = "create"
                /\ u \notin DOMAIN users /\ row \in Account /\ ~Taken(row.email)
                /\ DOMAIN users' = DOMAIN users \cup {u}
                /\ users'[u] = row
                /\ \A v \in DOMAIN users : users'[v] = users[v]
             \/ /\ job[a].op = "patch"
                /\ u \in DOMAIN users /\ row \in Account /\ row.email = users[u].email
                /\ DOMAIN users' = DOMAIN users
                /\ users'[u] = row
                /\ \A v \in DOMAIN users \ {u} : users'[v] = users[v]
             \/ /\ job[a].op = "delete"
                /\ DOMAIN users' = DOMAIN users \ {u}
                /\ \A v \in DOMAIN users' : users'[v] = users[v]
<1>1. job[a] \in Job
  BY DEF IInv, UsersTypeOK, CommitUser, Answered
<1>2. CASE job[a].op = "create"
  BY <1>1, <1>2 DEF CommitUser, Applied, IInv, AnswersHold, EmailOf, Job
<1>3. CASE job[a].op = "patch"
  BY <1>1, <1>3 DEF CommitUser, Applied, IInv, AnswersHold, EmailOf, Job
<1>4. CASE job[a].op = "delete"
  BY <1>1, <1>4 DEF CommitUser, Applied
<1> QED
  BY <1>1, <1>2, <1>3, <1>4 DEF Job

LEMMA CommitStep ==
  ASSUME IInv, NEW a \in Admins, CommitUser(a)
  PROVE  IInv'
<1> DEFINE u == job[a].id
           row == job[a].row
<1>1. /\ Answered(a) /\ job[a] \in Job /\ u < nextUser /\ u # 0
      /\ stage' = [stage EXCEPT ![a] = "idle"]
      /\ job' = [job EXCEPT ![a] = NoJob] /\ UNCHANGED nextUser
  BY DEF IInv, UsersTypeOK, RealIds, CommitUser, Finish, Answered
<1>2. users' = [v \in DOMAIN users' |-> users'[v]]
  BY DEF CommitUser, Applied
<1>3. UsersTypeOK'
  <2>1. \A v \in DOMAIN users' : v \in 1..(nextUser' - 1) /\ users'[v] \in Account
    <3>1. \A v \in DOMAIN users : v \in 1..(nextUser - 1) /\ users[v] \in Account
      BY DEF IInv, UsersTypeOK
    <3>2. u \in 1..(nextUser - 1)
      BY <1>1 DEF IInv, UsersTypeOK, Job
    <3>3. \A v \in DOMAIN users' :
            \/ v \in DOMAIN users /\ users'[v] = users[v]
            \/ v = u /\ users'[v] \in Account
      BY CommitEffect
    <3> QED
      BY <1>1, <3>1, <3>2, <3>3
  <2> QED
    BY <1>1, <1>2, <2>1 DEF IInv, UsersTypeOK
<1>4. UniqueEmails'
  <2> SUFFICES ASSUME NEW v \in DOMAIN users', NEW w \in DOMAIN users', v # w
               PROVE  users'[v].email # users'[w].email
    BY DEF UniqueEmails
  <2>1. \A x, y \in DOMAIN users : x # y => users[x].email # users[y].email
    BY DEF IInv, UniqueEmails
  <2>2. CASE job[a].op = "create"
    <3>1. /\ DOMAIN users' = DOMAIN users \cup {u} /\ users'[u] = row
          /\ \A x \in DOMAIN users : users'[x] = users[x]
          /\ \A x \in DOMAIN users : users[x].email # row.email
      BY <2>2, CommitEffect DEF Taken
    <3> QED
      BY <2>1, <3>1
  <2>3. CASE job[a].op # "create"
    <3>1. /\ v \in DOMAIN users /\ users'[v].email = users[v].email
          /\ w \in DOMAIN users /\ users'[w].email = users[w].email
      BY <2>3, CommitEffect
    <3> QED
      BY <2>1, <3>1
  <2> QED
    BY <2>2, <2>3
<1>5. (FreshIds /\ RealIds /\ Apart)'
  BY <1>1 DEF IInv, UsersTypeOK, FreshIds, RealIds, Apart, Busy, Answered
<1>6. SameAddress'
  <2> SUFFICES ASSUME NEW b \in Admins, Busy(b)', job'[b].op # "create",
                      job'[b].id \in DOMAIN users'
               PROVE  users'[job'[b].id].email = job'[b].row.email
    BY DEF SameAddress
  <2>1. b # a /\ Busy(b) /\ job'[b] = job[b]
    BY <1>1 DEF Busy, IInv, UsersTypeOK
  <2>2. job[b].id \in DOMAIN users => users[job[b].id].email = job[b].row.email
    BY <2>1 DEF IInv, SameAddress
  <2>3. job[a].op = "create" => job[b].id # u
    BY <1>1, <2>1 DEF IInv, FreshIds
  <2> QED
    BY <2>1, <2>2, <2>3, CommitEffect
<1>7. AnswersHold'
  <2> SUFFICES ASSUME NEW b \in Admins, Answered(b)'
               PROVE  /\ (job[b].op = "create" =>
                            ~Taken(EmailOf(b)) /\ job[b].id \notin DOMAIN users)'
                      /\ (job[b].op = "patch" => job[b].id \in DOMAIN users)'
                      /\ (job[b].id \in DOMAIN users =>
                            /\ users[job[b].id].email = EmailOf(b)
                            /\ Unlocked(b, job[b].id))'
    BY DEF AnswersHold
  <2>1. b # a /\ Answered(b) /\ Busy(b) /\ job'[b] = job[b]
    BY <1>1 DEF Answered, Busy, IInv, UsersTypeOK
  <2>2. job[a].op = "create" => job[b].id # u
    BY <1>1, <2>1 DEF IInv, FreshIds
  <2>3. u \in DOMAIN users => u # job[b].id
    BY <1>1, <2>1 DEF IInv, AnswersHold, Unlocked, HasWritten
  <2>4. (job[b].op = "create" => ~Taken(EmailOf(b)) /\ job[b].id \notin DOMAIN users)'
    <3> SUFFICES ASSUME job[b].op = "create"
                 PROVE  ~(Taken(EmailOf(b))') /\ job[b].id \notin DOMAIN users'
      BY <2>1
    <3>1. /\ ~Taken(EmailOf(b)) /\ job[b].id \notin DOMAIN users
          /\ job[a].op = "create" => row.email # EmailOf(b)
      BY <1>1, <2>1 DEF IInv, AnswersHold, Apart, EmailOf
    <3> QED
      BY <2>1, <2>2, <3>1, CommitEffect DEF Taken, EmailOf
  <2>5. (job[b].op = "patch" => job[b].id \in DOMAIN users)'
    BY <2>1, <2>3, CommitEffect DEF IInv, AnswersHold
  <2>6. (job[b].id \in DOMAIN users => users[job[b].id].email = EmailOf(b))'
    BY <2>1, <2>2, <2>3, CommitEffect DEF IInv, AnswersHold, EmailOf
  <2>7. (job[b].id \in DOMAIN users => Unlocked(b, job[b].id))'
    <3> SUFFICES ASSUME job[b].id \in DOMAIN users',
                        NEW d \in Admins \ {b}, HasWritten(d)'
                 PROVE  job'[d].id # job[b].id
      BY <2>1 DEF Unlocked
    <3>1. d # a /\ Answered(d) /\ Busy(d) /\ job'[d] = job[d]
      BY <1>1 DEF HasWritten, Answered, Busy, IInv, UsersTypeOK
    <3>2. job[b].id \in DOMAIN users
      BY <2>2, CommitEffect
    <3>3. CASE job[d].op = "create"
      BY <2>1, <3>1, <3>3 DEF IInv, FreshIds
    <3>4. CASE job[d].op # "create"
      <4>1. job[d].id \in DOMAIN users \/ job[d].id = u
        BY <3>1, <3>4, CommitEffect DEF HasWritten
      <4> QED
        BY <2>1, <3>1, <3>2, <2>3, <4>1 DEF IInv, AnswersHold, Unlocked, HasWritten
    <3> QED
      BY <3>3, <3>4
  <2> QED
    BY <2>4, <2>5, <2>6, <2>7
<1> QED
  BY <1>3, <1>4, <1>5, <1>6, <1>7 DEF IInv

LEMMA Inductive == IInv /\ [UsersNext]_adminVars => IInv'
<1> SUFFICES ASSUME IInv, [UsersNext]_adminVars PROVE IInv'
  OBVIOUS
<1>1. ASSUME NEW a \in Admins, AdminStep(a) PROVE IInv'
  <2>1. ASSUME Overtaken(a) \/ Abort(a) PROVE IInv'
    BY <2>1, FinishStep DEF Overtaken, Abort
  <2> QED
    BY <1>1, <2>1, LookupStep, InsertStep, WriteStep, CommitStep DEF AdminStep
<1>2. ASSUME UNCHANGED adminVars PROVE IInv'
  BY <1>2 DEF adminVars, IInv, UsersTypeOK, AnswersHold, SameAddress, FreshIds, RealIds,
     Apart, UniqueEmails, Busy, Answered, Taken, EmailOf, Unlocked, HasWritten
<1> QED
  BY <1>1, <1>2 DEF UsersNext

-----------------------------------------------------------------------------

\* The table and the requests keep their types, and ids are not used twice.
THEOREM UsersTypeCorrect == UsersSpec => []UsersTypeOK
<1>1. IInv => UsersTypeOK
  BY DEF IInv
<1> QED
  BY InitInv, Inductive, <1>1, PTL DEF UsersSpec

\* However the handlers interleave, what an administrator has been told stays
\* true until it is committed.
THEOREM AnswersCorrect == UsersSpec => []AnswersHold
<1>1. IInv => AnswersHold
  BY DEF IInv
<1> QED
  BY InitInv, Inductive, <1>1, PTL DEF UsersSpec

\* A request that is not an announced creation before and after the step leaves
\* the set of announced ids as it was.
LEMMA SpentKept ==
  ASSUME UsersTypeOK, NEW a \in Admins, UNCHANGED nextUser,
         \A b \in Admins \ {a} : stage'[b] = stage[b] /\ job'[b] = job[b],
         ~(Answered(a) /\ job[a].op = "create"),
         ~(Answered(a)' /\ job'[a].op = "create")
  PROVE  Spent' = Spent
<1>1. Announced' = Announced
  BY DEF Announced, Answered
<1> QED
  BY <1>1 DEF Spent

\* An id drawn by an insertion is announced at once.
LEMMA SpentByInsert ==
  ASSUME IInv, NEW a \in Admins, Insert(a)
  PROVE  Spent' = Spent
<1>1. /\ stage[a] = "looked" /\ stage' = [stage EXCEPT ![a] = "answered"]
      /\ job[a].op = "create" /\ nextUser' = nextUser + 1 /\ nextUser \in Nat \ {0}
      /\ job'[a].id = nextUser /\ job'[a].op = "create"
      /\ \A b \in Admins \ {a} : job'[b] = job[b]
  BY DEF Insert, IInv, UsersTypeOK, Job
<1>2. Announced' = Announced \cup {nextUser}
  BY <1>1 DEF Announced, Answered, IInv, UsersTypeOK
<1> QED
  BY <1>1, <1>2 DEF Spent

\* A creation that ends, by its commit or without it, spends its id, which was
\* nobody else's.
LEMMA SpentAtEnd ==
  ASSUME IInv, NEW a \in Admins, Answered(a), job[a].op = "create", Finish(a),
         UNCHANGED nextUser
  PROVE  job[a].id \notin Spent /\ Spent' = Spent \cup {job[a].id}
<1>1. /\ stage' = [stage EXCEPT ![a] = "idle"]
      /\ \A b \in Admins \ {a} : job'[b] = job[b]
  BY DEF Finish, IInv, UsersTypeOK
<1>2. \A b \in Admins \ {a} : Answered(b) => job[b].id # job[a].id
  BY DEF IInv, FreshIds, Busy, Answered
<1>3. job[a].id \in Announced /\ Announced' = Announced \ {job[a].id}
  BY <1>1, <1>2 DEF Announced, Answered, IInv, UsersTypeOK
<1>4. job[a].id \in 1..(nextUser - 1)
  BY DEF IInv, UsersTypeOK, RealIds, Answered, Job
<1> QED
  BY <1>3, <1>4 DEF Spent

\* The commit of a creation, of a role change and of a deletion are operations on
\* the directory.
LEMMA CommitMoves ==
  ASSUME IInv, NEW a \in Admins, CommitUser(a)
  PROVE  [Directory!Next]_<<users, Spent>>
<1> DEFINE u == job[a].id
           row == job[a].row
<1>1. /\ Answered(a) /\ Finish(a) /\ UNCHANGED nextUser /\ job[a] \in Job
      /\ stage' = [stage EXCEPT ![a] = "idle"]
      /\ \A b \in Admins \ {a} : stage'[b] = stage[b] /\ job'[b] = job[b]
  BY DEF CommitUser, Finish, IInv, UsersTypeOK, Answered
<1>2. job[a].op # "create" => Spent' = Spent
  <2>1. ~Answered(a)'
    BY <1>1 DEF Answered, IInv, UsersTypeOK
  <2> QED
    BY <1>1, <2>1, SpentKept DEF IInv
<1>3. CASE job[a].op = "create"
  <2>1. /\ u \in DOMAIN users'
        /\ DOMAIN users' = DOMAIN users \cup {u}
        /\ \A v \in DOMAIN users : users'[v] = users[v]
        /\ users'[u] \in Account
        /\ \A v \in DOMAIN users : users[v].email # users'[u].email
    BY <1>3, CommitEffect DEF Taken
  <2>2. u \notin Spent /\ Spent' = Spent \cup {u}
    BY <1>1, <1>3, SpentAtEnd
  <2> QED
    BY <2>1, <2>2 DEF Directory!Next, Directory!Create, Directory!Account, Account
<1>4. CASE job[a].op = "patch"
  <2>1. /\ u \in DOMAIN users /\ DOMAIN users' = DOMAIN users
        /\ \A v \in DOMAIN users \ {u} : users'[v] = users[v]
        /\ users'[u] = row /\ row \in Account /\ row.email = users[u].email
    BY <1>4, CommitEffect
  <2>2. users'[u] = [users[u] EXCEPT !.roles = row.roles] /\ row.roles \in SUBSET Roles
    <3>1. users[u] \in Account
      BY <2>1 DEF IInv, UsersTypeOK
    <3> QED
      BY <2>1, <3>1 DEF Account
  <2> QED
    BY <1>2, <1>4, <2>1, <2>2 DEF Directory!Next, Directory!SetRoles
<1>5. CASE job[a].op = "delete" /\ u \in DOMAIN users
  BY <1>2, <1>5, CommitEffect DEF Directory!Next, Directory!Remove
<1>6. CASE job[a].op = "delete" /\ u \notin DOMAIN users
  <2>1. users' = [v \in DOMAIN users |-> users[v]]
    BY <1>6 DEF CommitUser, Applied
  <2> QED
    BY <1>2, <1>6, <2>1 DEF IInv, UsersTypeOK
<1> QED
  BY <1>1, <1>3, <1>4, <1>5, <1>6 DEF Job

\* A creation that ends without a commit gives up its id.
LEMMA AbortMoves ==
  ASSUME IInv, NEW a \in Admins, Overtaken(a) \/ Abort(a)
  PROVE  [Directory!Next]_<<users, Spent>>
<1>1. /\ Finish(a) /\ UNCHANGED <<users, nextUser>>
      /\ stage' = [stage EXCEPT ![a] = "idle"]
      /\ \A b \in Admins \ {a} : stage'[b] = stage[b] /\ job'[b] = job[b]
  BY DEF Overtaken, Abort, Finish, IInv, UsersTypeOK
<1>2. CASE Answered(a) /\ job[a].op = "create"
  BY <1>1, <1>2, SpentAtEnd DEF Directory!Next, Directory!GiveUp
<1>3. CASE ~(Answered(a) /\ job[a].op = "create")
  <2>1. ~Answered(a)'
    BY <1>1 DEF Answered, IInv, UsersTypeOK
  <2> QED
    BY <1>1, <1>3, <2>1, SpentKept DEF IInv
<1> QED
  BY <1>2, <1>3

\* Every other step leaves the accounts and the spent ids alone.
LEMMA DirectoryStep ==
  ASSUME IInv, [UsersNext]_adminVars
  PROVE  [Directory!Next]_<<users, Spent>>
<1>1. ASSUME NEW a \in Admins, Lookup(a) \/ Update(a) \/ Delete(a)
      PROVE  UNCHANGED <<users, Spent>>
  <2>1. /\ UNCHANGED <<users, nextUser>> /\ ~Answered(a)
        /\ \A b \in Admins \ {a} : stage'[b] = stage[b] /\ job'[b] = job[b]
        /\ ~(Answered(a)' /\ job'[a].op = "create")
    BY <1>1 DEF Lookup, Begin, Update, Delete, Answer, Answered, IInv, UsersTypeOK
  <2> QED
    BY <2>1, SpentKept DEF IInv
<1>2. ASSUME NEW a \in Admins, Insert(a) PROVE UNCHANGED <<users, Spent>>
  BY <1>2, SpentByInsert DEF Insert
<1>3. ASSUME UNCHANGED adminVars PROVE UNCHANGED <<users, Spent>>
  BY <1>3 DEF adminVars, Spent, Announced, Answered
<1> QED
  BY <1>1, <1>2, <1>3, CommitMoves, AbortMoves DEF UsersNext, AdminStep

\* The handlers implement the directory: accounts change one at a time, an email
\* address belongs to one account, and an id to one account once.
THEOREM DirectoryCorrect == UsersSpec => ImplementsDirectory
<1>1. InitUsers => Directory!Init
  <2> SUFFICES ASSUME InitUsers PROVE Directory!Init
    OBVIOUS
  <2>1. Spent = DOMAIN users
    <3>1. Announced = {}
      BY DEF InitUsers, Announced, Answered
    <3>2. DOMAIN users = 1..(nextUser - 1)
      BY InitialAssumption DEF InitUsers
    <3> QED
      BY <3>1, <3>2 DEF Spent
  <2> QED
    BY <2>1, InitInv DEF IInv, UsersTypeOK, UniqueEmails, Directory!Init,
       Directory!Unique, Directory!Account, Account
<1> QED
  BY InitInv, Inductive, DirectoryStep, <1>1, PTL
     DEF UsersSpec, ImplementsDirectory, Directory!Spec
=============================================================================

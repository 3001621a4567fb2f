---------------------------- MODULE UserDirectory ----------------------------
(***************************************************************************)
(* What the user administration promises: one table of accounts that       *)
(* changes by indivisible operations, with no two accounts of one email    *)
(* address, and an id that stands for one account for good: an account     *)
(* that has been deleted never comes back.  Module Users implements it.    *)
(***************************************************************************)
CONSTANTS Emails, Roles

VARIABLES
    users,      \* a function from user ids to accounts
    spent       \* the ids that an account has, has had, or will never have

Account == [email : Emails, roles : SUBSET Roles]

Unique(table) ==
    \A u, v \in DOMAIN table : table[u].email = table[v].email => u = v

Init ==
    /\ \A u \in DOMAIN users : users[u] \in Account
    /\ Unique(users)
    /\ spent = DOMAIN users

\* An account of an unused address appears under an id no account has had.
Create ==
    \E u \in DOMAIN users' \ spent :
      /\ DOMAIN users' = DOMAIN users \cup {u}
      /\ \A v \in DOMAIN users : users'[v] = users[v]
      /\ users'[u] \in Account
      /\ \A v \in DOMAIN users : users[v].email # users'[u].email
      /\ spent' = spent \cup {u}

\* One account that exists gets other roles.
SetRoles ==
    \E u \in DOMAIN users :
      /\ DOMAIN users' = DOMAIN users
      /\ \A v \in DOMAIN users \ {u} : users'[v] = users[v]
      /\ \E r \in SUBSET Roles : users'[u] = [users[u] EXCEPT !.roles = r]
      /\ UNCHANGED spent

Remove ==
    \E u \in DOMAIN users :
      /\ DOMAIN users' = DOMAIN users \ {u}
      /\ \A v \in DOMAIN users' : users'[v] = users[v]
      /\ UNCHANGED spent

\* A creation has failed: nobody else gets its id.
GiveUp ==
    /\ \E u \in spent' : spent' = spent \cup {u}
    /\ UNCHANGED users

Next == Create \/ SetRoles \/ Remove \/ GiveUp

Spec == Init /\ [][Next]_<<users, spent>>
=============================================================================

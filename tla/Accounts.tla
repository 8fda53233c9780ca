------------------------------ MODULE Accounts ------------------------------
(***************************************************************************)
(* User accounts: the administrator that every process makes at startup    *)
(* when there are no users, and the users that the first login through     *)
(* GitHub or Google makes.  Both look before they insert; the unique       *)
(* columns of the table decide when two of them have looked.               *)
(***************************************************************************)
EXTENDS Naturals, Sequences, FiniteSets

CONSTANTS
  UserIds,
  Identities,    \* identities at the providers
  UserName,      \* the normalised name of an identity; several may share one
  Fallbacks,     \* the names to try after it, by identity, in order
  AdminName,
  Emails,
  Logins,        \* processes starting and logins under way
  NoIdentity, NoUser,
  MaxLogins      \* bound: logins and startups

NamesToTry(i) == <<UserName[i]>> \o Fallbacks[i]

Usernames == {AdminName} \cup UNION {{NamesToTry(i)[k] : k \in DOMAIN NamesToTry(i)} : i \in Identities}
UserRows == [username : Usernames, identity : Identities \cup {NoIdentity},
             email : Emails \cup {NoUser}, admin : BOOLEAN]

\* What stands for no identity and for no user is none.
ASSUME NobodyAssumption ==
  /\ NoIdentity \notin Identities
  /\ NoUser \notin UserRows \cup UserIds

VARIABLES
  users,         \* the users table: a row or NoUser
  login,         \* what each login has found out
  tokens,        \* access tokens handed out: whom for, and to whom they belong
  logins

accountVars == <<users, login, tokens, logins>>

Rows == {u \in UserIds : users[u] # NoUser}
Outside == [step |-> "idle", identity |-> NoIdentity, id |-> NoUser, row |-> NoUser]

AccountsInit ==
  /\ users = [u \in UserIds |-> NoUser]
  /\ login = [l \in Logins |-> Outside]
  /\ tokens = {}
  /\ logins = 0

Arrives(l, state) ==
  /\ login[l].step = "idle" /\ logins < MaxLogins
  /\ login' = [login EXCEPT ![l] = state]
  /\ logins' = logins + 1
  /\ UNCHANGED <<users, tokens>>

\* A new user has an id of its own.
FreshId(u) == users[u] = NoUser /\ \A l \in Logins : login[l].id # u

\* bootstrap_admin: there are no users, as this process sees it.
BootstrapsAdmin(l) ==
  /\ Rows = {}
  /\ \E u \in UserIds : FreshId(u) /\
       Arrives(l, [step |-> "new", identity |-> NoIdentity, id |-> u,
         row |-> [username |-> AdminName, identity |-> NoIdentity, email |-> NoUser,
                  admin |-> TRUE]])

\* A callback with an identity: the first row that has it, if one has.
FindsOauthUser(l, i) ==
  \E u \in Rows :
    /\ users[u].identity = i
    /\ Arrives(l, [step |-> "known", identity |-> i, id |-> u, row |-> users[u]])

FindsNobody(l, i) ==
  /\ \A u \in Rows : users[u].identity # i
  /\ Arrives(l, [step |-> "naming", identity |-> i, id |-> NoUser, row |-> NoUser])

\* The first of the names that nobody has now; without one the login fails.
UniqueUsername(i, n) ==
  LET taken == {users[u].username : u \in Rows}
      names == NamesToTry(i)
  IN \E k \in DOMAIN names :
       names[k] = n /\ n \notin taken /\ \A j \in 1..(k - 1) : names[j] \in taken

BuildsUser(l) ==
  /\ login[l].step = "naming"
  /\ \E n \in {NamesToTry(login[l].identity)[k] : k \in DOMAIN NamesToTry(login[l].identity)} :
       /\ UniqueUsername(login[l].identity, n)
       /\ \E u \in UserIds : \E e \in Emails : FreshId(u) /\
            login' = [login EXCEPT ![l].step = "new", ![l].id = u,
              ![l].row = [username |-> n, identity |-> login[l].identity, email |-> e,
                          admin |-> FALSE]]
  /\ UNCHANGED <<users, tokens, logins>>

\* Mutant of Insertable: only names are unique.
MutInsertable(row) == \A u \in Rows : users[u].username # row.username

\* Names are unique, and so are identities, of which an administrator has none.
Insertable(row) ==
  \A u \in Rows :
    /\ users[u].username # row.username
    /\ row.identity = NoIdentity \/ users[u].identity # row.identity

Leaves(l) == login' = [login EXCEPT ![l] = Outside]

CommitsUser(l) ==
  /\ login[l].step = "new" /\ Insertable(login[l].row)
  /\ users' = [users EXCEPT ![login[l].id] = login[l].row]
  /\ IF login[l].identity = NoIdentity THEN Leaves(l)
     ELSE login' = [login EXCEPT ![l].step = "logged in"]
  /\ UNCHANGED <<tokens, logins>>

\* A known user gets the email and the picture that the provider reports.
SyncsProfile(l) ==
  /\ login[l].step = "known"
  /\ \E e \in Emails : users' = [users EXCEPT ![login[l].id].email = e]
  /\ login' = [login EXCEPT ![l].step = "logged in"]
  /\ UNCHANGED <<tokens, logins>>

\* A password is known of local accounts only.
Authenticates(l) ==
  \E u \in Rows :
    /\ users[u].identity = NoIdentity
    /\ Arrives(l, [step |-> "logged in", identity |-> NoIdentity, id |-> u, row |-> NoUser])

\* The token names the id of the user and nothing else.
CreatesAccessToken(l) ==
  /\ login[l].step = "logged in"
  /\ tokens' = tokens \cup {[for |-> login[l].identity, subject |-> login[l].id]}
  /\ Leaves(l)
  /\ UNCHANGED <<users, logins>>

\* A constraint, no name left, no such user, an error, a crash of the process.
LoginFails(l) ==
  /\ login[l].step # "idle"
  /\ Leaves(l)
  /\ UNCHANGED <<users, tokens, logins>>

AccountsNext ==
  \E l \in Logins :
    \/ BootstrapsAdmin(l) \/ Authenticates(l)
    \/ BuildsUser(l) \/ CommitsUser(l) \/ SyncsProfile(l)
    \/ CreatesAccessToken(l) \/ LoginFails(l)
    \/ \E i \in Identities : FindsOauthUser(l, i) \/ FindsNobody(l, i)

AccountsSpec == AccountsInit /\ [][AccountsNext]_accountVars

-----------------------------------------------------------------------------
(* Properties.                                                             *)

\* All tokens ever handed out to one identity are for one account, and no two
\* identities share one, nor do a password and an identity: however first logins and
\* startups overlap, and whatever names the identities share (_get_or_create_oauth_user, UserModel).
OneAccountPerIdentity ==
  \A t, s \in tokens : t.for = s.for <=> t.subject = s.subject
=============================================================================

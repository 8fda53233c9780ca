------------------------------ MODULE RowsProofs ------------------------------
(***************************************************************************)
(* The rows that requests share, for any number of them: nobody gets a     *)
(* token for the account of another; a column of a session or a project    *)
(* holds what its updates meant it to hold; a part of the configuration is *)
(* read as its last update left it.                                        *)
(***************************************************************************)
EXTENDS Accounts, SessionStore, AppConfig, SequenceTheorems, TLAPS

States == [step : {"idle", "naming", "new", "known", "logged in"},
           identity : Identities \cup {NoIdentity}, id : UserIds \cup {NoUser},
           row : UserRows \cup {NoUser}]

AccountsTyped ==
  /\ users \in [UserIds -> UserRows \cup {NoUser}]
  /\ login \in [Logins -> States]

\* User u exists and has identity i.
Belongs(u, i) == u \in UserIds /\ users[u] # NoUser /\ users[u].identity = i

\* What a login has found out so far, in state s, is so.
Stands(s) ==
  /\ s.step = "naming" => s.identity \in Identities
  /\ s.step \in {"known", "logged in"} => Belongs(s.id, s.identity)
  /\ s.step = "new" =>
       /\ s.id \in UserIds /\ users[s.id] = NoUser
       /\ s.row \in UserRows /\ s.row.identity = s.identity
       /\ s.identity = NoIdentity => s.row.username = AdminName

\* No two logins have a new user of one id.
Own(l, k) == login[l].step = "new" /\ l # k => login[l].id # login[k].id

\* Rows differ in their names, and in their identities but for local users, who
\* all have the administrator's name.
RowsDiffer ==
  /\ \A u, v \in UserIds :
       users[u] # NoUser /\ users[v] # NoUser /\ u # v =>
         /\ users[u].username # users[v].username
         /\ users[u].identity = NoIdentity \/ users[u].identity # users[v].identity
  /\ \A u \in UserIds : users[u] # NoUser /\ users[u].identity = NoIdentity =>
       users[u].username = AdminName

TokensHold == \A t \in tokens : Belongs(t.subject, t.for)

AccountsInv ==
  /\ AccountsTyped
  /\ \A l \in Logins : Stands(login[l])
  /\ \A l, k \in Logins : Own(l, k)
  /\ RowsDiffer
  /\ TokensHold

-----------------------------------------------------------------------------
(* Logins that write nothing.                                              *)

\* A login that finds out something that is so, and takes no id of another's,
\* keeps the invariant as long as users and tokens stay.
LEMMA StateStep ==
  ASSUME AccountsInv, NEW l \in Logins, NEW s \in States,
         login' = [login EXCEPT ![l] = s], UNCHANGED <<users, tokens>>,
         Stands(s),
         \A k \in Logins \ {l} : /\ s.step = "new" => login[k].id # s.id
                                 /\ login[k].step = "new" => login[k].id # s.id
  PROVE  AccountsInv'
  <1>1. AccountsTyped'
    BY DEF AccountsInv, AccountsTyped
  <1>2. /\ login'[l] = s
        /\ \A k \in Logins \ {l} : login'[k] = login[k]
    BY DEF AccountsInv, AccountsTyped
  <1>3. \A k \in Logins : Stands(login[k])'
    BY <1>2 DEF AccountsInv, Stands, Belongs
  <1>4. \A j, k \in Logins : Own(j, k)'
    BY <1>2 DEF AccountsInv, Own
  <1>5. RowsDiffer' /\ TokensHold'
    BY DEF AccountsInv, RowsDiffer, TokensHold, Belongs
  <1> QED
    BY <1>1, <1>3, <1>4, <1>5 DEF AccountsInv

\* An idle state stands, and its id is nobody's.
LEMMA OutsideStands ==
  ASSUME AccountsInv
  PROVE  /\ Outside \in States /\ Stands(Outside) /\ Outside.step = "idle"
         /\ \A k \in Logins : login[k].step = "new" => login[k].id # Outside.id
  <1>1. Outside \in States /\ Outside.step = "idle" /\ Outside.id = NoUser
    BY DEF Outside, States
  <1>2. Stands(Outside)
    BY <1>1 DEF Stands
  <1>3. ASSUME NEW k \in Logins, login[k].step = "new"
        PROVE  login[k].id # NoUser
    BY <1>3, NobodyAssumption DEF AccountsInv, Stands, NobodyAssumption
  <1> QED
    BY <1>1, <1>2, <1>3

\* Whoever arrives in a state that stands keeps the invariant.
LEMMA ArrivesStep ==
  ASSUME AccountsInv, NEW l \in Logins, NEW s \in States, Arrives(l, s), Stands(s),
         \A k \in Logins : /\ s.step = "new" => login[k].id # s.id
                           /\ login[k].step = "new" => login[k].id # s.id
  PROVE  AccountsInv'
  BY StateStep DEF Arrives

\* Whoever leaves keeps the invariant as long as users and tokens stay.
LEMMA LeavesStep ==
  ASSUME AccountsInv, NEW l \in Logins, Leaves(l), UNCHANGED <<users, tokens>>
  PROVE  AccountsInv'
  <1>1. /\ Outside \in States /\ Stands(Outside) /\ Outside.step = "idle"
        /\ \A k \in Logins : login[k].step = "new" => login[k].id # Outside.id
    BY OutsideStands
  <1>2. login' = [login EXCEPT ![l] = Outside]
    BY DEF Leaves
  <1> HIDE DEF Outside
  <1> QED
    BY <1>1, <1>2, StateStep

\* An id that belongs to a user is no new one.
LEMMA BelongsIsNotNew ==
  ASSUME AccountsInv, NEW k \in Logins, NEW u \in UserIds, users[u] # NoUser,
         login[k].step = "new"
  PROVE  login[k].id # u
  BY DEF AccountsInv, Stands

\* Looking for the administrator or a user, and naming one, keeps the invariant.
LEMMA LookingStep ==
  ASSUME AccountsInv, NEW l \in Logins,
         \/ BootstrapsAdmin(l) \/ Authenticates(l) \/ BuildsUser(l)
         \/ \E i \in Identities : FindsOauthUser(l, i) \/ FindsNobody(l, i)
  PROVE  AccountsInv'
  <1>1. CASE BootstrapsAdmin(l)
    <2> DEFINE r == [username |-> AdminName, identity |-> NoIdentity, email |-> NoUser,
                     admin |-> TRUE]
    <2>1. PICK u \in UserIds :
            /\ FreshId(u)
            /\ Arrives(l, [step |-> "new", identity |-> NoIdentity, id |-> u, row |-> r])
      BY <1>1 DEF BootstrapsAdmin
    <2>2. r \in UserRows /\ r.identity = NoIdentity /\ r.username = AdminName
      BY DEF UserRows, Usernames
    <2> HIDE DEF r
    <2> DEFINE s == [step |-> "new", identity |-> NoIdentity, id |-> u, row |-> r]
    <2>3. /\ s \in States /\ s.step = "new" /\ s.id = u /\ s.row = r
          /\ s.identity = NoIdentity
      BY <2>2 DEF States
    <2>4. Arrives(l, s)
      BY <2>1
    <2> HIDE DEF s
    <2>5. Stands(s)
      BY <2>1, <2>2, <2>3 DEF Stands, FreshId
    <2> QED
      BY <2>1, <2>3, <2>4, <2>5, ArrivesStep DEF FreshId
  <1>2. CASE Authenticates(l)
    <2>1. PICK u \in Rows :
            /\ users[u].identity = NoIdentity
            /\ Arrives(l, [step |-> "logged in", identity |-> NoIdentity, id |-> u,
                           row |-> NoUser])
      BY <1>2 DEF Authenticates
    <2>2. u \in UserIds /\ users[u] # NoUser
      BY DEF Rows
    <2> DEFINE s == [step |-> "logged in", identity |-> NoIdentity, id |-> u, row |-> NoUser]
    <2>3. /\ s \in States /\ s.step = "logged in" /\ s.id = u /\ s.identity = NoIdentity
      BY <2>2 DEF States
    <2>4. Arrives(l, s)
      BY <2>1
    <2> HIDE DEF s
    <2>5. Stands(s)
      BY <2>1, <2>2, <2>3 DEF Stands, Belongs
    <2> QED
      BY <2>2, <2>3, <2>4, <2>5, ArrivesStep, BelongsIsNotNew
  <1>3. ASSUME NEW i \in Identities, FindsOauthUser(l, i)
        PROVE  AccountsInv'
    <2>1. PICK u \in Rows :
            /\ users[u].identity = i
            /\ Arrives(l, [step |-> "known", identity |-> i, id |-> u, row |-> users[u]])
      BY <1>3 DEF FindsOauthUser
    <2>2. u \in UserIds /\ users[u] # NoUser /\ users[u] \in UserRows
      BY DEF Rows, AccountsInv, AccountsTyped
    <2> DEFINE s == [step |-> "known", identity |-> i, id |-> u, row |-> users[u]]
    <2>3. /\ s \in States /\ s.step = "known" /\ s.id = u /\ s.identity = i
      BY <2>2 DEF States
    <2>4. Arrives(l, s)
      BY <2>1
    <2> HIDE DEF s
    <2>5. Stands(s)
      BY <2>1, <2>2, <2>3 DEF Stands, Belongs
    <2> QED
      BY <2>2, <2>3, <2>4, <2>5, ArrivesStep, BelongsIsNotNew
  <1>4. ASSUME NEW i \in Identities, FindsNobody(l, i)
        PROVE  AccountsInv'
    <2> DEFINE s == [step |-> "naming", identity |-> i, id |-> NoUser, row |-> NoUser]
    <2>1. /\ s \in States /\ s.step = "naming" /\ s.id = NoUser /\ s.identity = i
      BY DEF States
    <2>2. Arrives(l, s)
      BY <1>4 DEF FindsNobody
    <2> HIDE DEF s
    <2>3. Stands(s)
      BY <2>1 DEF Stands
    <2>4. \A k \in Logins : login[k].step = "new" => login[k].id # NoUser
      BY OutsideStands DEF Outside
    <2> QED
      BY <2>1, <2>2, <2>3, <2>4, ArrivesStep
  <1>5. CASE BuildsUser(l)
    <2>1. login[l].step = "naming" /\ login[l].identity \in Identities
      BY <1>5 DEF BuildsUser, AccountsInv, Stands
    <2> DEFINE i == login[l].identity
    <2>2. PICK n \in {NamesToTry(i)[k] : k \in DOMAIN NamesToTry(i)} :
            \E u \in UserIds : \E e \in Emails : FreshId(u) /\
              login' = [login EXCEPT ![l].step = "new", ![l].id = u,
                ![l].row = [username |-> n, identity |-> login[l].identity, email |-> e,
                            admin |-> FALSE]]
      BY <1>5 DEF BuildsUser
    <2>3. PICK u \in UserIds, e \in Emails : FreshId(u) /\
            login' = [login EXCEPT ![l].step = "new", ![l].id = u,
              ![l].row = [username |-> n, identity |-> login[l].identity, email |-> e,
                          admin |-> FALSE]]
      BY <2>2
    <2>4. n \in Usernames
      BY <2>1, <2>2 DEF Usernames
    <2> DEFINE r == [username |-> n, identity |-> i, email |-> e, admin |-> FALSE]
    <2>5. r \in UserRows /\ r.identity = i
      BY <2>1, <2>4 DEF UserRows
    <2>6. login' = [login EXCEPT ![l] = [login[l] EXCEPT !.step = "new", !.id = u, !.row = r]]
      BY <2>3
    <2> HIDE DEF r
    <2> DEFINE s == [login[l] EXCEPT !.step = "new", !.id = u, !.row = r]
    <2>7. login[l] \in States
      BY DEF AccountsInv, AccountsTyped
    <2>8. s \in States /\ s.step = "new" /\ s.id = u /\ s.row = r /\ s.identity = i
      BY <2>5, <2>7 DEF States
    <2> HIDE DEF s
    <2>9. Stands(s)
      BY <2>1, <2>3, <2>5, <2>8, NobodyAssumption DEF Stands, FreshId, NobodyAssumption
    <2>10. UNCHANGED <<users, tokens>>
      BY <1>5 DEF BuildsUser
    <2>11. login' = [login EXCEPT ![l] = s]
      BY <2>6 DEF s
    <2> QED
      BY <2>3, <2>8, <2>9, <2>10, <2>11, StateStep DEF FreshId
  <1> QED
    BY <1>1, <1>2, <1>3, <1>4, <1>5
-----------------------------------------------------------------------------
(* Logins that write.                                                      *)

\* A login that is no longer new, after a change of the table that keeps rows apart,
\* takes no user from anybody and leaves the ids of new users unused, keeps the
\* invariant.
LEMMA RowsStep ==
  ASSUME AccountsInv, NEW l \in Logins, NEW s \in States,
         login' = [login EXCEPT ![l] = s], UNCHANGED tokens,
         users' \in [UserIds -> UserRows \cup {NoUser}], RowsDiffer',
         \A u \in UserIds : users[u] # NoUser =>
           users'[u] # NoUser /\ users'[u].identity = users[u].identity,
         \A k \in Logins \ {l} : login[k].step = "new" =>
           users'[login[k].id] = NoUser /\ login[k].id # s.id,
         \/ s.step = "idle"
         \/ /\ s.step = "logged in" /\ s.id \in UserIds
            /\ users'[s.id] # NoUser /\ users'[s.id].identity = s.identity
  PROVE  AccountsInv'
  <1>1. AccountsTyped'
    BY DEF AccountsInv, AccountsTyped
  <1>2. /\ login'[l] = s
        /\ \A k \in Logins \ {l} : login'[k] = login[k]
    BY DEF AccountsInv, AccountsTyped
  <1>3. Stands(login[l])'
    BY <1>2 DEF Stands, Belongs
  <1>4. ASSUME NEW k \in Logins \ {l}
        PROVE  Stands(login[k])'
    <2>1. Stands(login[k]) /\ login'[k] = login[k]
      BY <1>2 DEF AccountsInv
    <2>2. CASE login[k].step \in {"known", "logged in"}
      <3> DEFINE u == login[k].id
      <3>1. u \in UserIds /\ users[u] # NoUser /\ users[u].identity = login[k].identity
        BY <2>1, <2>2 DEF Stands, Belongs
      <3>2. users'[u] # NoUser /\ users'[u].identity = users[u].identity
        <4> HIDE DEF u
        <4> QED
          BY <3>1
      <3>3. Belongs(login[k].id, login[k].identity)'
        BY <2>1, <3>1, <3>2 DEF Belongs
      <3> QED
        BY <2>1, <2>2, <3>3 DEF Stands
    <2>3. CASE login[k].step = "new"
      BY <2>1, <2>3 DEF Stands
    <2>4. CASE login[k].step \notin {"known", "logged in", "new"}
      BY <2>1, <2>4 DEF Stands
    <2> QED
      BY <2>2, <2>3, <2>4
  <1>5. ASSUME NEW j \in Logins, NEW k \in Logins, j # k, login'[j].step = "new"
        PROVE  login'[j].id # login'[k].id
    <2>1. j # l /\ login'[j] = login[j] /\ Own(j, k)
      BY <1>2, <1>5 DEF AccountsInv
    <2>2. CASE k = l
      BY <1>2, <1>5, <2>1, <2>2
    <2>3. CASE k # l
      BY <1>2, <1>5, <2>1, <2>3 DEF Own
    <2> QED
      BY <2>2, <2>3
  <1>6. TokensHold'
    BY DEF AccountsInv, TokensHold, Belongs
  <1> QED
    BY <1>1, <1>3, <1>4, <1>5, <1>6 DEF AccountsInv, Own

\* A row that may be inserted keeps the rows apart and takes no user from anybody.
LEMMA InsertStep ==
  ASSUME AccountsInv, NEW u \in UserIds, NEW r \in UserRows, users[u] = NoUser,
         Insertable(r), r.identity = NoIdentity => r.username = AdminName,
         users' = [users EXCEPT ![u] = r]
  PROVE  /\ users' \in [UserIds -> UserRows \cup {NoUser}]
         /\ RowsDiffer'
         /\ \A v \in UserIds : users[v] # NoUser =>
               users'[v] # NoUser /\ users'[v].identity = users[v].identity
         /\ users'[u] = r /\ \A v \in UserIds \ {u} : users'[v] = users[v]
  <1>1. /\ users' \in [UserIds -> UserRows \cup {NoUser}]
        /\ users'[u] = r /\ \A v \in UserIds \ {u} : users'[v] = users[v]
    BY DEF AccountsInv, AccountsTyped
  <1>2. \A v \in UserIds : users[v] # NoUser =>
          users'[v] # NoUser /\ users'[v].identity = users[v].identity
    BY <1>1
  <1>3. \A v \in UserIds : users[v] # NoUser =>
          /\ users[v].username # r.username
          /\ r.identity = NoIdentity \/ users[v].identity # r.identity
    BY DEF Insertable, Rows
  <1>4. RowsDiffer'
    <2>1. ASSUME NEW v \in UserIds, NEW w \in UserIds,
                 users'[v] # NoUser, users'[w] # NoUser, v # w
          PROVE  /\ users'[v].username # users'[w].username
                 /\ users'[v].identity = NoIdentity \/ users'[v].identity # users'[w].identity
      <3>1. CASE v = u
        BY <1>1, <1>3, <2>1, <3>1
      <3>2. CASE w = u
        BY <1>1, <1>3, <2>1, <3>2
      <3>3. CASE v # u /\ w # u
        BY <1>1, <2>1, <3>3 DEF AccountsInv, RowsDiffer
      <3> QED
        BY <3>1, <3>2, <3>3
    <2>2. ASSUME NEW v \in UserIds, users'[v] # NoUser, users'[v].identity = NoIdentity
          PROVE  users'[v].username = AdminName
      BY <1>1, <2>2 DEF AccountsInv, RowsDiffer
    <2> QED
      BY <2>1, <2>2 DEF RowsDiffer
  <1> QED
    BY <1>1, <1>2, <1>4

\* Committing a new user keeps the invariant.
LEMMA CommitStep ==
  ASSUME AccountsInv, NEW l \in Logins, CommitsUser(l)
  PROVE  AccountsInv'
  <1> DEFINE u == login[l].id
             r == login[l].row
  <1>1. /\ login[l].step = "new" /\ Insertable(r)
        /\ users' = [users EXCEPT ![u] = r] /\ UNCHANGED tokens
    BY DEF CommitsUser
  <1>2. /\ u \in UserIds /\ r \in UserRows /\ users[u] = NoUser
        /\ r.identity = login[l].identity
        /\ r.identity = NoIdentity => r.username = AdminName
    BY <1>1 DEF AccountsInv, Stands
  <1>3. /\ users' \in [UserIds -> UserRows \cup {NoUser}]
        /\ RowsDiffer'
        /\ \A v \in UserIds : users[v] # NoUser =>
               users'[v] # NoUser /\ users'[v].identity = users[v].identity
        /\ users'[u] = r /\ \A v \in UserIds \ {u} : users'[v] = users[v]
    BY <1>1, <1>2, InsertStep
  <1>4. ASSUME NEW k \in Logins \ {l}, login[k].step = "new"
        PROVE  users'[login[k].id] = NoUser /\ login[k].id # u
    BY <1>3, <1>4 DEF AccountsInv, Stands, Own
  <1>5. CASE login[l].identity = NoIdentity
    <2>1. login' = [login EXCEPT ![l] = Outside]
      BY <1>5 DEF CommitsUser, Leaves
    <2>2. /\ Outside \in States /\ Outside.step = "idle"
          /\ \A k \in Logins : login[k].step = "new" => login[k].id # Outside.id
      BY OutsideStands
    <2> HIDE DEF Outside
    <2>3. \A k \in Logins \ {l} : login[k].step = "new" =>
            users'[login[k].id] = NoUser /\ login[k].id # Outside.id
      BY <1>4, <2>2
    <2> HIDE DEF u, r
    <2> QED
      BY <1>1, <1>3, <2>1, <2>2, <2>3, RowsStep
  <1>6. CASE login[l].identity # NoIdentity
    <2> DEFINE s == [login[l] EXCEPT !.step = "logged in"]
    <2>1. login[l] \in States
      BY DEF AccountsInv, AccountsTyped
    <2>2. /\ s \in States /\ s.step = "logged in" /\ s.id = u
          /\ s.identity = login[l].identity
      BY <2>1 DEF States
    <2>3. login' = [login EXCEPT ![l] = s]
      BY <1>6 DEF CommitsUser
    <2> HIDE DEF s
    <2>4. users'[u] # NoUser
      BY <1>2, <1>3, NobodyAssumption DEF NobodyAssumption
    <2>5. /\ s.id \in UserIds
          /\ users'[s.id] # NoUser /\ users'[s.id].identity = s.identity
      BY <1>2, <1>3, <2>2, <2>4
    <2>6. \A k \in Logins \ {l} : login[k].step = "new" =>
            users'[login[k].id] = NoUser /\ login[k].id # s.id
      BY <1>4, <2>2
    <2> HIDE DEF u, r
    <2> QED
      BY <1>1, <1>3, <2>2, <2>3, <2>5, <2>6, RowsStep
  <1> QED
    BY <1>5, <1>6

\* Updating the profile of a known user keeps the invariant.
LEMMA SyncStep ==
  ASSUME AccountsInv, NEW l \in Logins, SyncsProfile(l)
  PROVE  AccountsInv'
  <1> DEFINE u == login[l].id
             s == [login[l] EXCEPT !.step = "logged in"]
  <1>1. PICK e \in Emails : users' = [users EXCEPT ![u] = [users[u] EXCEPT !.email = e]]
    BY DEF SyncsProfile
  <1>2. Belongs(u, login[l].identity) /\ UNCHANGED tokens
    BY DEF SyncsProfile, AccountsInv, Stands
  <1>3. u \in UserIds /\ users[u] \in UserRows
    BY <1>2 DEF AccountsInv, AccountsTyped, Belongs
  <1> DEFINE r == [users[u] EXCEPT !.email = e]
  <1>4. r \in UserRows /\ r.username = users[u].username /\ r.identity = users[u].identity
    BY <1>3 DEF UserRows
  <1>5. r # NoUser
    BY <1>4, NobodyAssumption DEF NobodyAssumption
  <1>6. users' = [users EXCEPT ![u] = r]
    BY <1>1
  <1> HIDE DEF r
  <1>7. users' \in [UserIds -> UserRows \cup {NoUser}]
    BY <1>4, <1>6 DEF AccountsInv, AccountsTyped
  <1>8. \A v \in UserIds :
          /\ users'[v] = NoUser <=> users[v] = NoUser
          /\ users'[v] # NoUser => users'[v].username = users[v].username
                                   /\ users'[v].identity = users[v].identity
    BY <1>2, <1>3, <1>4, <1>5, <1>6 DEF AccountsInv, AccountsTyped, Belongs
  <1>9. RowsDiffer'
    BY <1>8 DEF AccountsInv, RowsDiffer
  <1>10. \A v \in UserIds : users[v] # NoUser =>
          users'[v] # NoUser /\ users'[v].identity = users[v].identity
    BY <1>8
  <1>11. ASSUME NEW k \in Logins \ {l}, login[k].step = "new"
         PROVE  users'[login[k].id] = NoUser /\ login[k].id # u
    BY <1>2, <1>8, <1>11 DEF AccountsInv, Stands, Belongs
  <1>12. login[l] \in States
    BY DEF AccountsInv, AccountsTyped
  <1>13. s \in States /\ s.step = "logged in" /\ s.id = u /\ s.identity = login[l].identity
    BY <1>12 DEF States
  <1>14. login' = [login EXCEPT ![l] = s]
    BY DEF SyncsProfile
  <1> HIDE DEF s
  <1>15. /\ s.id \in UserIds
         /\ users'[s.id] # NoUser /\ users'[s.id].identity = s.identity
    BY <1>2, <1>3, <1>10, <1>13 DEF Belongs
  <1>16. \A k \in Logins \ {l} : login[k].step = "new" =>
           users'[login[k].id] = NoUser /\ login[k].id # s.id
    BY <1>11, <1>13
  <1> HIDE DEF u
  <1> QED
    BY <1>2, <1>7, <1>9, <1>10, <1>13, <1>14, <1>15, <1>16, RowsStep

\* Handing out a token keeps the invariant.
LEMMA TokenStep ==
  ASSUME AccountsInv, NEW l \in Logins, CreatesAccessToken(l)
  PROVE  AccountsInv'
  <1> DEFINE t == [for |-> login[l].identity, subject |-> login[l].id]
  <1>1. /\ tokens' = tokens \cup {t} /\ UNCHANGED users
        /\ login' = [login EXCEPT ![l] = Outside]
    BY DEF CreatesAccessToken, Leaves
  <1>2. Belongs(t.subject, t.for)
    BY DEF CreatesAccessToken, AccountsInv, Stands
  <1>3. TokensHold'
    BY <1>1, <1>2 DEF AccountsInv, TokensHold, Belongs
  <1>4. /\ Outside \in States /\ Stands(Outside) /\ Outside.step = "idle"
        /\ \A k \in Logins : login[k].step = "new" => login[k].id # Outside.id
    BY OutsideStands
  <1> HIDE DEF Outside
  <1>5. AccountsTyped' /\ login'[l] = Outside /\ \A k \in Logins \ {l} : login'[k] = login[k]
    BY <1>1, <1>4 DEF AccountsInv, AccountsTyped
  <1>6. \A k \in Logins : Stands(login[k])'
    BY <1>1, <1>4, <1>5 DEF AccountsInv, Stands, Belongs
  <1>7. \A j, k \in Logins : Own(j, k)'
    BY <1>4, <1>5 DEF AccountsInv, Own
  <1>8. RowsDiffer'
    BY <1>1 DEF AccountsInv, RowsDiffer
  <1> QED
    BY <1>3, <1>5, <1>6, <1>7, <1>8 DEF AccountsInv

-----------------------------------------------------------------------------
(* The theorem.                                                            *)

\* Tokens of one identity, and of the password, are for one account, and tokens of
\* two are for two.
THEOREM OneAccountEach == AccountsSpec => []OneAccountPerIdentity
  <1>1. AccountsInit => AccountsInv
    <2> SUFFICES ASSUME AccountsInit PROVE AccountsInv
      OBVIOUS
    <2>1. AccountsTyped
      BY DEF AccountsInit, AccountsTyped, Outside, States
    <2>2. \A l \in Logins : login[l].step = "idle"
      BY DEF AccountsInit, Outside
    <2>3. \A u \in UserIds : users[u] = NoUser
      BY DEF AccountsInit
    <2>4. tokens = {}
      BY DEF AccountsInit
    <2> QED
      BY <2>1, <2>2, <2>3, <2>4 DEF AccountsInv, Stands, Own, RowsDiffer, TokensHold
  <1>2. AccountsInv /\ [AccountsNext]_accountVars => AccountsInv'
    <2> SUFFICES ASSUME AccountsInv, [AccountsNext]_accountVars
                 PROVE  AccountsInv'
      OBVIOUS
    <2>1. CASE UNCHANGED accountVars
      BY <2>1 DEF accountVars, AccountsInv, AccountsTyped, Stands, Own, RowsDiffer,
                  TokensHold, Belongs
    <2>2. ASSUME NEW l \in Logins, LoginFails(l)
          PROVE  AccountsInv'
      BY <2>2, LeavesStep DEF LoginFails
    <2> QED
      BY <2>1, <2>2, LookingStep, CommitStep, SyncStep, TokenStep DEF AccountsNext
  <1>3. AccountsInv => OneAccountPerIdentity
    <2> SUFFICES ASSUME AccountsInv, NEW t \in tokens, NEW s \in tokens
                 PROVE  t.for = s.for <=> t.subject = s.subject
      BY DEF OneAccountPerIdentity
    <2>1. Belongs(t.subject, t.for) /\ Belongs(s.subject, s.for)
      BY DEF AccountsInv, TokensHold
    <2> QED
      BY <2>1 DEF AccountsInv, RowsDiffer, Belongs
  <1> QED
    BY <1>1, <1>2, <1>3, PTL DEF AccountsSpec

-----------------------------------------------------------------------------
(* Sessions and projects.                                                  *)

Events == {"step", "user", "assistant", "done", "error"}

\* A row has all its columns, a session's events are a list and its count a number.
WholeRow(i, r) ==
  /\ r = [c \in ColumnsOf(i) |-> r[c]]
  /\ i \in Sessions => r["events"] \in Seq(Events) /\ r["unread"] \in Nat

\* Row i as stored is whole, and as it was meant to be in every column that nobody raced for.
RowStands(i) ==
  stored[i] # None =>
    /\ WholeRow(i, stored[i])
    /\ intended[i] = [c \in ColumnsOf(i) |-> intended[i][c]]
    /\ \A c \in ColumnsOf(i) : <<i, c>> \in raced \/ stored[i][c] = intended[i][c]

\* What a save under way will not undo: it has changed its own columns only, but
\* for those that were written between its readings.
SaveStands(t) ==
  LET others == ColumnsOf(t.id) \ t.set
  IN /\ t.id \in RowIds /\ t.set \subseteq ColumnsOf(t.id)
     /\ WholeRow(t.id, t.object)
     /\ t.step = "loaded" /\ stored[t.id] # None =>
          \A c \in others : <<t.id, c>> \in raced \/ t.object[c] = stored[t.id][c]
     /\ t.step = "saved" /\ t.seen # None =>
          \A c \in others : <<t.id, c>> \in raced \/ t.object[c] = t.seen[c]

\* Whoever removes a file has locked the row and read the files that are there.
RemovalStands(w, t) ==
  /\ t.id \in Sessions /\ lock[t.id] = w
  /\ stored[t.id] # None
  /\ t.seen = stored[t.id]["files"] /\ t.object = t.seen \ t.set

WriterStands(w, t) ==
  /\ t = [step |-> t.step, id |-> t.id, object |-> t.object, seen |-> t.seen, set |-> t.set]
  /\ t.step \in {"idle", "loaded", "saved", "answering", "removing"}
  /\ t.step \in {"loaded", "saved"} => SaveStands(t)
  /\ t.step = "answering" => t.id \in Sessions
  /\ t.step = "removing" => RemovalStands(w, t)

RowsTyped ==
  /\ stored = [i \in RowIds |-> stored[i]] /\ intended = [i \in RowIds |-> intended[i]]
  /\ writer = [w \in Writers |-> writer[w]]
  /\ lock \in [Sessions -> Writers \cup {None}]

SessionInv ==
  /\ RowsTyped
  /\ \A i \in RowIds : RowStands(i)
  /\ \A w \in Writers : WriterStands(w, writer[w])

-----------------------------------------------------------------------------
(* Single statements.                                                      *)

\* A session's and a project's columns.
LEMMA Columns ==
  /\ \A s \in Sessions : s \in RowIds /\ ColumnsOf(s) = SessionColumns
  /\ \A p \in Projects : p \in RowIds /\ p \notin Sessions /\ ColumnsOf(p) = {"name"}
  BY SessionAssumption DEF SessionAssumption, RowIds, ColumnsOf

\* What is appended to a list is what is found behind it.
LEMMA AppendedPart ==
  ASSUME NEW s \in Seq(Events), NEW t \in Seq(Events), t # << >>
  PROVE  /\ SubSeq(s \o t, Len(s) + 1, Len(s \o t)) = t
         /\ s \o t \in Seq(Events)
  <1>1. Len(s) \in Nat /\ Len(t) \in Nat \ {0} /\ Len(s \o t) = Len(s) + Len(t)
    BY EmptySeq, ConcatProperties
  <1>2. SubSeq(s \o t, Len(s) + 1, Len(s) + Len(t)) =
          SubSeq(t, Len(s) + 1 - Len(s), Len(s) + Len(t) - Len(s))
    BY <1>1, SubSeqOfConcat2
  <1>3. Len(s) + 1 - Len(s) = 1 /\ Len(s) + Len(t) - Len(s) = Len(t)
    BY <1>1
  <1>4. SubSeq(t, 1, Len(t)) = t
    BY SubSeqFull
  <1> QED
    BY <1>1, <1>2, <1>3, <1>4, ConcatProperties

\* What a statement may write into a column.
Fitting(s, c, value) ==
  /\ c = "events" => \E t \in Seq(Events) : t # << >> /\ value = stored[s]["events"] \o t
  /\ c = "unread" => value \in Nat
  /\ c = "files" => \E F : value = stored[s]["files"] \cup F

\* A statement writes one column, and what was meant with it, if it was so before.
LEMMA UpdateWrites ==
  ASSUME SessionInv, NEW s \in Sessions, NEW c \in SessionColumns, NEW value,
         Updates(s, c, value), Fitting(s, c, value)
  PROVE  /\ RowStands(s)'
         /\ stored'[s] # None => stored'[s] = [stored[s] EXCEPT ![c] = value]
         /\ \A i \in RowIds \ {s} : stored'[i] = stored[i] /\ intended'[i] = intended[i]
  <1>1. /\ RowsTyped /\ RowStands(s) /\ stored[s] # None
        /\ s \in RowIds /\ ColumnsOf(s) = SessionColumns
    BY Columns DEF SessionInv, Updates
  <1> DEFINE meant(old) ==
        CASE c = "unread" /\ value = 0 -> 0
          [] c = "unread" -> old + (value - stored[s][c])
          [] c = "events" -> old \o SubSeq(value, Len(stored[s][c]) + 1, Len(value))
          [] c = "files" -> old \cup value
          [] OTHER -> value
  <1>2. stored'[s] = [stored[s] EXCEPT ![c] = value]
    BY <1>1 DEF Updates, RowsTyped
  <1>3. intended'[s] = [intended[s] EXCEPT ![c] = meant(intended[s][c])]
    BY <1>1 DEF Updates, RowsTyped
  <1>4. \A i \in RowIds \ {s} : stored'[i] = stored[i] /\ intended'[i] = intended[i]
    BY <1>1 DEF Updates, RowsTyped
  <1>5. meant(stored[s][c]) = value
    <2>1. CASE c = "events"
      <3>1. PICK t \in Seq(Events) : t # << >> /\ value = stored[s]["events"] \o t
        BY <2>1 DEF Fitting
      <3>2. stored[s]["events"] \in Seq(Events)
        BY <1>1 DEF RowStands, WholeRow
      <3> QED
        BY <2>1, <3>1, <3>2, AppendedPart
    <2>2. CASE c = "unread"
      BY <1>1, <2>2 DEF Fitting, RowStands, WholeRow
    <2>3. CASE c = "files"
      BY <1>1, <2>3 DEF Fitting
    <2> QED
      BY <2>1, <2>2, <2>3
  <1>6. WholeRow(s, stored'[s])
    <2>1. c = "events" => value \in Seq(Events)
      BY <1>1, AppendedPart DEF Fitting, RowStands, WholeRow
    <2>2. c = "unread" => value \in Nat
      BY DEF Fitting
    <2> QED
      BY <1>1, <1>2, <2>1, <2>2 DEF RowStands, WholeRow, SessionColumns
  <1>7. raced \subseteq raced'
    BY DEF Updates, Races
  <1>8. intended'[s] = [d \in SessionColumns |-> intended'[s][d]]
    BY <1>1, <1>3 DEF RowStands
  <1>9. ASSUME NEW d \in SessionColumns, <<s, d>> \notin raced'
        PROVE  stored'[s][d] = intended'[s][d]
    <2>1. stored[s][d] = intended[s][d]
      BY <1>1, <1>7, <1>9 DEF RowStands
    <2>2. /\ stored'[s][d] = IF d = c THEN value ELSE stored[s][d]
          /\ intended'[s][d] = IF d = c THEN meant(intended[s][d]) ELSE intended[s][d]
      <3> HIDE DEF meant
      <3> QED
        BY <1>1, <1>2, <1>3 DEF RowStands, WholeRow
    <2> HIDE DEF meant
    <2> QED
      BY <1>5, <2>1, <2>2
  <1> QED
    BY <1>1, <1>2, <1>4, <1>6, <1>8, <1>9 DEF RowStands


\* Whoever has not locked the row keeps what he has, or has been overtaken.
LEMMA UpdateSpares ==
  ASSUME SessionInv, NEW s \in Sessions, NEW c \in SessionColumns, NEW value,
         Updates(s, c, value), Fitting(s, c, value),
         NEW w \in Writers, writer'[w] = writer[w]
  PROVE  WriterStands(w, writer[w])'
  <1> DEFINE t == writer[w]
  <1>1. /\ WriterStands(w, t) /\ RowStands(s) /\ s \in RowIds
        /\ stored[s] # None /\ lock[s] = None /\ lock' = lock
        /\ stored'[s] # None => stored'[s] = [stored[s] EXCEPT ![c] = value]
        /\ \A i \in RowIds \ {s} : stored'[i] = stored[i]
    BY UpdateWrites, Columns DEF SessionInv, Updates
  <1>2. raced \subseteq raced' /\ (t.step = "loaded" /\ t.id = s => <<s, c>> \in raced')
    BY SessionAssumption DEF SessionAssumption, Updates, Races
  <1>3. ASSUME t.step \in {"loaded", "saved"}
        PROVE  SaveStands(t)'
    <2>1. SaveStands(t) /\ t' = t
      BY <1>1, <1>3 DEF WriterStands
    <2>2. ASSUME t.step = "loaded", stored'[t.id] # None, NEW d \in ColumnsOf(t.id) \ t.set
          PROVE  <<t.id, d>> \in raced' \/ t.object[d] = stored'[t.id][d]
      <3>1. CASE t.id # s
        BY <1>1, <1>2, <2>1, <2>2, <3>1 DEF SaveStands
      <3>2. CASE t.id = s /\ d # c
        <4>1. stored'[s][d] = stored[s][d]
          BY <1>1, <2>2, <3>2 DEF RowStands, WholeRow
        <4> QED
          BY <1>1, <1>2, <2>1, <2>2, <3>2, <4>1 DEF SaveStands
      <3>3. CASE t.id = s /\ d = c
        BY <1>2, <2>2, <3>3
      <3> QED
        BY <3>1, <3>2, <3>3
    <2>3. ASSUME t.step = "saved", t.seen # None, NEW d \in ColumnsOf(t.id) \ t.set
          PROVE  <<t.id, d>> \in raced' \/ t.object[d] = t.seen[d]
      BY <1>2, <2>1, <2>3 DEF SaveStands
    <2> HIDE DEF t
    <2> QED
      BY <2>1, <2>2, <2>3 DEF SaveStands, WholeRow
  <1>4. ASSUME t.step = "removing"
        PROVE  RemovalStands(w, t)'
    <2>1. RemovalStands(w, t)
      BY <1>1, <1>4 DEF WriterStands
    <2>2. t.id # s
      BY <1>1, <2>1, SessionAssumption DEF RemovalStands, SessionAssumption
    <2> QED
      BY <1>1, <2>1, <2>2, Columns DEF RemovalStands
  <1> QED
    BY <1>1, <1>3, <1>4 DEF WriterStands

\* A writer that rests, or waits for the model's answer, has nothing to write.
Light(t) ==
  t = Resting \/ \E s \in Sessions : t = [Resting EXCEPT !.step = "answering", !.id = s]

\* A writer that holds no row has nothing to stand for.
LEMMA LightFields ==
  ASSUME NEW t, Light(t)
  PROVE  /\ t = [step |-> t.step, id |-> t.id, object |-> t.object, seen |-> t.seen, set |-> t.set]
         /\ t.step \in {"idle", "answering"}
         /\ t.step = "answering" => t.id \in Sessions
  <1>1. PICK r : r = Resting
    OBVIOUS
  <1>2. /\ r = [step |-> r.step, id |-> r.id, object |-> r.object, seen |-> r.seen, set |-> r.set]
        /\ r.step = "idle"
    BY <1>1 DEF Resting
  <1>3. t = r \/ \E s \in Sessions : t = [r EXCEPT !.step = "answering", !.id = s]
    BY <1>1 DEF Light
  <1> QED
    BY <1>2, <1>3

\* A statement, of a writer that goes on to wait or to rest, or of nobody.
LEMMA UpdateStep ==
  ASSUME SessionInv, NEW s \in Sessions, NEW c \in SessionColumns, NEW value,
         Updates(s, c, value), Fitting(s, c, value),
         \/ UNCHANGED writer
         \/ \E w \in Writers : \E t :
              writer' = [writer EXCEPT ![w] = t] /\ Light(t)
  PROVE  SessionInv'
  <1>1. RowsTyped' \/ writer' # [w \in Writers |-> writer'[w]]
    <2>1. stored' = [i \in RowIds |-> stored'[i]]
      BY Columns DEF SessionInv, RowsTyped, Updates
    <2>2. intended' = [i \in RowIds |-> intended'[i]]
      <3>1. PICK x : intended' = [intended EXCEPT ![s][c] = x]
        BY DEF Updates
      <3> QED
        BY <3>1, Columns DEF SessionInv, RowsTyped
    <2> QED
      BY <2>1, <2>2 DEF SessionInv, RowsTyped, Updates
  <1>2. \A i \in RowIds : RowStands(i)'
    <2>1. raced \subseteq raced'
      BY DEF Updates, Races
    <2>2. ASSUME NEW i \in RowIds \ {s}
          PROVE  RowStands(i)'
      <3>1. RowStands(i) /\ stored'[i] = stored[i] /\ intended'[i] = intended[i]
        BY UpdateWrites DEF SessionInv
      <3> QED
        BY <2>1, <3>1 DEF RowStands, WholeRow
    <2> QED
      BY <2>2, UpdateWrites
  <1>3. CASE UNCHANGED writer
    <2>1. \A w \in Writers : WriterStands(w, writer[w])'
      BY <1>3, UpdateSpares
    <2> QED
      BY <1>1, <1>2, <1>3, <2>1 DEF SessionInv, RowsTyped
  <1>4. ASSUME NEW w \in Writers, NEW t,
               writer' = [writer EXCEPT ![w] = t],
               Light(t)
        PROVE  SessionInv'
    <2>1. writer'[w] = t /\ \A v \in Writers \ {w} : writer'[v] = writer[v]
      BY <1>4 DEF SessionInv, RowsTyped
    <2>2. \A v \in Writers \ {w} : WriterStands(v, writer[v])'
      BY <2>1, UpdateSpares
    <2>3. WriterStands(w, writer[w])'
      BY <1>4, <2>1, LightFields DEF WriterStands
    <2>4. writer' = [v \in Writers |-> writer'[v]]
      BY <1>4 DEF SessionInv, RowsTyped
    <2> QED
      BY <1>1, <1>2, <2>2, <2>3, <2>4 DEF SessionInv
  <1> QED
    BY <1>3, <1>4

-----------------------------------------------------------------------------
(* Steps that leave the rows alone.                                        *)

\* A writer goes on to a state that stands; others keep their locks.
LEMMA WriterGoesOn ==
  ASSUME SessionInv, NEW w \in Writers, NEW t,
         writer' = [writer EXCEPT ![w] = t], UNCHANGED <<stored, intended, raced>>,
         lock' \in [Sessions -> Writers \cup {None}],
         \A v \in Writers \ {w} : \A s \in Sessions : lock[s] = v => lock'[s] = v,
         WriterStands(w, t)'
  PROVE  SessionInv'
  <1>1. RowsTyped'
    BY DEF SessionInv, RowsTyped
  <1>2. writer'[w] = t /\ \A v \in Writers \ {w} : writer'[v] = writer[v]
    BY DEF SessionInv, RowsTyped
  <1>3. \A i \in RowIds : RowStands(i)'
    BY DEF SessionInv, RowStands, WholeRow
  <1>4. ASSUME NEW v \in Writers \ {w}
        PROVE  WriterStands(v, writer[v])'
    <2>1. WriterStands(v, writer[v]) /\ writer'[v] = writer[v]
      BY <1>2 DEF SessionInv
    <2> QED
      BY <2>1 DEF WriterStands, SaveStands, RemovalStands, WholeRow
  <1> QED
    BY <1>1, <1>2, <1>3, <1>4 DEF SessionInv

\* A save begins with an object that is whole and, if it is of a row, is that row.
LEMMA SaveBegins ==
  ASSUME SessionInv, NEW w \in Writers, NEW i \in RowIds, NEW r, NEW S \in SUBSET ColumnsOf(i),
         Begins(w, [step |-> "loaded", id |-> i, object |-> r, seen |-> None, set |-> S]),
         UNCHANGED <<stored, lock, intended, raced>>,
         WholeRow(i, r), S = ColumnsOf(i) \/ r = stored[i]
  PROVE  SessionInv'
  <1> DEFINE t == [step |-> "loaded", id |-> i, object |-> r, seen |-> None, set |-> S]
  <1>1. WriterStands(w, t)'
    BY DEF WriterStands, SaveStands, WholeRow
  <1>2. writer' = [writer EXCEPT ![w] = t]
    BY DEF Begins
  <1> HIDE DEF t
  <1> QED
    BY <1>1, <1>2, WriterGoesOn DEF SessionInv, RowsTyped

\* Creating a row, or reading one to update it.
LEMMA CreationStep ==
  ASSUME SessionInv, NEW w \in Writers,
         \/ \E s \in Sessions : CreatesSession(w, s)
         \/ \E p \in Projects : CreatesProject(w, p)
         \/ \E i \in RowIds : LoadsToUpdate(w, i)
  PROVE  SessionInv'
  <1>1. ASSUME NEW s \in Sessions, CreatesSession(w, s)
        PROVE  SessionInv'
    <2>1. PICK p \in Projects \cup {None} :
            Begins(w, [step |-> "loaded", id |-> s, object |-> NewSession(p), seen |-> None,
                       set |-> SessionColumns])
      BY <1>1 DEF CreatesSession
    <2>2. << >> \in Seq(Events)
      BY EmptySeq
    <2>3. WholeRow(s, NewSession(p))
      BY <2>2, Columns DEF WholeRow, NewSession, SessionColumns
    <2> QED
      BY <1>1, <2>1, <2>3, Columns, SaveBegins DEF CreatesSession
  <1>2. ASSUME NEW p \in Projects, CreatesProject(w, p)
        PROVE  SessionInv'
    <2>1. PICK n \in Titles :
            Begins(w, [step |-> "loaded", id |-> p, object |-> [c \in {"name"} |-> n],
                       seen |-> None, set |-> {"name"}])
      BY <1>2 DEF CreatesProject
    <2>2. WholeRow(p, [c \in {"name"} |-> n])
      BY Columns DEF WholeRow
    <2> QED
      BY <1>2, <2>1, <2>2, Columns, SaveBegins DEF CreatesProject
  <1>3. ASSUME NEW i \in RowIds, LoadsToUpdate(w, i)
        PROVE  SessionInv'
    <2>1. WholeRow(i, stored[i])
      BY <1>3 DEF SessionInv, RowStands, LoadsToUpdate
    <2> QED
      BY <1>3, <2>1, SaveBegins DEF LoadsToUpdate
  <1> QED
    BY <1>1, <1>2, <1>3

\* Setting a column of an object that was read.
LEMMA SettingStep ==
  ASSUME SessionInv, NEW w \in Writers, NEW c \in {"title", "project", "name", "task"}, NEW x,
         Sets(w, c, x)
  PROVE  SessionInv'
  <1>1. PICK o : o = writer[w]
    OBVIOUS
  <1>2. o.step = "loaded" /\ WriterStands(w, o) /\ SaveStands(o) /\ c \in ColumnsOf(o.id)
    BY <1>1 DEF SessionInv, Sets, WriterStands
  <1>3. PICK t : t = [o EXCEPT !.object[c] = x, !.set = @ \cup {c}]
    OBVIOUS
  <1>4. writer' = [writer EXCEPT ![w] = t]
    BY <1>1, <1>3 DEF Sets, SessionInv, RowsTyped
  <1>5. t = [step |-> "loaded", id |-> o.id, object |-> [o.object EXCEPT ![c] = x],
             seen |-> o.seen, set |-> o.set \cup {c}]
    <2>1. o = [step |-> o.step, id |-> o.id, object |-> o.object, seen |-> o.seen, set |-> o.set]
      BY <1>2 DEF WriterStands
    <2> QED
      BY <1>2, <1>3, <2>1
  <1>6. WholeRow(o.id, t.object)
    BY <1>2, <1>5 DEF SaveStands, WholeRow
  <1>7. \A d \in ColumnsOf(o.id) \ t.set : t.object[d] = o.object[d]
    BY <1>2, <1>5 DEF SaveStands, WholeRow
  <1>8. t.step = "loaded" /\ t.id = o.id /\ t.set = o.set \cup {c}
    BY <1>5
  <1>9. SaveStands(t)'
    BY <1>2, <1>6, <1>7, <1>8 DEF Sets, SaveStands, WholeRow
  <1>10. WriterStands(w, t)'
    BY <1>5, <1>9 DEF WriterStands
  <1> QED
    BY <1>4, <1>10, WriterGoesOn DEF Sets, SessionInv, RowsTyped

\* save() reads the row again.
LEMMA SecondLookStep ==
  ASSUME SessionInv, NEW w \in Writers, LooksAgain(w)
  PROVE  SessionInv'
  <1>1. PICK o : o = writer[w]
    OBVIOUS
  <1>2. o.step = "loaded" /\ WriterStands(w, o) /\ SaveStands(o)
    BY <1>1 DEF SessionInv, LooksAgain, WriterStands
  <1>3. PICK t : t = [o EXCEPT !.step = "saved", !.seen = stored[o.id]]
    OBVIOUS
  <1>4. writer' = [writer EXCEPT ![w] = t]
    BY <1>1, <1>3 DEF LooksAgain, SessionInv, RowsTyped
  <1>5. t = [step |-> "saved", id |-> o.id, object |-> o.object, seen |-> stored[o.id], set |-> o.set]
    <2>1. o = [step |-> o.step, id |-> o.id, object |-> o.object, seen |-> o.seen, set |-> o.set]
      BY <1>2 DEF WriterStands
    <2> QED
      BY <1>3, <2>1
  <1>6. SaveStands(t)'
    BY <1>2, <1>5 DEF LooksAgain, SaveStands, WholeRow
  <1>7. WriterStands(w, t)'
    BY <1>5, <1>6 DEF WriterStands
  <1> QED
    BY <1>4, <1>7, WriterGoesOn DEF LooksAgain, SessionInv, RowsTyped

\* A unit of work that fails writes nothing.
LEMMA RollBackStep ==
  ASSUME SessionInv, NEW w \in Writers, RollsBackWriter(w)
  PROVE  SessionInv'
  <1>1. Light(Resting)
    BY DEF Light
  <1>2. WriterStands(w, Resting)'
    BY <1>1, LightFields DEF WriterStands
  <1>3. /\ lock' \in [Sessions -> Writers \cup {None}]
        /\ \A v \in Writers \ {w} : \A s \in Sessions : lock[s] = v => lock'[s] = v
    BY DEF RollsBackWriter, SessionInv, RowsTyped
  <1> QED
    BY <1>2, <1>3, WriterGoesOn DEF RollsBackWriter, Rests

\* Removing a file locks the row and reads its files.
LEMMA LockingStep ==
  ASSUME SessionInv, NEW w \in Writers, NEW s \in Sessions, RemovesFile(w, s)
  PROVE  SessionInv'
  <1>1. PICK f \in Files :
          Begins(w, [step |-> "removing", id |-> s, object |-> stored[s]["files"] \ {f},
                     seen |-> stored[s]["files"], set |-> {f}])
    BY DEF RemovesFile
  <1>2. PICK t : t = [step |-> "removing", id |-> s, object |-> stored[s]["files"] \ {f},
                      seen |-> stored[s]["files"], set |-> {f}]
    OBVIOUS
  <1>3. /\ lock' = [lock EXCEPT ![s] = w] /\ lock[s] = None /\ stored[s] # None
        /\ UNCHANGED <<stored, intended, raced>>
    BY DEF RemovesFile
  <1>4. /\ lock' \in [Sessions -> Writers \cup {None}] /\ lock'[s] = w
        /\ \A v \in Writers \ {w} : \A q \in Sessions : lock[q] = v => lock'[q] = v
    BY <1>3, SessionAssumption DEF SessionInv, RowsTyped, SessionAssumption
  <1>5. WriterStands(w, t)'
    BY <1>2, <1>3, <1>4 DEF WriterStands, RemovalStands
  <1>6. writer' = [writer EXCEPT ![w] = t]
    BY <1>1, <1>2 DEF Begins
  <1> QED
    BY <1>3, <1>4, <1>5, <1>6, WriterGoesOn

-----------------------------------------------------------------------------
(* Commits.                                                                *)

\* A row that somebody has replaced, by one that stands, and everything else as it was.
LEMMA OthersSpared ==
  ASSUME SessionInv, NEW w \in Writers, NEW i \in RowIds, NEW C,
         writer' = [writer EXCEPT ![w] = Resting],
         Races(w, i, C),
         stored' = [j \in RowIds |-> stored'[j]], intended' = [j \in RowIds |-> intended'[j]],
         \A j \in RowIds \ {i} : stored'[j] = stored[j] /\ intended'[j] = intended[j],
         RowStands(i)',
         lock' \in [Sessions -> Writers \cup {None}],
         \A s \in Sessions : lock[s] \in Writers \ {w} => lock'[s] = lock[s] /\ i # s,
         \A d \in ColumnsOf(i) \ C : <<i, d>> \in raced
            \/ (stored[i] # None /\ stored'[i][d] = stored[i][d])
  PROVE  SessionInv'
  <1>1. RowsTyped'
    BY DEF SessionInv, RowsTyped
  <1>2. raced \subseteq raced'
    BY DEF Races
  <1>3. \A j \in RowIds : RowStands(j)'
    <2>1. ASSUME NEW j \in RowIds \ {i}
          PROVE  RowStands(j)'
      <3>1. RowStands(j) /\ stored'[j] = stored[j] /\ intended'[j] = intended[j]
        BY DEF SessionInv
      <3> QED
        BY <1>2, <3>1 DEF RowStands, WholeRow
    <2> QED
      BY <2>1
  <1>4. WriterStands(w, writer[w])'
    <2>1. writer'[w] = Resting
      BY DEF SessionInv, RowsTyped
    <2>2. Light(Resting)
      BY DEF Light
    <2> QED
      BY <2>1, <2>2, LightFields DEF WriterStands
  <1>5. ASSUME NEW v \in Writers \ {w}
        PROVE  WriterStands(v, writer[v])'
    <2>1. PICK t : t = writer[v]
      OBVIOUS
    <2>2. WriterStands(v, t) /\ writer'[v] = t
      BY <2>1 DEF SessionInv, RowsTyped
    <2>3. t.step = "loaded" /\ t.id = i => \A d \in C : <<i, d>> \in raced'
      BY <2>1 DEF Races
    <2>4. ASSUME t.step \in {"loaded", "saved"}
          PROVE  SaveStands(t)'
      <3>1. SaveStands(t)
        BY <2>2, <2>4 DEF WriterStands
      <3>2. ASSUME t.step = "loaded", stored'[t.id] # None, NEW d \in ColumnsOf(t.id) \ t.set
            PROVE  <<t.id, d>> \in raced' \/ t.object[d] = stored'[t.id][d]
        <4>1. CASE t.id # i
          <5>1. t.id \in RowIds /\ stored'[t.id] = stored[t.id]
            BY <3>1, <4>1 DEF SaveStands
          <5>2. <<t.id, d>> \in raced \/ t.object[d] = stored[t.id][d]
            BY <3>1, <3>2, <5>1 DEF SaveStands
          <5> QED
            BY <1>2, <5>1, <5>2
        <4>2. CASE t.id = i /\ d \in C
          BY <2>3, <3>2, <4>2
        <4>3. CASE t.id = i /\ d \notin C
          <5>1. <<i, d>> \in raced \/ (stored[i] # None /\ stored'[i][d] = stored[i][d])
            BY <3>2, <4>3
          <5>2. stored[i] # None => <<i, d>> \in raced \/ t.object[d] = stored[i][d]
            BY <3>1, <3>2, <4>3 DEF SaveStands
          <5> QED
            BY <1>2, <4>3, <5>1, <5>2
        <4> QED
          BY <4>1, <4>2, <4>3
      <3>3. ASSUME t.step = "saved", t.seen # None, NEW d \in ColumnsOf(t.id) \ t.set
            PROVE  <<t.id, d>> \in raced' \/ t.object[d] = t.seen[d]
        BY <1>2, <3>1, <3>3 DEF SaveStands
      <3> QED
        BY <3>1, <3>2, <3>3 DEF SaveStands, WholeRow
    <2>5. ASSUME t.step = "removing"
          PROVE  RemovalStands(v, t)'
      <3>1. RemovalStands(v, t)
        BY <2>2, <2>5 DEF WriterStands
      <3>2. lock'[t.id] = v /\ t.id # i
        BY <3>1 DEF RemovalStands
      <3> QED
        BY <3>1, <3>2, Columns DEF RemovalStands
    <2> QED
      BY <2>2, <2>4, <2>5 DEF WriterStands
  <1> QED
    BY <1>1, <1>3, <1>4, <1>5 DEF SessionInv

\* A save of an object that differs in nothing from the second reading writes nothing.
LEMMA IdleSaveStep ==
  ASSUME SessionInv, NEW w \in Writers, CommitsSave(w), Dirty(w) = {}
  PROVE  SessionInv'
  <1>1. PICK o : o = writer[w]
    OBVIOUS
  <1>2. o.step = "saved" /\ o.id \in RowIds
    BY <1>1 DEF SessionInv, CommitsSave, WriterStands, SaveStands
  <1>3. RowStands(o.id) /\ RowsTyped
    BY <1>2 DEF SessionInv
  <1>4. intended' = intended
    <2>1. CASE stored[o.id] = None
      BY <1>1, <2>1 DEF CommitsSave
    <2>2. CASE stored[o.id] # None
      <3>1. intended' = [intended EXCEPT ![o.id] = [c \in ColumnsOf(o.id) |-> intended[o.id][c]]]
        BY <1>1, <2>2 DEF CommitsSave
      <3> QED
        BY <1>2, <1>3, <2>2, <3>1 DEF RowStands, RowsTyped
    <2> QED
      BY <2>1, <2>2
  <1>5. raced' = raced
    <2>1. o.seen # None \/ ColumnsOf(o.id) = {}
      BY <1>1 DEF Dirty
    <2>2. ColumnsOf(o.id) # {}
      BY DEF ColumnsOf, SessionColumns
    <2> QED
      BY <1>1, <2>1, <2>2 DEF CommitsSave, Races
  <1>6. WriterStands(w, Resting)'
    <2>1. Light(Resting)
      BY DEF Light
    <2> QED
      BY <2>1, LightFields DEF WriterStands
  <1> QED
    BY <1>4, <1>5, <1>6, WriterGoesOn DEF CommitsSave, Rests, SessionInv, RowsTyped

\* An insert, of a new row or of one that has been deleted meanwhile, writes every column.
LEMMA SaveInserts ==
  ASSUME SessionInv, NEW w \in Writers, CommitsSave(w), Dirty(w) # {}, writer[w].seen = None
  PROVE  SessionInv'
  <1>1. PICK o : o = writer[w]
    OBVIOUS
  <1>2. PICK i : i = o.id
    OBVIOUS
  <1>3. /\ o.step = "saved" /\ SaveStands(o) /\ i \in RowIds /\ WholeRow(i, o.object)
        /\ RowsTyped /\ o.seen = None
    BY <1>1, <1>2 DEF SessionInv, CommitsSave, WriterStands, SaveStands
  <1>4. Dirty(w) = ColumnsOf(i) /\ stored[i] = None
    BY <1>1, <1>2, <1>3 DEF Dirty, CommitsSave
  <1>5. PICK m : m = [c \in ColumnsOf(i) |-> IF c \in Dirty(w) THEN o.object[c] ELSE stored[i][c]]
    OBVIOUS
  <1>6. /\ stored' = [stored EXCEPT ![i] = o.object]
        /\ intended' = [intended EXCEPT ![i] = o.object]
        /\ Races(w, i, ColumnsOf(i))
        /\ lock' = lock /\ (i \in Sessions => lock[i] = None)
        /\ writer' = [writer EXCEPT ![w] = Resting]
    <2>1. m = o.object
      BY <1>3, <1>4, <1>5 DEF WholeRow
    <2>2. stored' = [stored EXCEPT ![i] = m] /\ intended' = [intended EXCEPT ![i] = m]
      BY <1>1, <1>2, <1>4, <1>5 DEF CommitsSave
    <2>3. Races(w, i, ColumnsOf(i))
      BY <1>1, <1>2, <1>3, <1>4 DEF CommitsSave
    <2>4. /\ lock' = lock /\ (i \in Sessions => lock[i] = None)
          /\ writer' = [writer EXCEPT ![w] = Resting]
      BY <1>1, <1>2 DEF CommitsSave, Rests
    <2> QED
      BY <2>1, <2>2, <2>3, <2>4
  <1>7. stored'[i] = o.object /\ intended'[i] = o.object
    BY <1>3, <1>6 DEF RowsTyped
  <1>8. RowStands(i)'
    BY <1>3, <1>7 DEF RowStands, WholeRow
  <1>9. /\ stored' = [j \in RowIds |-> stored'[j]] /\ intended' = [j \in RowIds |-> intended'[j]]
        /\ \A j \in RowIds \ {i} : stored'[j] = stored[j] /\ intended'[j] = intended[j]
        /\ lock' \in [Sessions -> Writers \cup {None}]
    BY <1>3, <1>6 DEF RowsTyped
  <1>10. \A s \in Sessions : lock[s] \in Writers \ {w} => lock'[s] = lock[s] /\ i # s
    BY <1>6, SessionAssumption DEF SessionAssumption
  <1>11. /\ i \in RowIds /\ Races(w, i, ColumnsOf(i)) /\ writer' = [writer EXCEPT ![w] = Resting]
         /\ \A d \in ColumnsOf(i) \ ColumnsOf(i) : <<i, d>> \in raced
               \/ (stored[i] # None /\ stored'[i][d] = stored[i][d])
    BY <1>3, <1>6
  <1> QED
    BY <1>8, <1>9, <1>10, <1>11, OthersSpared

\* An update writes its own columns, and others only where somebody raced for them.
LEMMA SaveStep ==
  ASSUME SessionInv, NEW w \in Writers, CommitsSave(w), Dirty(w) # {}, writer[w].seen # None
  PROVE  SessionInv'
  <1>1. PICK o : o = writer[w]
    OBVIOUS
  <1>2. PICK i : i = o.id
    OBVIOUS
  <1>3. PICK D : D = Dirty(w)
    OBVIOUS
  <1>4. /\ o.step = "saved" /\ SaveStands(o) /\ i \in RowIds /\ WholeRow(i, o.object)
        /\ RowsTyped /\ o.seen # None
    BY <1>1, <1>2 DEF SessionInv, CommitsSave, WriterStands, SaveStands
  <1>5. D = {c \in ColumnsOf(i) : o.object[c] # o.seen[c]} /\ stored[i] # None /\ RowStands(i)
    BY <1>1, <1>2, <1>3, <1>4 DEF Dirty, CommitsSave, SessionInv
  <1>6. /\ stored' = [stored EXCEPT ![i] =
             [c \in ColumnsOf(i) |-> IF c \in D THEN o.object[c] ELSE stored[i][c]]]
        /\ intended' = [intended EXCEPT ![i] =
             [c \in ColumnsOf(i) |-> IF c \in o.set \cap D THEN o.object[c] ELSE intended[i][c]]]
        /\ Races(w, i, o.set \cap D)
        /\ lock' = lock /\ (i \in Sessions => lock[i] = None)
        /\ writer' = [writer EXCEPT ![w] = Resting]
    BY <1>1, <1>2, <1>3, <1>4, <1>5 DEF CommitsSave, Rests
  <1>7. /\ stored'[i] = [c \in ColumnsOf(i) |-> IF c \in D THEN o.object[c] ELSE stored[i][c]]
        /\ intended'[i] =
             [c \in ColumnsOf(i) |-> IF c \in o.set \cap D THEN o.object[c] ELSE intended[i][c]]
    BY <1>4, <1>6 DEF RowsTyped
  <1>8. \A d \in D \ o.set : <<i, d>> \in raced
    BY <1>2, <1>4, <1>5 DEF SaveStands
  <1>9. raced \subseteq raced'
    BY <1>6 DEF Races
  <1>10. RowStands(i)'
    <2>1. WholeRow(i, stored'[i])
      <3>1. i \in Sessions => "events" \in ColumnsOf(i) /\ "unread" \in ColumnsOf(i)
        BY DEF ColumnsOf, SessionColumns
      <3>2. WholeRow(i, stored[i])
        BY <1>5 DEF RowStands
      <3> QED
        BY <1>4, <1>7, <3>1, <3>2 DEF WholeRow
    <2>2. intended'[i] = [c \in ColumnsOf(i) |-> intended'[i][c]]
      BY <1>7
    <2>3. ASSUME NEW c \in ColumnsOf(i), <<i, c>> \notin raced'
          PROVE  stored'[i][c] = intended'[i][c]
      <3>1. stored[i][c] = intended[i][c]
        BY <1>5, <1>9, <2>3 DEF RowStands
      <3>2. c \in D => c \in o.set
        BY <1>8, <1>9, <2>3
      <3> QED
        BY <1>7, <3>1, <3>2
    <2> QED
      BY <2>1, <2>2, <2>3 DEF RowStands, WholeRow
  <1>11. /\ stored' = [j \in RowIds |-> stored'[j]] /\ intended' = [j \in RowIds |-> intended'[j]]
         /\ \A j \in RowIds \ {i} : stored'[j] = stored[j] /\ intended'[j] = intended[j]
         /\ lock' \in [Sessions -> Writers \cup {None}]
    BY <1>4, <1>6 DEF RowsTyped
  <1>12. \A s \in Sessions : lock[s] \in Writers \ {w} => lock'[s] = lock[s] /\ i # s
    BY <1>6, SessionAssumption DEF SessionAssumption
  <1>13. \A d \in ColumnsOf(i) \ (o.set \cap D) : <<i, d>> \in raced
            \/ (stored[i] # None /\ stored'[i][d] = stored[i][d])
    BY <1>5, <1>7, <1>8
  <1> QED
    BY <1>4, <1>6, <1>10, <1>11, <1>12, <1>13, OthersSpared

\* Files are removed from the column as it is: its row has been locked since it was read.
LEMMA RemovalStep ==
  ASSUME SessionInv, NEW w \in Writers, CommitsRemoval(w)
  PROVE  SessionInv'
  <1>1. PICK t : t = writer[w]
    OBVIOUS
  <1>2. PICK s : s = t.id
    OBVIOUS
  <1>3. /\ t.step = "removing" /\ RemovalStands(w, t) /\ RowsTyped
        /\ s \in Sessions /\ s \in RowIds /\ ColumnsOf(s) = SessionColumns
        /\ stored[s] # None /\ lock[s] = w /\ RowStands(s)
        /\ t.object = stored[s]["files"] \ t.set
    BY <1>1, <1>2, Columns DEF SessionInv, CommitsRemoval, WriterStands, RemovalStands
  <1>4. /\ stored' = [stored EXCEPT ![s]["files"] = t.object]
        /\ intended' = [intended EXCEPT ![s]["files"] = @ \ t.set]
        /\ lock' = [lock EXCEPT ![s] = None]
        /\ writer' = [writer EXCEPT ![w] = Resting]
        /\ t.object = stored[s]["files"] \/ Races(w, s, {"files"})
        /\ t.object # stored[s]["files"] \/ raced' = raced
    BY <1>1, <1>2, <1>3 DEF CommitsRemoval, Rests, RemovalStands
  <1>5. /\ stored'[s] = [stored[s] EXCEPT !["files"] = t.object]
        /\ intended'[s] = [intended[s] EXCEPT !["files"] = intended[s]["files"] \ t.set]
    BY <1>3, <1>4 DEF RowsTyped
  <1>6. raced \subseteq raced'
    BY <1>4 DEF Races
  <1>7. "files" \in SessionColumns /\ "events" \in SessionColumns /\ "unread" \in SessionColumns
    BY DEF SessionColumns
  <1>8. \A d \in SessionColumns \ {"files"} :
          stored'[s][d] = stored[s][d] /\ intended'[s][d] = intended[s][d]
    BY <1>3, <1>5 DEF RowStands, WholeRow
  <1>9. /\ stored'[s]["files"] = stored[s]["files"] \ t.set
        /\ intended'[s]["files"] = intended[s]["files"] \ t.set
    BY <1>3, <1>5, <1>7 DEF RowStands, WholeRow
  <1>10. RowStands(s)'
    <2>1. WholeRow(s, stored'[s])
      BY <1>3, <1>5, <1>7, <1>8 DEF RowStands, WholeRow
    <2>2. intended'[s] = [c \in ColumnsOf(s) |-> intended'[s][c]]
      BY <1>3, <1>5 DEF RowStands
    <2>3. ASSUME NEW c \in ColumnsOf(s), <<s, c>> \notin raced'
          PROVE  stored'[s][c] = intended'[s][c]
      <3>1. stored[s][c] = intended[s][c]
        BY <1>3, <1>6, <2>3 DEF RowStands
      <3>2. CASE c = "files"
        BY <1>9, <3>1, <3>2
      <3>3. CASE c # "files"
        BY <1>3, <1>8, <3>1, <3>3
      <3> QED
        BY <3>2, <3>3
    <2> QED
      BY <2>1, <2>2, <2>3 DEF RowStands, WholeRow
  <1>11. PICK C : /\ C \subseteq {"files"} /\ Races(w, s, C)
                  /\ \A d \in SessionColumns \ C : stored'[s][d] = stored[s][d]
    <2>1. CASE t.object = stored[s]["files"]
      <3>1. Races(w, s, {})
        BY <1>4, <2>1 DEF Races
      <3>2. \A d \in SessionColumns : stored'[s][d] = stored[s][d]
        BY <1>3, <1>8, <1>9, <2>1
      <3> QED
        BY <3>1, <3>2
    <2>2. CASE t.object # stored[s]["files"]
      BY <1>4, <1>8, <2>2
    <2> QED
      BY <2>1, <2>2
  <1>12. /\ stored' = [j \in RowIds |-> stored'[j]] /\ intended' = [j \in RowIds |-> intended'[j]]
         /\ \A j \in RowIds \ {s} : stored'[j] = stored[j] /\ intended'[j] = intended[j]
         /\ lock' \in [Sessions -> Writers \cup {None}]
    BY <1>3, <1>4 DEF RowsTyped
  <1>13. \A q \in Sessions : lock[q] \in Writers \ {w} => lock'[q] = lock[q] /\ s # q
    BY <1>3, <1>4 DEF RowsTyped
  <1>14. \A d \in ColumnsOf(s) \ C : <<s, d>> \in raced
            \/ (stored[s] # None /\ stored'[s][d] = stored[s][d])
    BY <1>3, <1>11
  <1>15. s \in RowIds /\ writer' = [writer EXCEPT ![w] = Resting]
    BY <1>3, <1>4
  <1> QED
    BY <1>10, <1>11, <1>12, <1>13, <1>14, <1>15, OthersSpared

-----------------------------------------------------------------------------
(* Deletions, statements, and the theorem.                                 *)

\* Only rows that nobody has locked are deleted.
LEMMA GoneStep ==
  ASSUME SessionInv, NEW ids \in SUBSET RowIds, Gone(ids),
         \A s \in Sessions \cap ids : lock[s] = None
  PROVE  SessionInv'
  <1>1. RowsTyped'
    BY DEF SessionInv, RowsTyped, Gone
  <1>2. ASSUME NEW i \in RowIds
        PROVE  RowStands(i)'
    <2>1. RowStands(i) /\ raced' = raced
      BY DEF SessionInv, Gone
    <2>2. stored'[i] # None => stored'[i] = stored[i] /\ intended'[i] = intended[i]
      BY DEF Gone
    <2> QED
      BY <2>1, <2>2 DEF RowStands, WholeRow
  <1>3. ASSUME NEW v \in Writers
        PROVE  WriterStands(v, writer[v])'
    <2>1. PICK t : t = writer[v]
      OBVIOUS
    <2>2. WriterStands(v, t) /\ writer'[v] = t /\ raced' = raced /\ lock' = lock
      BY <2>1 DEF SessionInv, Gone
    <2>3. \A i \in RowIds : stored'[i] # None => stored'[i] = stored[i]
      BY DEF Gone
    <2>4. t.step \in {"loaded", "saved"} => SaveStands(t)'
      BY <2>2, <2>3 DEF WriterStands, SaveStands, WholeRow
    <2>5. ASSUME t.step = "removing"
          PROVE  RemovalStands(v, t)'
      <3>1. RemovalStands(v, t)
        BY <2>2, <2>5 DEF WriterStands
      <3>2. t.id \notin ids
        BY <3>1, SessionAssumption DEF RemovalStands, SessionAssumption
      <3>3. stored'[t.id] = stored[t.id]
        BY <3>1, <3>2, Columns DEF RemovalStands, Gone
      <3> QED
        BY <2>2, <3>1, <3>3 DEF RemovalStands
    <2> QED
      BY <2>2, <2>4, <2>5 DEF WriterStands
  <1> QED
    BY <1>1, <1>2, <1>3 DEF SessionInv

\* Deleting a session or a project, while saves of it may be under way.
LEMMA DeletionStep ==
  ASSUME SessionInv,
         \/ \E s \in Sessions : DeletesSession(s)
         \/ \E p \in Projects : DeletesProject(p)
  PROVE  SessionInv'
  <1>1. ASSUME NEW s \in Sessions, DeletesSession(s)
        PROVE  SessionInv'
    BY <1>1, Columns, GoneStep DEF DeletesSession
  <1>2. ASSUME NEW p \in Projects, DeletesProject(p)
        PROVE  SessionInv'
    <2>1. PICK filed \in SUBSET Sessions :
            (\A s \in filed : lock[s] = None) /\ Gone(filed \cup {p})
      BY <1>2 DEF DeletesProject
    <2>2. filed \cup {p} \subseteq RowIds /\ Sessions \cap (filed \cup {p}) = filed
      BY Columns
    <2> QED
      BY <2>1, <2>2, GoneStep
  <1> QED
    BY <1>1, <1>2

\* A single statement means in the row what it does to it.
LEMMA StatementStep ==
  ASSUME SessionInv, NEW s \in Sessions,
         \/ UpdateTitle(s) \/ AddEvent(s) \/ AddFile(s) \/ UpdateStatus(s)
         \/ ClearUnread(s) \/ IncrementUnread(s) \/ SaveMemory(s)
  PROVE  SessionInv'
  <1>1. stored[s] # None => stored[s]["events"] \in Seq(Events) /\ stored[s]["unread"] \in Nat
    BY Columns DEF SessionInv, RowStands, WholeRow
  <1>2. ASSUME NEW c \in SessionColumns, NEW value, Statement(s, c, value), Fitting(s, c, value)
        PROVE  SessionInv'
    BY <1>2, UpdateStep DEF Statement
  <1>3. /\ "title" \in SessionColumns /\ "events" \in SessionColumns /\ "files" \in SessionColumns
        /\ "status" \in SessionColumns /\ "unread" \in SessionColumns /\ "memories" \in SessionColumns
    BY DEF SessionColumns
  <1>4. ASSUME UpdateTitle(s) PROVE SessionInv'
    BY <1>2, <1>3, <1>4 DEF UpdateTitle, Fitting
  <1>5. ASSUME AddEvent(s) PROVE SessionInv'
    <2>1. <<"step">> \in Seq(Events) /\ <<"step">> # << >>
      BY DEF Events
    <2>2. Append(stored[s]["events"], "step") = stored[s]["events"] \o <<"step">>
      BY <1>1, <1>5 DEF AddEvent, Events
    <2>3. Fitting(s, "events", Append(stored[s]["events"], "step"))
      BY <2>1, <2>2 DEF Fitting
    <2> QED
      BY <1>2, <1>3, <1>5, <2>3 DEF AddEvent
  <1>6. ASSUME AddFile(s) PROVE SessionInv'
    BY <1>2, <1>3, <1>6 DEF AddFile, Fitting
  <1>7. ASSUME UpdateStatus(s) PROVE SessionInv'
    BY <1>2, <1>3, <1>7 DEF UpdateStatus, Fitting
  <1>8. ASSUME ClearUnread(s) PROVE SessionInv'
    BY <1>2, <1>3, <1>8 DEF ClearUnread, Fitting
  <1>9. ASSUME IncrementUnread(s) PROVE SessionInv'
    BY <1>1, <1>2, <1>3, <1>9 DEF IncrementUnread, Fitting
  <1>10. ASSUME SaveMemory(s) PROVE SessionInv'
    BY <1>2, <1>3, <1>10 DEF SaveMemory, Fitting
  <1> QED
    BY <1>4, <1>5, <1>6, <1>7, <1>8, <1>9, <1>10

\* The user's event is added to the list, later those of the answer or an error.
LEMMA ChatStep ==
  ASSUME SessionInv, NEW w \in Writers,
         (\E s \in Sessions : Asks(w, s)) \/ Answers(w) \/ AnswerFails(w)
  PROVE  SessionInv'
  <1>1. "events" \in SessionColumns
    BY DEF SessionColumns
  <1>2. ASSUME NEW s \in Sessions, Asks(w, s)
        PROVE  SessionInv'
    <2>1. stored[s]["events"] \in Seq(Events)
      BY <1>2, Columns DEF SessionInv, RowStands, WholeRow, Asks
    <2>2. /\ <<"user">> \in Seq(Events) /\ <<"user">> # << >>
          /\ Append(stored[s]["events"], "user") = stored[s]["events"] \o <<"user">>
      BY <2>1 DEF Events
    <2>3. Fitting(s, "events", Append(stored[s]["events"], "user"))
      BY <2>2 DEF Fitting
    <2>4. PICK t : t = [Resting EXCEPT !.step = "answering", !.id = s]
      OBVIOUS
    <2>5. Light(t) /\ writer' = [writer EXCEPT ![w] = t]
      BY <1>2, <2>4 DEF Light, Asks, Begins
    <2> QED
      BY <1>1, <1>2, <2>3, <2>5, UpdateStep DEF Asks
  <1>3. ASSUME NEW events \in Seq(Events) \ {<< >>}, AnswersWith(w, events)
        PROVE  SessionInv'
    <2>1. PICK s : s = writer[w].id
      OBVIOUS
    <2>2. s \in Sessions
      BY <1>3, <2>1 DEF SessionInv, WriterStands, AnswersWith
    <2>3. Fitting(s, "events", stored[s]["events"] \o events)
      BY DEF Fitting
    <2>4. Light(Resting)
      BY DEF Light
    <2>5. Updates(s, "events", stored[s]["events"] \o events) /\ writer' = [writer EXCEPT ![w] = Resting]
      BY <1>3, <2>1 DEF AnswersWith, Rests
    <2> QED
      BY <1>1, <2>2, <2>3, <2>4, <2>5, UpdateStep
  <1>4. /\ <<"assistant", "done">> \in Seq(Events) \ {<< >>}
        /\ <<"error">> \in Seq(Events) \ {<< >>}
    BY DEF Events
  <1> QED
    BY <1>2, <1>3, <1>4 DEF Answers, AnswerFails

\* Every step of every writer keeps the invariant.
LEMMA SessionNextStep ==
  ASSUME SessionInv, [SessionsNext]_sessionVars
  PROVE  SessionInv'
  <1>1. CASE UNCHANGED sessionVars
    BY <1>1 DEF sessionVars, SessionInv, RowsTyped, RowStands, WriterStands, SaveStands,
                RemovalStands, WholeRow
  <1>2. ASSUME NEW w \in Writers, SetsTitle(w) \/ SetsProject(w) \/ SetsName(w) \/ SetsTask(w)
        PROVE  SessionInv'
    BY <1>2, SettingStep DEF SetsTitle, SetsProject, SetsName, SetsTask
  <1>3. ASSUME NEW w \in Writers, CommitsSave(w)
        PROVE  SessionInv'
    BY <1>3, IdleSaveStep, SaveInserts, SaveStep
  <1> QED
    BY <1>1, <1>2, <1>3, CreationStep, LockingStep, SecondLookStep, RollBackStep, RemovalStep,
       ChatStep, StatementStep, DeletionStep DEF SessionsNext

\* No rows, no writers.
LEMMA SessionStart ==
  ASSUME SessionsInit
  PROVE  SessionInv
  <1>1. Light(Resting)
    BY DEF Light
  <1>2. PICK r : r = Resting
    OBVIOUS
  <1>3. Light(r) /\ r.step = "idle"
    BY <1>1, <1>2 DEF Resting
  <1>4. \A w \in Writers : WriterStands(w, writer[w])
    BY <1>2, <1>3, LightFields DEF SessionsInit, WriterStands
  <1>5. RowsTyped /\ \A i \in RowIds : RowStands(i)
    BY DEF SessionsInit, RowsTyped, RowStands
  <1> QED
    BY <1>4, <1>5 DEF SessionInv

\* In every behaviour of the store a column holds what its updates meant, unless
\* one of them fell between the two readings of a save.
THEOREM SessionColumnsStand == SessionsSpec => []UnracedColumnsStand
  <1>1. SessionsInit => SessionInv
    BY SessionStart
  <1>2. SessionInv /\ [SessionsNext]_sessionVars => SessionInv'
    BY SessionNextStep
  <1>3. SessionInv => UnracedColumnsStand
    BY DEF SessionInv, RowStands, UnracedColumnsStand
  <1> QED
    BY <1>1, <1>2, <1>3, PTL DEF SessionsSpec

-----------------------------------------------------------------------------
(* The configuration.                                                      *)

\* Two configurations say the same of a part, however often its secrets are sealed.
Alike(c, d, p) == Unsealed(c)[p] = Unsealed(d)[p]

\* A request that saw the row holds what the row says of every part but its own,
\* and of those that were updated while it was open.
RequestStands(r, t) ==
  /\ t = [step |-> t.step, part |-> t.part, config |-> t.config, seen |-> t.seen]
  /\ t.step \in {"idle", "loaded", "saved", "checked", "looked"}
  /\ t.step \in {"idle", "checked", "looked"} => t.seen = NoRow
  /\ t.step # "idle" => IsAppConfig(t.config)
  /\ t.step = "loaded" => t.part = "none"
  /\ t.seen # NoRow =>
       /\ row # NoRow
       /\ t.step = "saved" => t.part \in Parts \cup {"all"}
       /\ \A p \in Parts \ contested : p \notin Meant(t) => Alike(t.config, row, p)
       /\ r \notin overtaken => t.seen = row

ConfigInv ==
  /\ request = [r \in Requests |-> request[r]]
  /\ row # NoRow =>
       /\ IsAppConfig(row) /\ IsAppConfig(wanted)
       /\ \A p \in Parts \ contested : Alike(row, wanted, p)
  /\ \A r \in Requests : RequestStands(r, request[r])

-----------------------------------------------------------------------------
(* Sealing.                                                                *)

\* Sealing and opening keep the text, and with a key opening ends with an open one.
LEMMA SealingKeepsText ==
  ASSUME NEW s \in SecretValues
  PROVE  /\ EncryptText(s) \in SecretValues /\ DecryptText(s) \in SecretValues
         /\ EncryptText(s).text = s.text /\ DecryptText(s).text = s.text
         /\ keyed => DecryptText(s).seals = 0
  BY DEF SecretValues, EncryptText, DecryptText, Sealed

\* The columns of a configuration on the way to the row, from it, and as typed.
LEMMA SealedColumns ==
  ASSUME NEW c, IsAppConfig(c)
  PROVE  /\ EncryptAppConfig(c) = [p \in Parts |-> EncryptAppConfig(c)[p]]
         /\ \A p \in KeyedParts : EncryptAppConfig(c)[p] = [model |-> c[p].model, key |-> EncryptText(c[p].key)]
         /\ EncryptAppConfig(c)["mcp_config"] = [s \in Servers |-> EncryptAppConfig(c)["mcp_config"][s]]
         /\ \A s \in Servers : EncryptAppConfig(c)["mcp_config"][s] =
               [on |-> c["mcp_config"][s].on, env |-> EncryptText(c["mcp_config"][s].env),
                there |-> c["mcp_config"][s].there]
         /\ \A p \in Parts \ KeyedParts : p # "mcp_config" => EncryptAppConfig(c)[p] = c[p]
  <1>1. /\ \A p \in KeyedParts : c[p] \in KeyedColumns
        /\ \A s \in Servers : c["mcp_config"][s] \in [on : BOOLEAN, env : SecretValues, there : BOOLEAN]
    BY DEF IsAppConfig, McpColumns
  <1>2. EncryptAppConfig(c) = [p \in Parts |->
            CASE p \in KeyedParts -> [model |-> c[p].model, key |-> EncryptText(c[p].key)]
              [] p = "mcp_config" -> [s \in Servers |->
                    [on |-> c[p][s].on, env |-> EncryptText(c[p][s].env), there |-> c[p][s].there]]
              [] OTHER -> c[p]]
    BY <1>1 DEF EncryptAppConfig, Mapped, KeyedColumns
  <1>3. KeyedParts \subseteq Parts /\ "mcp_config" \in Parts \ KeyedParts
    BY DEF Parts, KeyedParts
  <1> QED
    BY <1>2, <1>3

\* The columns of a configuration as it is opened when it is read.
LEMMA OpenedColumns ==
  ASSUME NEW c, IsAppConfig(c)
  PROVE  /\ DecryptAppConfig(c) = [p \in Parts |-> DecryptAppConfig(c)[p]]
         /\ \A p \in KeyedParts : DecryptAppConfig(c)[p] = [model |-> c[p].model, key |-> DecryptText(c[p].key)]
         /\ DecryptAppConfig(c)["mcp_config"] = [s \in Servers |-> DecryptAppConfig(c)["mcp_config"][s]]
         /\ \A s \in Servers : DecryptAppConfig(c)["mcp_config"][s] =
               [on |-> c["mcp_config"][s].on, env |-> DecryptText(c["mcp_config"][s].env),
                there |-> c["mcp_config"][s].there]
         /\ \A p \in Parts \ KeyedParts : p # "mcp_config" => DecryptAppConfig(c)[p] = c[p]
  <1>1. /\ \A p \in KeyedParts : c[p] \in KeyedColumns
        /\ \A s \in Servers : c["mcp_config"][s] \in [on : BOOLEAN, env : SecretValues, there : BOOLEAN]
    BY DEF IsAppConfig, McpColumns
  <1>2. DecryptAppConfig(c) = [p \in Parts |->
            CASE p \in KeyedParts -> [model |-> c[p].model, key |-> DecryptText(c[p].key)]
              [] p = "mcp_config" -> [s \in Servers |->
                    [on |-> c[p][s].on, env |-> DecryptText(c[p][s].env), there |-> c[p][s].there]]
              [] OTHER -> c[p]]
    BY <1>1 DEF DecryptAppConfig, Mapped, KeyedColumns
  <1>3. KeyedParts \subseteq Parts /\ "mcp_config" \in Parts \ KeyedParts
    BY DEF Parts, KeyedParts
  <1> QED
    BY <1>2, <1>3

\* The columns of a configuration as they were typed.
LEMMA TypedColumns ==
  ASSUME NEW c, IsAppConfig(c)
  PROVE  /\ Unsealed(c) = [p \in Parts |-> Unsealed(c)[p]]
         /\ \A p \in KeyedParts : Unsealed(c)[p] = [model |-> c[p].model, key |-> Plain(c[p].key.text)]
         /\ Unsealed(c)["mcp_config"] = [s \in Servers |-> Unsealed(c)["mcp_config"][s]]
         /\ \A s \in Servers : Unsealed(c)["mcp_config"][s] =
               [on |-> c["mcp_config"][s].on, env |-> Plain(c["mcp_config"][s].env.text),
                there |-> c["mcp_config"][s].there]
         /\ \A p \in Parts \ KeyedParts : p # "mcp_config" => Unsealed(c)[p] = c[p]
  <1>1. /\ \A p \in KeyedParts : c[p] \in KeyedColumns
        /\ \A s \in Servers : c["mcp_config"][s] \in [on : BOOLEAN, env : SecretValues, there : BOOLEAN]
    BY DEF IsAppConfig, McpColumns
  <1>2. Unsealed(c) = [p \in Parts |->
            CASE p \in KeyedParts -> [model |-> c[p].model, key |-> Plain(c[p].key.text)]
              [] p = "mcp_config" -> [s \in Servers |->
                    [on |-> c[p][s].on, env |-> Plain(c[p][s].env.text), there |-> c[p][s].there]]
              [] OTHER -> c[p]]
    BY <1>1 DEF Unsealed, AsTyped, Mapped, KeyedColumns
  <1>3. KeyedParts \subseteq Parts /\ "mcp_config" \in Parts \ KeyedParts
    BY DEF Parts, KeyedParts
  <1> QED
    BY <1>2, <1>3

\* Configurations that say the same in every column say the same.
LEMMA SameColumns ==
  ASSUME NEW c, NEW d, IsAppConfig(c), IsAppConfig(d),
         \A p \in KeyedParts : c[p].model = d[p].model /\ c[p].key.text = d[p].key.text,
         \A s \in Servers : /\ c["mcp_config"][s].on = d["mcp_config"][s].on
                            /\ c["mcp_config"][s].there = d["mcp_config"][s].there
                            /\ c["mcp_config"][s].env.text = d["mcp_config"][s].env.text,
         \A p \in Parts \ KeyedParts : p # "mcp_config" => c[p] = d[p]
  PROVE  Unsealed(c) = Unsealed(d)
  <1>0. /\ Unsealed(c) = [p \in Parts |-> Unsealed(c)[p]] /\ Unsealed(d) = [p \in Parts |-> Unsealed(d)[p]]
        /\ Unsealed(c)["mcp_config"] = [s \in Servers |-> Unsealed(c)["mcp_config"][s]]
        /\ Unsealed(d)["mcp_config"] = [s \in Servers |-> Unsealed(d)["mcp_config"][s]]
    BY TypedColumns
  <1>1. ASSUME NEW p \in KeyedParts
        PROVE  Unsealed(c)[p] = Unsealed(d)[p]
    <2>1. Unsealed(c)[p] = [model |-> c[p].model, key |-> Plain(c[p].key.text)]
      BY TypedColumns
    <2>2. Unsealed(d)[p] = [model |-> d[p].model, key |-> Plain(d[p].key.text)]
      BY TypedColumns
    <2> QED
      BY <2>1, <2>2
  <1>2. Unsealed(c)["mcp_config"] = Unsealed(d)["mcp_config"]
    <2>1. ASSUME NEW s \in Servers
          PROVE  Unsealed(c)["mcp_config"][s] = Unsealed(d)["mcp_config"][s]
      <3>1. Unsealed(c)["mcp_config"][s] = [on |-> c["mcp_config"][s].on,
              env |-> Plain(c["mcp_config"][s].env.text), there |-> c["mcp_config"][s].there]
        BY TypedColumns
      <3>2. Unsealed(d)["mcp_config"][s] = [on |-> d["mcp_config"][s].on,
              env |-> Plain(d["mcp_config"][s].env.text), there |-> d["mcp_config"][s].there]
        BY TypedColumns
      <3> QED
        BY <3>1, <3>2
    <2> QED
      BY <1>0, <2>1
  <1>3. \A p \in Parts \ KeyedParts : p # "mcp_config" => Unsealed(c)[p] = Unsealed(d)[p]
    BY TypedColumns
  <1>4. \A p \in Parts : Unsealed(c)[p] = Unsealed(d)[p]
    BY <1>1, <1>2, <1>3
  <1> QED
    BY <1>0, <1>4

\* The columns' types.
LEMMA ConfigColumns ==
  ASSUME NEW c, IsAppConfig(c)
  PROVE  /\ \A p \in KeyedParts : p \in Parts /\ c[p] \in KeyedColumns /\ c[p].key \in SecretValues
         /\ \A s \in Servers : /\ c["mcp_config"][s] \in [on : BOOLEAN, env : SecretValues, there : BOOLEAN]
                               /\ c["mcp_config"][s].env \in SecretValues
         /\ "mcp_config" \notin KeyedParts /\ "mcp_config" \in Parts
         /\ "agent_config" \in Parts \ KeyedParts /\ "a2a_config" \in Parts \ KeyedParts
  BY DEF IsAppConfig, KeyedColumns, McpColumns, KeyedParts, Parts

\* Sealing makes a configuration, and changes nothing of what was typed.
LEMMA SealedAlike ==
  ASSUME NEW c, IsAppConfig(c)
  PROVE  IsAppConfig(EncryptAppConfig(c)) /\ Unsealed(EncryptAppConfig(c)) = Unsealed(c)
  <1>1. PICK e : e = EncryptAppConfig(c)
    OBVIOUS
  <1>2. ASSUME NEW p \in KeyedParts
        PROVE  e[p] \in KeyedColumns /\ e[p].model = c[p].model /\ e[p].key.text = c[p].key.text
    <2>1. e[p] = [model |-> c[p].model, key |-> EncryptText(c[p].key)]
      BY <1>1, SealedColumns
    <2>2. c[p].model \in ModelChoices /\ c[p].key \in SecretValues
      BY ConfigColumns DEF KeyedColumns
    <2> QED
      BY <2>1, <2>2, SealingKeepsText DEF KeyedColumns
  <1>3. ASSUME NEW s \in Servers
        PROVE  /\ e["mcp_config"][s] \in [on : BOOLEAN, env : SecretValues, there : BOOLEAN]
               /\ e["mcp_config"][s].on = c["mcp_config"][s].on
               /\ e["mcp_config"][s].there = c["mcp_config"][s].there
               /\ e["mcp_config"][s].env.text = c["mcp_config"][s].env.text
    <2>1. e["mcp_config"][s] = [on |-> c["mcp_config"][s].on,
             env |-> EncryptText(c["mcp_config"][s].env), there |-> c["mcp_config"][s].there]
      BY <1>1, SealedColumns
    <2>2. /\ c["mcp_config"][s].on \in BOOLEAN /\ c["mcp_config"][s].there \in BOOLEAN
          /\ c["mcp_config"][s].env \in SecretValues
      BY ConfigColumns
    <2> QED
      BY <2>1, <2>2, SealingKeepsText
  <1>4. /\ e = [p \in Parts |-> e[p]]
        /\ e["mcp_config"] = [s \in Servers |-> e["mcp_config"][s]]
        /\ \A p \in Parts \ KeyedParts : p # "mcp_config" => e[p] = c[p]
    BY <1>1, SealedColumns
  <1>5. IsAppConfig(e)
    BY <1>2, <1>3, <1>4, ConfigColumns DEF IsAppConfig, McpColumns
  <1>6. Unsealed(e) = Unsealed(c)
    BY <1>2, <1>3, <1>4, <1>5, SameColumns
  <1> QED
    BY <1>1, <1>5, <1>6

\* So does unsealing, that with the key leaves what was typed.
LEMMA OpenedAlike ==
  ASSUME NEW c, IsAppConfig(c)
  PROVE  /\ IsAppConfig(DecryptAppConfig(c)) /\ Unsealed(DecryptAppConfig(c)) = Unsealed(c)
         /\ keyed => DecryptAppConfig(c) = Unsealed(c)
  <1>1. PICK e : e = DecryptAppConfig(c)
    OBVIOUS
  <1>2. ASSUME NEW p \in KeyedParts
        PROVE  e[p] \in KeyedColumns /\ e[p].model = c[p].model /\ e[p].key.text = c[p].key.text
    <2>1. e[p] = [model |-> c[p].model, key |-> DecryptText(c[p].key)]
      BY <1>1, OpenedColumns
    <2>2. c[p].model \in ModelChoices /\ c[p].key \in SecretValues
      BY ConfigColumns DEF KeyedColumns
    <2> QED
      BY <2>1, <2>2, SealingKeepsText DEF KeyedColumns
  <1>3. ASSUME NEW s \in Servers
        PROVE  /\ e["mcp_config"][s] \in [on : BOOLEAN, env : SecretValues, there : BOOLEAN]
               /\ e["mcp_config"][s].on = c["mcp_config"][s].on
               /\ e["mcp_config"][s].there = c["mcp_config"][s].there
               /\ e["mcp_config"][s].env.text = c["mcp_config"][s].env.text
    <2>1. e["mcp_config"][s] = [on |-> c["mcp_config"][s].on,
             env |-> DecryptText(c["mcp_config"][s].env), there |-> c["mcp_config"][s].there]
      BY <1>1, OpenedColumns
    <2>2. /\ c["mcp_config"][s].on \in BOOLEAN /\ c["mcp_config"][s].there \in BOOLEAN
          /\ c["mcp_config"][s].env \in SecretValues
      BY ConfigColumns
    <2> QED
      BY <2>1, <2>2, SealingKeepsText
  <1>4. /\ e = [p \in Parts |-> e[p]]
        /\ e["mcp_config"] = [s \in Servers |-> e["mcp_config"][s]]
        /\ \A p \in Parts \ KeyedParts : p # "mcp_config" => e[p] = c[p]
    BY <1>1, OpenedColumns
  <1>5. IsAppConfig(e)
    BY <1>2, <1>3, <1>4, ConfigColumns DEF IsAppConfig, McpColumns
  <1>6. Unsealed(e) = Unsealed(c)
    BY <1>2, <1>3, <1>4, <1>5, SameColumns
  <1>7. ASSUME keyed
        PROVE  e = Unsealed(c)
    <2>1. \A x \in SecretValues : DecryptText(x) = Plain(x.text)
      BY <1>7 DEF SecretValues, DecryptText, Sealed, Plain
    <2>2. ASSUME NEW p \in KeyedParts
          PROVE  e[p] = Unsealed(c)[p]
      <3>1. e[p] = [model |-> c[p].model, key |-> DecryptText(c[p].key)]
        BY <1>1, OpenedColumns
      <3>2. Unsealed(c)[p] = [model |-> c[p].model, key |-> Plain(c[p].key.text)]
        BY TypedColumns
      <3> QED
        BY <2>1, <3>1, <3>2, ConfigColumns
    <2>3. e["mcp_config"] = Unsealed(c)["mcp_config"]
      <3>1. ASSUME NEW s \in Servers
            PROVE  e["mcp_config"][s] = Unsealed(c)["mcp_config"][s]
        <4>1. e["mcp_config"][s] = [on |-> c["mcp_config"][s].on,
                env |-> DecryptText(c["mcp_config"][s].env), there |-> c["mcp_config"][s].there]
          BY <1>1, OpenedColumns
        <4>2. Unsealed(c)["mcp_config"][s] = [on |-> c["mcp_config"][s].on,
                env |-> Plain(c["mcp_config"][s].env.text), there |-> c["mcp_config"][s].there]
          BY TypedColumns
        <4> QED
          BY <2>1, <4>1, <4>2, ConfigColumns
      <3>2. Unsealed(c)["mcp_config"] = [s \in Servers |-> Unsealed(c)["mcp_config"][s]]
        BY TypedColumns
      <3> QED
        BY <1>4, <3>1, <3>2
    <2>4. \A p \in Parts \ KeyedParts : p # "mcp_config" => e[p] = Unsealed(c)[p]
      BY <1>4, TypedColumns
    <2>5. \A p \in Parts : e[p] = Unsealed(c)[p]
      BY <2>2, <2>3, <2>4
    <2> QED
      BY <1>4, <2>5, TypedColumns
  <1> QED
    BY <1>1, <1>5, <1>6, <1>7

\* What is said of a part depends on that part alone.
LEMMA PartAlike ==
  ASSUME NEW c, NEW d, IsAppConfig(c), IsAppConfig(d), NEW p \in Parts, c[p] = d[p]
  PROVE  Alike(c, d, p)
  <1>1. CASE p \in KeyedParts
    <2>1. Unsealed(c)[p] = [model |-> c[p].model, key |-> Plain(c[p].key.text)]
      BY <1>1, TypedColumns
    <2>2. Unsealed(d)[p] = [model |-> d[p].model, key |-> Plain(d[p].key.text)]
      BY <1>1, TypedColumns
    <2> QED
      BY <2>1, <2>2 DEF Alike
  <1>2. CASE p = "mcp_config"
    <2>1. \A s \in Servers : Unsealed(c)[p][s] = [on |-> c[p][s].on,
            env |-> Plain(c[p][s].env.text), there |-> c[p][s].there]
      BY <1>2, TypedColumns
    <2>2. \A s \in Servers : Unsealed(d)[p][s] = [on |-> d[p][s].on,
            env |-> Plain(d[p][s].env.text), there |-> d[p][s].there]
      BY <1>2, TypedColumns
    <2>3. /\ Unsealed(c)[p] = [s \in Servers |-> Unsealed(c)[p][s]]
          /\ Unsealed(d)[p] = [s \in Servers |-> Unsealed(d)[p][s]]
      BY <1>2, TypedColumns
    <2>4. \A s \in Servers : Unsealed(c)[p][s] = Unsealed(d)[p][s]
      <3>1. \A s \in Servers : c[p][s].on = d[p][s].on /\ c[p][s].there = d[p][s].there
                              /\ c[p][s].env.text = d[p][s].env.text
        OBVIOUS
      <3> QED
        BY <2>1, <2>2, <3>1
    <2> QED
      BY <2>3, <2>4 DEF Alike
  <1>3. CASE p \notin KeyedParts /\ p # "mcp_config"
    BY <1>3, TypedColumns DEF Alike
  <1> QED
    BY <1>1, <1>2, <1>3

\* A row is told from no row.
LEMMA RowIsThere ==
  ASSUME NEW c, IsAppConfig(c)
  PROVE  c # NoRow
  <1>1. \A p \in Parts : c[p] \in KeyedColumns \cup ModelChoices \cup McpColumns \cup A2aColumns
    BY DEF IsAppConfig, Parts, KeyedParts
  <1>2. c \in [Parts -> KeyedColumns \cup ModelChoices \cup McpColumns \cup A2aColumns]
    BY <1>1 DEF IsAppConfig
  <1> QED
    BY <1>2, ConfigAssumption DEF ConfigAssumption

\* The default is a whole configuration.
LEMMA DefaultIsConfig == IsAppConfig(CreateDefaultAppConfig)
  BY DEF IsAppConfig, CreateDefaultAppConfig, Parts, KeyedParts, KeyedColumns, ModelChoices, McpColumns,
         A2aColumns, NoServer, Plain, SecretValues

\* What a part may be set to.
ColumnOf(p) ==
  CASE p \in KeyedParts -> KeyedColumns [] p = "agent_config" -> ModelChoices
    [] p = "mcp_config" -> McpColumns [] p = "a2a_config" -> A2aColumns

\* A configuration with a part set to something fitting is one, that says the same of the others.
LEMMA SetPart ==
  ASSUME NEW c, IsAppConfig(c), NEW p \in Parts, NEW x \in ColumnOf(p)
  PROVE  /\ IsAppConfig([c EXCEPT ![p] = x])
         /\ \A q \in Parts \ {p} : Alike([c EXCEPT ![p] = x], c, q)
  <1>1. PICK d : d = [c EXCEPT ![p] = x]
    OBVIOUS
  <1>2. d = [q \in Parts |-> IF q = p THEN x ELSE c[q]]
    BY <1>1 DEF IsAppConfig
  <1>3. IsAppConfig(d)
    BY <1>2 DEF IsAppConfig, ColumnOf, Parts, KeyedParts
  <1>4. \A q \in Parts \ {p} : Alike(d, c, q)
    BY <1>2, <1>3, PartAlike
  <1> QED
    BY <1>1, <1>3, <1>4

-----------------------------------------------------------------------------
(* Steps of a request.                                                     *)

\* A request goes on to a state that stands; the row and what is wanted of it stay.
LEMMA RequestGoesOn ==
  ASSUME ConfigInv, NEW r \in Requests, NEW t,
         request' = [request EXCEPT ![r] = t], UNCHANGED <<row, wanted, contested>>,
         overtaken \subseteq overtaken' \cup {r}, RequestStands(r, t)'
  PROVE  ConfigInv'
  <1>1. request'[r] = t /\ \A q \in Requests \ {r} : request'[q] = request[q]
    BY DEF ConfigInv
  <1>2. ASSUME NEW q \in Requests \ {r}
        PROVE  RequestStands(q, request[q])'
    <2>1. RequestStands(q, request[q]) /\ request'[q] = request[q]
      BY <1>1 DEF ConfigInv
    <2> QED
      BY <2>1 DEF RequestStands, Alike, IsAppConfig, Unsealed
  <1>3. row' # NoRow =>
          /\ IsAppConfig(row)' /\ IsAppConfig(wanted)'
          /\ \A p \in Parts \ contested' : Alike(row, wanted, p)'
    BY DEF ConfigInv, Alike, IsAppConfig, Unsealed
  <1> QED
    BY <1>1, <1>2, <1>3 DEF ConfigInv

\* A request that is over stands for nothing.
LEMMA DoneStands ==
  ASSUME NEW r \in Requests
  PROVE  RequestStands(r, Done)'
  BY DEF RequestStands, Done

\* Reading the configuration.
LEMMA LoadStep ==
  ASSUME ConfigInv, NEW r \in Requests, Loads(r)
  PROVE  ConfigInv'
  <1>1. PICK t : t = [step |-> "loaded", part |-> "none", seen |-> row,
                      config |-> IF row = NoRow THEN CreateDefaultAppConfig ELSE DecryptAppConfig(row)]
    OBVIOUS
  <1>2. IsAppConfig(t.config)
    BY <1>1, DefaultIsConfig, OpenedAlike DEF ConfigInv
  <1>3. row # NoRow => \A p \in Parts : Alike(t.config, row, p)
    BY <1>1, OpenedAlike DEF ConfigInv, Alike
  <1>4. RequestStands(r, t)'
    BY <1>1, <1>2, <1>3 DEF Loads, RequestStands, Alike, Unsealed
  <1> QED
    BY <1>1, <1>4, RequestGoesOn DEF Loads

\* Setting a part and saving it, sealed, over the row as it was read.
LEMMA EditStep ==
  ASSUME ConfigInv, NEW r \in Requests, NEW p \in Parts, NEW x \in ColumnOf(p), Edits(r, p, x)
  PROVE  ConfigInv'
  <1>1. PICK o : o = request[r]
    OBVIOUS
  <1>2. RequestStands(r, o) /\ o.step = "loaded" /\ IsAppConfig(o.config)
    BY <1>1 DEF ConfigInv, Edits, Loaded, RequestStands
  <1>3. PICK c : c = [o.config EXCEPT ![p] = x]
    OBVIOUS
  <1>4. PICK t : t = [step |-> "saved", part |-> p, config |-> EncryptAppConfig(c),
                      seen |-> IF o.seen = NoRow THEN NoRow ELSE row]
    OBVIOUS
  <1>5. IsAppConfig(c) /\ IsAppConfig(t.config) /\ \A q \in Parts \ {p} : Alike(t.config, o.config, q)
    BY <1>2, <1>3, <1>4, SetPart, SealedAlike DEF Alike
  <1>6. o.seen # NoRow => \A q \in Parts \ contested : q # p => Alike(t.config, row, q)
    <2>1. \A q \in Parts : q \notin Meant(o)
      BY <1>2 DEF RequestStands, Meant, Parts
    <2> QED
      BY <1>2, <1>5, <2>1 DEF RequestStands, Alike
  <1>7. RequestStands(r, t)'
    <2>1. Meant(t) = {p}
      BY <1>4 DEF Meant, Parts, KeyedParts
    <2> QED
      BY <1>2, <1>4, <1>5, <1>6, <2>1 DEF Edits, RequestStands, Alike, Unsealed
  <1>8. request' = [request EXCEPT ![r] = t]
    BY <1>1, <1>3, <1>4 DEF Edits
  <1> QED
    BY <1>7, <1>8, RequestGoesOn DEF Edits

\* Making the row at first, and units of work that fail.
LEMMA BootstrapStep ==
  ASSUME ConfigInv, NEW r \in Requests,
         Bootstraps(r) \/ BootstrapLooksAgain(r) \/ BootstrapSaves(r) \/ RollsBack(r)
  PROVE  ConfigInv'
  <1>1. CASE Bootstraps(r)
    <2>1. PICK t : t = [step |-> "checked", part |-> "all", seen |-> NoRow,
                        config |-> IF OldFile = NoRow THEN CreateDefaultAppConfig ELSE OldFile]
      OBVIOUS
    <2>2. IsAppConfig(t.config)
      BY <2>1, DefaultIsConfig, ConfigAssumption DEF ConfigAssumption
    <2>3. RequestStands(r, t)'
      BY <2>1, <2>2 DEF RequestStands
    <2> QED
      BY <1>1, <2>1, <2>3, RequestGoesOn DEF Bootstraps
  <1>2. CASE BootstrapLooksAgain(r)
    <2>1. PICK o : o = request[r]
      OBVIOUS
    <2>2. RequestStands(r, o) /\ o.step = "checked" /\ o.seen = NoRow /\ IsAppConfig(o.config)
      BY <1>2, <2>1 DEF ConfigInv, BootstrapLooksAgain, RequestStands
    <2>3. CASE row = NoRow
      <3>1. PICK t : t = [o EXCEPT !.step = "looked"]
        OBVIOUS
      <3>2. t = [step |-> "looked", part |-> o.part, config |-> o.config, seen |-> NoRow]
        <4>1. o = [step |-> o.step, part |-> o.part, config |-> o.config, seen |-> o.seen]
          BY <2>2 DEF RequestStands
        <4> QED
          BY <2>2, <3>1, <4>1
      <3>3. RequestStands(r, t)'
        BY <2>2, <3>2 DEF RequestStands
      <3>4. request' = [request EXCEPT ![r] = t]
        BY <1>2, <2>1, <2>3, <3>1 DEF BootstrapLooksAgain
      <3> QED
        BY <1>2, <3>3, <3>4, RequestGoesOn DEF BootstrapLooksAgain
    <2>4. CASE row # NoRow
      BY <1>2, <2>4, DoneStands, RequestGoesOn DEF BootstrapLooksAgain
    <2> QED
      BY <2>3, <2>4
  <1>4. CASE BootstrapSaves(r)
    <2>1. PICK o : o = request[r]
      OBVIOUS
    <2>2. RequestStands(r, o) /\ IsAppConfig(o.config)
      BY <1>4, <2>1 DEF ConfigInv, BootstrapSaves, RequestStands
    <2>3. PICK t : t = [step |-> "saved", part |-> "all", seen |-> row,
                        config |-> EncryptAppConfig(o.config)]
      OBVIOUS
    <2>4. Meant(t) = Parts
      BY <2>3 DEF Meant
    <2>5. RequestStands(r, t)'
      BY <1>4, <2>2, <2>3, <2>4, SealedAlike DEF RequestStands, BootstrapSaves
    <2>6. request' = [request EXCEPT ![r] = t]
      BY <1>4, <2>1, <2>3 DEF BootstrapSaves
    <2> QED
      BY <1>4, <2>5, <2>6, RequestGoesOn DEF BootstrapSaves
  <1>3. CASE RollsBack(r)
    BY <1>3, DoneStands, RequestGoesOn DEF RollsBack, Closes
  <1> QED
    BY <1>1, <1>2, <1>3, <1>4

-----------------------------------------------------------------------------
(* Updates, commits, and the theorem.                                      *)

\* A model or notebook part with a key that is typed, kept or cleared.
LEMMA KeyedPartUpdate ==
  ASSUME ConfigInv, NEW r \in Requests, NEW p \in KeyedParts, UpdatesKeyedPart(r, p)
  PROVE  ConfigInv'
  <1>1. PICK m \in Models, k \in Secrets \cup {Blank} :
          Edits(r, p, [model |-> m, key |-> IF k = Blank THEN request[r].config[p].key ELSE Plain(k)])
    BY DEF UpdatesKeyedPart
  <1>2. IsAppConfig(request[r].config)
    BY DEF ConfigInv, UpdatesKeyedPart, Loaded, RequestStands
  <1>3. request[r].config[p].key \in SecretValues /\ p \in Parts
    BY <1>2, ConfigColumns
  <1>4. PICK key : key = IF k = Blank THEN request[r].config[p].key ELSE Plain(k)
    OBVIOUS
  <1>5. key \in SecretValues
    BY <1>3, <1>4 DEF Plain, SecretValues
  <1>6. [model |-> m, key |-> key] \in ColumnOf(p)
    BY <1>5 DEF ColumnOf, KeyedParts, KeyedColumns, ModelChoices
  <1> QED
    BY <1>1, <1>3, <1>4, <1>6, EditStep

\* The MCP servers, with secrets in their environments.
LEMMA McpUpdate ==
  ASSUME ConfigInv, NEW r \in Requests,
         \/ UpdatesAndCreatesMcpServers(r)
         \/ \E s \in Servers : DeletesMcpServer(r, s)
         \/ \E on \in BOOLEAN, s \in Servers : SetsMcpServerEnabled(r, s, on)
  PROVE  ConfigInv'
  <1>1. IsAppConfig(request[r].config)
    BY DEF ConfigInv, UpdatesAndCreatesMcpServers, DeletesMcpServer, SetsMcpServerEnabled, Loaded,
           RequestStands
  <1>2. PICK c : c = ServersOf(r)
    OBVIOUS
  <1>3. c \in McpColumns
    BY <1>1, <1>2 DEF IsAppConfig, ServersOf
  <1>4. "mcp_config" \in Parts /\ ColumnOf("mcp_config") = McpColumns
    BY DEF Parts, KeyedParts, ColumnOf
  <1>5. CASE UpdatesAndCreatesMcpServers(r)
    <2>1. PICK S \in SUBSET Servers : \E new \in [S -> TypedServers] :
            Edits(r, "mcp_config", [s \in Servers |-> IF s \in S THEN new[s] ELSE c[s]])
      BY <1>2, <1>5 DEF UpdatesAndCreatesMcpServers
    <2>2. PICK new \in [S -> TypedServers] :
            Edits(r, "mcp_config", [s \in Servers |-> IF s \in S THEN new[s] ELSE c[s]])
      BY <2>1
    <2>3. TypedServers \subseteq [on : BOOLEAN, env : SecretValues, there : BOOLEAN]
      <3>1. \A x \in Secrets \cup {Blank} : Plain(x) \in SecretValues
        BY DEF Plain, SecretValues
      <3> QED
        BY <3>1 DEF TypedServers
    <2>4. [s \in Servers |-> IF s \in S THEN new[s] ELSE c[s]] \in McpColumns
      BY <1>3, <2>3 DEF McpColumns
    <2> QED
      BY <1>4, <2>2, <2>4, EditStep
  <1>6. ASSUME NEW s \in Servers, DeletesMcpServer(r, s)
        PROVE  ConfigInv'
    <2>1. NoServer \in [on : BOOLEAN, env : SecretValues, there : BOOLEAN]
      BY DEF NoServer, Plain, SecretValues
    <2>2. [c EXCEPT ![s] = NoServer] \in McpColumns
      BY <1>3, <2>1 DEF McpColumns
    <2> QED
      BY <1>2, <1>4, <1>6, <2>2, EditStep DEF DeletesMcpServer
  <1>7. ASSUME NEW on \in BOOLEAN, NEW s \in Servers, SetsMcpServerEnabled(r, s, on)
        PROVE  ConfigInv'
    <2>1. [c EXCEPT ![s].on = on] \in McpColumns
      BY <1>3 DEF McpColumns
    <2> QED
      BY <1>2, <1>4, <1>7, <2>1, EditStep DEF SetsMcpServerEnabled
  <1> QED
    BY <1>5, <1>6, <1>7

\* The parts without secrets.
LEMMA OtherUpdate ==
  ASSUME ConfigInv, NEW r \in Requests,
         \/ UpdatesAgentConfig(r) \/ CreatesA2aServer(r)
         \/ \E i \in AgentIds : DeletesA2aServer(r, i)
         \/ \E on \in BOOLEAN, i \in AgentIds : SetsA2aServerEnabled(r, i, on)
  PROVE  ConfigInv'
  <1>1. IsAppConfig(request[r].config)
    BY DEF ConfigInv, UpdatesAgentConfig, CreatesA2aServer, DeletesA2aServer, SetsA2aServerEnabled,
           Loaded, RequestStands
  <1>2. ListedAgents(r) \in A2aColumns
    BY <1>1 DEF IsAppConfig, ListedAgents
  <1>3. /\ "agent_config" \in Parts /\ ColumnOf("agent_config") = ModelChoices
        /\ "a2a_config" \in Parts /\ ColumnOf("a2a_config") = A2aColumns
    BY DEF Parts, KeyedParts, ColumnOf
  <1>4. CASE UpdatesAgentConfig(r)
    BY <1>3, <1>4, EditStep DEF UpdatesAgentConfig, ModelChoices
  <1>5. CASE CreatesA2aServer(r)
    <2>1. PICK u \in Urls, i \in AgentIds :
            Edits(r, "a2a_config", ListedAgents(r) \cup {[id |-> i, base_url |-> u, on |-> TRUE]})
      BY <1>5 DEF CreatesA2aServer
    <2>2. [id |-> i, base_url |-> u, on |-> TRUE] \in [id : AgentIds, base_url : Urls, on : BOOLEAN]
      OBVIOUS
    <2>3. ListedAgents(r) \cup {[id |-> i, base_url |-> u, on |-> TRUE]} \in A2aColumns
      BY <1>2, <2>2 DEF A2aColumns
    <2> QED
      BY <1>3, <2>1, <2>3, EditStep
  <1>6. ASSUME NEW i \in AgentIds, DeletesA2aServer(r, i)
        PROVE  ConfigInv'
    <2>1. PICK a \in ListedAgents(r) : Edits(r, "a2a_config", ListedAgents(r) \ {a})
      BY <1>6 DEF DeletesA2aServer
    <2>2. ListedAgents(r) \ {a} \in A2aColumns
      BY <1>2 DEF A2aColumns
    <2> QED
      BY <1>3, <2>1, <2>2, EditStep
  <1>7. ASSUME NEW on \in BOOLEAN, NEW i \in AgentIds, SetsA2aServerEnabled(r, i, on)
        PROVE  ConfigInv'
    <2>1. PICK a \in ListedAgents(r) :
            Edits(r, "a2a_config", (ListedAgents(r) \ {a}) \cup {[a EXCEPT !.on = on]})
      BY <1>7 DEF SetsA2aServerEnabled
    <2>2. [a EXCEPT !.on = on] \in [id : AgentIds, base_url : Urls, on : BOOLEAN]
      <3>1. a \in [id : AgentIds, base_url : Urls, on : BOOLEAN]
        BY <1>2, <2>1 DEF A2aColumns
      <3> QED
        BY <3>1
    <2>3. (ListedAgents(r) \ {a}) \cup {[a EXCEPT !.on = on]} \in A2aColumns
      BY <1>2, <2>2 DEF A2aColumns
    <2> QED
      BY <1>3, <2>1, <2>3, EditStep
  <1> QED
    BY <1>4, <1>5, <1>6, <1>7

\* The first configuration: nobody else can have seen a row yet.
LEMMA InsertsRow ==
  ASSUME ConfigInv, NEW r \in Requests, CommitsConfig(r), request[r].seen = NoRow
  PROVE  ConfigInv'
  <1>1. PICK t : t = request[r]
    OBVIOUS
  <1>2. RequestStands(r, t) /\ IsAppConfig(t.config) /\ t.seen = NoRow
    BY <1>1 DEF ConfigInv, CommitsConfig, RequestStands
  <1>3. /\ request' = [request EXCEPT ![r] = Done] /\ overtaken \subseteq overtaken'
        /\ \/ /\ row = NoRow /\ row' = t.config
              /\ wanted' = DecryptAppConfig(t.config) /\ contested' = {}
           \/ UNCHANGED <<row, wanted, contested>>
    BY <1>1, <1>2 DEF CommitsConfig, Closes
  <1>4. CASE UNCHANGED <<row, wanted, contested>>
    BY <1>3, <1>4, DoneStands, RequestGoesOn
  <1>5. CASE /\ row = NoRow /\ row' = t.config
             /\ wanted' = DecryptAppConfig(t.config) /\ contested' = {}
    <2>1. IsAppConfig(row') /\ IsAppConfig(wanted')
      BY <1>2, <1>5, OpenedAlike
    <2>2. \A p \in Parts : Alike(row', wanted', p)
      BY <1>2, <1>5, OpenedAlike DEF Alike
    <2>3. ASSUME NEW q \in Requests
          PROVE  RequestStands(q, request[q])'
      <3>1. CASE q = r
        <4>1. request'[q] = Done
          BY <1>3, <3>1 DEF ConfigInv
        <4> QED
          BY <4>1, DoneStands DEF RequestStands
      <3>2. CASE q # r
        <4>1. PICK u : u = request[q]
          OBVIOUS
        <4>2. RequestStands(q, u) /\ request'[q] = u
          BY <1>3, <3>2, <4>1 DEF ConfigInv
        <4>3. u.seen = NoRow
          BY <1>5, <4>2 DEF RequestStands
        <4>4. RequestStands(q, u)'
          BY <4>2, <4>3 DEF RequestStands
        <4> QED
          BY <4>2, <4>4
      <3> QED
        BY <3>1, <3>2
    <2>4. request' = [q \in Requests |-> request'[q]]
      BY <1>3 DEF ConfigInv
    <2> QED
      BY <2>1, <2>2, <2>3, <2>4 DEF ConfigInv, Alike, Unsealed, IsAppConfig
  <1> QED
    BY <1>3, <1>4, <1>5

\* An update: what it writes beside its own part is what the row says already,
\* but for the parts that were updated while it was open.
LEMMA UpdatesRow ==
  ASSUME ConfigInv, NEW r \in Requests, CommitsConfig(r), request[r].seen # NoRow
  PROVE  ConfigInv'
  <1>1. PICK t : t = request[r]
    OBVIOUS
  <1>2. RequestStands(r, t) /\ IsAppConfig(t.config) /\ t.seen # NoRow /\ t.step = "saved"
    BY <1>1 DEF ConfigInv, CommitsConfig, RequestStands
  <1>3. /\ row # NoRow /\ IsAppConfig(row) /\ IsAppConfig(wanted)
        /\ \A p \in Parts \ contested : Alike(row, wanted, p)
        /\ \A p \in Parts \ contested : p \notin Meant(t) => Alike(t.config, row, p)
        /\ r \notin overtaken => t.seen = row
    BY <1>2 DEF ConfigInv, RequestStands
  <1>4. PICK D \in SUBSET Parts :
          /\ row' = [p \in Parts |-> IF p \in D THEN t.config[p] ELSE row[p]]
          /\ \A p \in Parts \ D : t.config[p] = t.seen[p]
    BY <1>1, <1>2 DEF CommitsConfig
  <1>5. /\ request' = [request EXCEPT ![r] = Done]
        /\ wanted' = [p \in Parts |-> IF p \in Meant(t) THEN DecryptAppConfig(t.config)[p] ELSE wanted[p]]
        /\ contested' = IF Open \ {r} = {} /\ r \notin overtaken
                        THEN contested \ Meant(t) ELSE contested \cup Meant(t)
        /\ overtaken' = overtaken \cup (Open \ {r})
    BY <1>1, <1>2 DEF CommitsConfig, Closes
  <1>6. row' = [p \in Parts |-> row'[p]] /\ \A p \in Parts : row'[p] = t.config[p] \/ row'[p] = row[p]
    BY <1>4
  <1>7. IsAppConfig(row')
    BY <1>2, <1>3, <1>6 DEF IsAppConfig, Parts, KeyedParts
  <1>8. PICK d : d = DecryptAppConfig(t.config)
    OBVIOUS
  <1>9. IsAppConfig(d) /\ \A p \in Parts : Alike(d, t.config, p)
    BY <1>2, <1>8, OpenedAlike DEF Alike
  <1>10. wanted' = [p \in Parts |-> IF p \in Meant(t) THEN d[p] ELSE wanted[p]]
    BY <1>5, <1>8
  <1>11. IsAppConfig(wanted')
    BY <1>3, <1>9, <1>10 DEF IsAppConfig, Parts, KeyedParts
  <1>12. \A p \in Parts \ contested : p \notin Meant(t) => Alike(row', row, p)
    BY <1>2, <1>3, <1>6, <1>7, PartAlike DEF Alike
  <1>13. \A p \in Parts \ contested' : Alike(row', wanted', p)
    <2>1. ASSUME NEW p \in Parts \ contested', p \notin Meant(t)
          PROVE  Alike(row', wanted', p)
      <3>1. p \notin contested
        BY <1>5, <2>1
      <3>2. Alike(wanted', wanted, p)
        BY <1>3, <1>10, <1>11, <2>1, PartAlike
      <3> QED
        BY <1>3, <1>12, <2>1, <3>1, <3>2 DEF Alike
    <2>2. ASSUME NEW p \in Parts \ contested', p \in Meant(t)
          PROVE  Alike(row', wanted', p)
      <3>1. t.seen = row
        BY <1>3, <1>5, <2>2
      <3>2. row'[p] = t.config[p]
        BY <1>3, <1>4, <3>1
      <3>3. Alike(row', t.config, p)
        BY <1>2, <1>3, <1>7, <3>2, PartAlike
      <3>4. Alike(wanted', d, p)
        BY <1>3, <1>9, <1>10, <1>11, <2>2, PartAlike
      <3> QED
        BY <1>3, <1>9, <3>3, <3>4 DEF Alike
    <2> QED
      BY <2>1, <2>2
  <1>14. ASSUME NEW q \in Requests
         PROVE  RequestStands(q, request[q])'
    <2>1. CASE q = r
      <3>1. request'[q] = Done
        BY <1>5, <2>1 DEF ConfigInv
      <3> QED
        BY <3>1, DoneStands DEF RequestStands
    <2>2. CASE q # r
      <3>1. PICK u : u = request[q]
        OBVIOUS
      <3>2. RequestStands(q, u) /\ request'[q] = u
        BY <1>5, <2>2, <3>1 DEF ConfigInv
      <3>3. u.step # "idle" => q \in Open \ {r}
        BY <2>2, <3>1 DEF Open
      <3>4. ASSUME u.seen # NoRow
            PROVE  /\ row' # NoRow /\ q \in overtaken'
                   /\ \A p \in Parts \ contested' : p \notin Meant(u) => Alike(u.config, row', p)
        <4>1. q \in Open \ {r}
          BY <3>2, <3>3, <3>4 DEF RequestStands
        <4>2. contested' = contested \cup Meant(t)
          BY <1>5, <4>1
        <4>3. \A p \in Parts \ contested' : p \notin Meant(u) => Alike(u.config, row, p)
          BY <3>2, <3>4, <4>2 DEF RequestStands
        <4> QED
          BY <1>5, <1>7, <1>12, <4>1, <4>2, <4>3, RowIsThere DEF Alike
      <3>5. RequestStands(q, u)'
        BY <3>2, <3>4 DEF RequestStands, Alike, Unsealed
      <3> QED
        BY <3>2, <3>5
    <2> QED
      BY <2>1, <2>2
  <1>15. request' = [q \in Requests |-> request'[q]]
    BY <1>5 DEF ConfigInv
  <1> QED
    BY <1>7, <1>11, <1>13, <1>14, <1>15 DEF ConfigInv, Alike, Unsealed, IsAppConfig

\* A restart ends all requests, and may give or take the key.
LEMMA RestartStep ==
  ASSUME ConfigInv, Restarts
  PROVE  ConfigInv'
  <1>1. \A r \in Requests : RequestStands(r, request[r])'
    <2>1. ASSUME NEW r \in Requests
          PROVE  RequestStands(r, request[r])'
      <3>1. request'[r] = Done
        BY DEF Restarts
      <3> QED
        BY <3>1, DoneStands DEF RequestStands
    <2> QED
      BY <2>1
  <1> QED
    BY <1>1 DEF ConfigInv, Restarts, Alike, Unsealed, IsAppConfig

\* Every step of every request keeps the invariant.
LEMMA ConfigNextStep ==
  ASSUME ConfigInv, [ConfigNext]_configVars
  PROVE  ConfigInv'
  <1>1. CASE UNCHANGED configVars
    BY <1>1 DEF configVars, ConfigInv, RequestStands, Alike, Unsealed, IsAppConfig
  <1>2. ASSUME NEW r \in Requests, CommitsConfig(r)
        PROVE  ConfigInv'
    BY <1>2, InsertsRow, UpdatesRow
  <1> QED
    BY <1>1, <1>2, LoadStep, BootstrapStep, KeyedPartUpdate, McpUpdate, OtherUpdate, RestartStep
       DEF ConfigNext

\* No row yet.
LEMMA ConfigStart ==
  ASSUME ConfigInit
  PROVE  ConfigInv
  BY DEF ConfigInit, ConfigInv, RequestStands, Done

\* In every behaviour, with the key, a part that was last updated while nobody else had
\* the row open is read as that update made it, with the secret that was typed.
THEOREM ConfigEditsStand == ConfigSpec => []UncontestedEditsStand
  <1>1. ConfigInit => ConfigInv
    BY ConfigStart
  <1>2. ConfigInv /\ [ConfigNext]_configVars => ConfigInv'
    BY ConfigNextStep
  <1>3. ConfigInv => UncontestedEditsStand
    BY OpenedAlike DEF ConfigInv, UncontestedEditsStand, Alike
  <1> QED
    BY <1>1, <1>2, <1>3, PTL DEF ConfigSpec
=============================================================================

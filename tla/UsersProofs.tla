---------------------------- MODULE UsersProofs -----------------------------
(***************************************************************************)
(* Proofs about Users, for every value of its constants.                   *)
(***************************************************************************)
EXTENDS Users, ListProofs

(* The names in the list s are not repeated, but for the first one. *)
NamesOnce(s) ==
    \A i, j \in DOMAIN s : s[i].name = s[j].name => i = j \/ 1 \in {i, j}

(* The names in the list s are not repeated. *)
AllNamesOnce(s) == \A i, j \in DOMAIN s : s[i].name = s[j].name => i = j

(* Nobody in the list s has the flag. *)
NoneFixed(s) == \A u \in Elems(s) : NOT_CHANGE_PERM \notin u.perm

(* The administrator of the configuration is the first user, where a       *)
(* request finds it before any other of its name; and what the storage     *)
(* has, which follows it after a start, has no name twice and nobody with  *)
(* the flag.                                                               *)
UsersInv ==
    /\ TypeOK
    /\ users # <<>> /\ users[1] = SuperUser(admin)
    /\ NamesOnce(users)
    /\ AllNamesOnce(storage)
    /\ NoneFixed(storage)

(* First finds a least index. *)
LEMMA FirstFacts ==
    ASSUME NEW n \in Nat, NEW I \in SUBSET (1 .. n)
    PROVE  /\ I = {} <=> First(I) = 0
           /\ I # {} => First(I) \in I /\ \A j \in I : First(I) <= j
<1>1. CASE I = {}
  BY <1>1 DEF First
<1>2. CASE I # {}
  <2>0. I \subseteq Nat
    OBVIOUS
  <2>1. \E i \in I : \A j \in I : i <= j
    BY <1>2, <2>0, LeastNatural
  <2>2. First(I) = CHOOSE i \in I : \A j \in I : i <= j
    BY <1>2 DEF First
  <2>3. First(I) \in I /\ \A j \in I : First(I) <= j
    BY <2>1, <2>2
  <2>4. First(I) # 0
    BY <2>3
  <2> QED  BY <1>2, <2>3, <2>4
<1> QED
  BY <1>1, <1>2

(* The user that a request names. *)
LEMMA FindFacts ==
    ASSUME TypeOK, NEW name
    PROVE  /\ find_user(name) = 0 => \A i \in DOMAIN users : users[i].name # name
           /\ find_user(name) # 0 => /\ find_user(name) \in DOMAIN users
                                     /\ users[find_user(name)].name = name
<1> DEFINE I == {i \in DOMAIN users : users[i].name = name}
<1>1. Len(users) \in Nat /\ I \in SUBSET (1 .. Len(users))
  BY DEF TypeOK
<1>2. find_user(name) = First(I)
  BY DEF find_user
<1>3. /\ I = {} <=> First(I) = 0
      /\ I # {} => First(I) \in I
  <2> HIDE DEF I
  <2> QED  BY <1>1, FirstFacts
<1> QED
  BY <1>2, <1>3

(* The administrator is a user that must not be changed. *)
LEMMA AdminFacts ==
    ASSUME UsersInv
    PROVE  /\ 1 \in DOMAIN users /\ Fixed(1)
           /\ \A a \in Admins : SuperUser(a) \in User
           /\ users[1] \in FixedUsers
<1>1. 1 \in DOMAIN users
  BY DEF UsersInv, TypeOK
<1>2. NOT_CHANGE_PERM \in Perms
  BY DEF Perms
<1>3. Fixed(1)
  BY <1>2 DEF UsersInv, Fixed, SuperUser, create_user
<1>4. \A a \in Admins : SuperUser(a) \in User
  <2> SUFFICES ASSUME NEW a \in Admins PROVE SuperUser(a) \in User
    OBVIOUS
  <2>1. a.name \in Names /\ a.password \in Passwords
    BY UsersAssumption
  <2> QED  BY <2>1 DEF SuperUser, create_user, User
<1>5. users[1] \in FixedUsers
  BY <1>1, <1>3 DEF FixedUsers, Fixed, Elems
<1> QED
  BY <1>1, <1>3, <1>4, <1>5

(* A loop that deletes users leaves names as unique as they were. *)
LEMMA KeepNames ==
    ASSUME NEW s \in Seq(User), NEW T, NamesOnce(s)
    PROVE  /\ NamesOnce(Keep(s, T))
           /\ s # <<>> /\ s[1] \notin T => AllNamesOnce(Keep(s, T))
<1> DEFINE r == Keep(s, T)
<1>1. r \in Seq(User)
  BY KeepFacts
<1>2. PICK f \in [DOMAIN r -> DOMAIN s] :
        /\ \A j, k \in DOMAIN r : j < k => f[j] < f[k]
        /\ \A k \in DOMAIN r : r[k] = s[f[k]] /\ s[f[k]] \in T
  BY KeepPositions
<1> HIDE DEF r
<1>3. \A k \in DOMAIN r : f[k] \in Nat \ {0} /\ k \in Nat \ {0}
                          /\ f[k] \in DOMAIN s
  <2>1. DOMAIN s \subseteq Nat \ {0} /\ DOMAIN r \subseteq Nat \ {0}
    BY <1>1
  <2> QED  BY <2>1
<1>4. ASSUME NEW j \in DOMAIN r, NEW k \in DOMAIN r, r[j].name = r[k].name
      PROVE  j = k \/ f[j] = 1 \/ f[k] = 1
  <2>1. s[f[j]].name = s[f[k]].name
    BY <1>2, <1>4
  <2>2. f[j] = f[k] \/ f[j] = 1 \/ f[k] = 1
    BY <2>1, <1>3 DEF NamesOnce
  <2>3. f[j] = f[k] => j = k
    BY <1>2, <1>3
  <2> QED  BY <2>2, <2>3
<1>5. ASSUME NEW k \in DOMAIN r, f[k] = 1
      PROVE  k = 1
  <2>1. 1 \in DOMAIN r
    BY <1>1
  <2>2. 1 < k => f[1] < f[k]
    BY <1>2, <2>1
  <2> QED  BY <2>1, <2>2, <1>3, <1>5
<1>6. NamesOnce(r)
  BY <1>4, <1>5 DEF NamesOnce
<1>7. ASSUME s # <<>>, s[1] \notin T
      PROVE  AllNamesOnce(r)
  <2>1. \A k \in DOMAIN r : f[k] # 1
    BY <1>2, <1>7
  <2> QED  BY <2>1, <1>4 DEF AllNamesOnce
<1> QED
  BY <1>6, <1>7 DEF r

(* One user is changed, and neither its old nor its new name is another's. *)
LEMMA ExceptNames ==
    ASSUME NEW s \in Seq(User), NamesOnce(s), NEW i \in DOMAIN s,
           NEW t \in Seq(User), DOMAIN t = DOMAIN s,
           \A j \in DOMAIN s : j # i => t[j] = s[j],
           \/ t[i].name = s[i].name
           \/ \A j \in DOMAIN s : t[i].name # s[j].name
    PROVE  NamesOnce(t)
BY DEF NamesOnce

(* user_rename and user_set_perm: the user that is named is changed, if it *)
(* may be.                                                                 *)
LEMMA ChangeFacts ==
    ASSUME UsersInv, NEW i \in DOMAIN users, ~ Fixed(i), NEW u \in User,
           users' = [users EXCEPT ![i] = u],
           \/ u.name = users[i].name
           \/ \A j \in DOMAIN users : u.name # users[j].name
    PROVE  /\ users' \in Seq(User) /\ users' # <<>> /\ users'[1] = users[1]
           /\ NamesOnce(users')
           /\ \A j \in DOMAIN users : Fixed(j) => users[j] \in Elems(users')
<1>1. users \in Seq(User) /\ NamesOnce(users) /\ users # <<>>
  BY DEF UsersInv, TypeOK
<1>2. 1 \in DOMAIN users /\ i # 1
  BY AdminFacts
<1>3. users' \in Seq(User) /\ DOMAIN users' = DOMAIN users
      /\ users'[i] = u /\ \A j \in DOMAIN users : j # i => users'[j] = users[j]
  BY <1>1
<1>4. NamesOnce(users')
  BY <1>1, <1>3, ExceptNames
<1>5. ASSUME NEW j \in DOMAIN users, Fixed(j) PROVE users[j] \in Elems(users')
  <2>1. j # i
    BY <1>5
  <2> QED  BY <2>1, <1>3 DEF Elems
<1>6. users' # <<>>
  BY <1>2, <1>3
<1> QED
  BY <1>2, <1>3, <1>4, <1>5, <1>6

(* user_delete *)
LEMMA DeleteFacts ==
    ASSUME UsersInv, NEW i \in DOMAIN users, ~ Fixed(i),
           users' = Without(users, i)
    PROVE  /\ users' \in Seq(User) /\ users' # <<>> /\ users'[1] = users[1]
           /\ NamesOnce(users')
           /\ \A j \in DOMAIN users : Fixed(j) => users[j] \in Elems(users')
<1>1. users \in Seq(User) /\ NamesOnce(users) /\ users # <<>>
      /\ Len(users) \in Nat /\ DOMAIN users = 1 .. Len(users)
  BY DEF UsersInv, TypeOK
<1>2. 1 \in DOMAIN users /\ i # 1 /\ i \in 2 .. Len(users)
  BY <1>1, AdminFacts
<1>3. /\ DOMAIN users' = 1 .. Len(users) - 1
      /\ \A k \in 1 .. Len(users) - 1 :
            users'[k] = IF k < i THEN users[k] ELSE users[k + 1]
  BY <1>1, WithoutPositions
<1>4. users' \in Seq(User)
  BY <1>1, WithoutFacts
<1>5. 1 \in DOMAIN users' /\ users'[1] = users[1]
  BY <1>1, <1>2, <1>3
<1>6. NamesOnce(users')
  <2> SUFFICES ASSUME NEW j \in DOMAIN users', NEW k \in DOMAIN users',
                      users'[j].name = users'[k].name
               PROVE  j = k \/ 1 \in {j, k}
    BY DEF NamesOnce
  <2> DEFINE p == IF j < i THEN j ELSE j + 1
             q == IF k < i THEN k ELSE k + 1
  <2>1. p \in DOMAIN users /\ q \in DOMAIN users
    BY <1>1, <1>2, <1>3
  <2>2. users'[j] = users[p] /\ users'[k] = users[q]
    BY <1>3
  <2>3. p = q \/ 1 \in {p, q}
    BY <1>1, <2>1, <2>2 DEF NamesOnce
  <2> QED  BY <2>3, <1>1, <1>2, <1>3
<1>7. ASSUME NEW j \in DOMAIN users, Fixed(j) PROVE users[j] \in Elems(users')
  <2>1. j # i
    BY <1>7
  <2> DEFINE k == IF j < i THEN j ELSE j - 1
  <2>2. k \in DOMAIN users' /\ users'[k] = users[j]
    BY <2>1, <1>1, <1>2, <1>3
  <2> QED  BY <2>2 DEF Elems
<1> QED
  BY <1>4, <1>5, <1>6, <1>7

(* flush *)
LEMMA FlushFacts ==
    ASSUME UsersInv, users' = delete_users
    PROVE  /\ users' \in Seq(User) /\ users' # <<>> /\ users'[1] = users[1]
           /\ NamesOnce(users')
           /\ \A j \in DOMAIN users : Fixed(j) => users[j] \in Elems(users')
<1>1. users \in Seq(User) /\ NamesOnce(users) /\ users # <<>>
  BY DEF UsersInv, TypeOK
<1>2. users' = Keep(users, FixedUsers)
  BY DEF delete_users
<1>3. users' \in Seq(User) /\ Elems(users') = Elems(users) \cap FixedUsers
  BY <1>1, <1>2, KeepFacts
<1>4. users' # <<>> /\ users'[1] = users[1]
  BY <1>1, <1>2, AdminFacts, KeepFirst
<1>5. NamesOnce(users')
  BY <1>1, <1>2, KeepNames
<1>6. \A j \in DOMAIN users : Fixed(j) => users[j] \in Elems(users')
  BY <1>3 DEF FixedUsers, Fixed, Elems
<1> QED
  BY <1>3, <1>4, <1>5, <1>6

(* user_create *)
LEMMA CreateFacts ==
    ASSUME UsersInv, NEW u \in User, \A j \in DOMAIN users : users[j].name # u.name,
           users' = Append(users, u)
    PROVE  /\ users' \in Seq(User) /\ users' # <<>> /\ users'[1] = users[1]
           /\ NamesOnce(users')
           /\ \A j \in DOMAIN users : Fixed(j) => users[j] \in Elems(users')
<1>1. users \in Seq(User) /\ NamesOnce(users) /\ users # <<>>
      /\ Len(users) \in Nat /\ DOMAIN users = 1 .. Len(users)
  BY DEF UsersInv, TypeOK
<1>2. /\ users' \in Seq(User) /\ DOMAIN users' = 1 .. Len(users) + 1
      /\ \A j \in DOMAIN users : users'[j] = users[j]
      /\ users'[Len(users) + 1] = u
  BY <1>1
<1>3. users' # <<>> /\ users'[1] = users[1]
  BY <1>1, <1>2, AdminFacts
<1>4. NamesOnce(users')
  <2> SUFFICES ASSUME NEW j \in DOMAIN users', NEW k \in DOMAIN users',
                      users'[j].name = users'[k].name
               PROVE  j = k \/ 1 \in {j, k}
    BY DEF NamesOnce
  <2>1. j \in DOMAIN users \/ j = Len(users) + 1
    BY <1>1, <1>2
  <2>2. k \in DOMAIN users \/ k = Len(users) + 1
    BY <1>1, <1>2
  <2> QED  BY <2>1, <2>2, <1>1, <1>2 DEF NamesOnce
<1>5. \A j \in DOMAIN users : Fixed(j) => users[j] \in Elems(users')
  <2>1. Elems(users') = Elems(users) \cup {u}
    BY <1>1, AppendFacts
  <2> QED  BY <2>1 DEF Elems
<1> QED
  BY <1>2, <1>3, <1>4, <1>5

(* What a request of an administrator leaves, as far as the list of users  *)
(* goes.                                                                   *)
Served ==
    /\ users' \in Seq(User) /\ users' # <<>> /\ users'[1] = users[1]
    /\ NamesOnce(users')
    /\ \A j \in DOMAIN users : Fixed(j) => users[j] \in Elems(users')

(* No step but a restart takes the administrator or a flagged user away.   *)
LEMMA StepFacts ==
    ASSUME UsersInv, [Next]_vars
    PROVE  (\E a \in Admins : Restart(a)) \/ (Served /\ UNCHANGED admin)
<1>t. users \in Seq(User) /\ users # <<>> /\ NamesOnce(users)
  BY DEF UsersInv, TypeOK
<1>s. ASSUME UNCHANGED users PROVE Served
  <2>1. users' = users
    BY <1>s
  <2>2. \A j \in DOMAIN users : users[j] \in Elems(users)
    BY DEF Elems
  <2> QED  BY <1>t, <2>1, <2>2 DEF Served
<1>1. ASSUME NEW c \in Clients, NEW n \in Names, NEW p \in Passwords,
             Auth(c, n, p)
      PROVE  Served /\ UNCHANGED admin
  BY <1>1, <1>s DEF Auth
<1>2. ASSUME NEW c \in Clients, Disconnect(c)
      PROVE  Served /\ UNCHANGED admin
  BY <1>2, <1>s DEF Disconnect
<1>3. ASSUME NEW c \in Clients, FlushUsers(c)
      PROVE  Served /\ UNCHANGED admin
  BY <1>3, FlushFacts DEF FlushUsers, ByAdmin, Served
<1>4. ASSUME NEW c \in Clients, NEW n \in Names, NEW p \in Passwords,
             NEW b \in SUBSET Perms, UserCreate(c, n, p, b)
      PROVE  Served /\ UNCHANGED admin
  <2> DEFINE u == create_user(n, p, b)
  <2>1. u \in User /\ u.name = n
    BY DEF create_user, User
  <2>2. \A j \in DOMAIN users : users[j].name # n
    BY <1>4, FindFacts DEF UserCreate, UsersInv
  <2>3. users' = Append(users, u) /\ UNCHANGED admin
    BY <1>4 DEF UserCreate, ByAdmin
  <2> HIDE DEF u
  <2> QED  BY <2>1, <2>2, <2>3, CreateFacts DEF Served
<1>5. ASSUME NEW c \in Clients, NEW n \in Names, NEW to \in Names,
             UserRename(c, n, to)
      PROVE  Served /\ UNCHANGED admin
  <2> DEFINE i == find_user(n)
             u == [users[i] EXCEPT !.name = to]
  <2>1. i \in DOMAIN users /\ ~ Fixed(i)
    BY <1>5, FindFacts DEF UserRename, UsersInv
  <2>2. users[i] \in User
    BY <1>t, <2>1
  <2>3. u \in User /\ u.name = to
    BY <2>2 DEF User
  <2>4. users' = [users EXCEPT ![i] = u] /\ UNCHANGED admin
    BY <1>5, <2>1, <1>t DEF UserRename, ByAdmin
  <2>5. \A j \in DOMAIN users : users[j].name # to
    BY <1>5, FindFacts DEF UserRename, UsersInv
  <2> HIDE DEF i, u
  <2> QED  BY <2>1, <2>3, <2>4, <2>5, ChangeFacts DEF Served
<1>6. ASSUME NEW c \in Clients, NEW n \in Names, NEW b \in SUBSET Perms,
             UserSetPerm(c, n, b)
      PROVE  Served /\ UNCHANGED admin
  <2> DEFINE i == find_user(n)
             u == [users[i] EXCEPT !.perm = b]
  <2>1. i \in DOMAIN users /\ ~ Fixed(i)
    BY <1>6, FindFacts DEF UserSetPerm, UsersInv
  <2>2. users[i] \in User
    BY <1>t, <2>1
  <2>3. u \in User /\ u.name = users[i].name
    BY <2>2 DEF User
  <2>4. users' = [users EXCEPT ![i] = u] /\ UNCHANGED admin
    BY <1>6, <2>1, <1>t DEF UserSetPerm, ByAdmin
  <2> HIDE DEF i, u
  <2> QED  BY <2>1, <2>3, <2>4, ChangeFacts DEF Served
<1>7. ASSUME NEW c \in Clients, NEW n \in Names, UserDelete(c, n)
      PROVE  Served /\ UNCHANGED admin
  <2> DEFINE i == find_user(n)
  <2>1. i \in DOMAIN users /\ ~ Fixed(i)
    BY <1>7, FindFacts DEF UserDelete, UsersInv
  <2>2. users' = Without(users, i) /\ UNCHANGED admin
    BY <1>7 DEF UserDelete, ByAdmin
  <2> HIDE DEF i
  <2> QED  BY <2>1, <2>2, DeleteFacts DEF Served
<1>8. ASSUME Save PROVE Served /\ UNCHANGED admin
  BY <1>8, <1>s DEF Save
<1>9. CASE UNCHANGED vars
  BY <1>9, <1>s DEF vars
<1> QED
  BY <1>1, <1>2, <1>3, <1>4, <1>5, <1>6, <1>7, <1>8, <1>9 DEF Next

(* What a save writes is typed and has no name twice: the administrator    *)
(* is not in it, nor anybody else with the flag.                           *)
LEMMA SaveFacts ==
    ASSUME UsersInv
    PROVE  /\ storage_save_users \in Seq(User)
           /\ AllNamesOnce(storage_save_users)
           /\ NoneFixed(storage_save_users)
<1>1. users \in Seq(User) /\ NamesOnce(users) /\ users # <<>>
  BY DEF UsersInv, TypeOK
<1>2. users[1] \notin Elems(users) \ FixedUsers
  BY AdminFacts
<1>3. NoneFixed(storage_save_users)
  <2>1. Elems(storage_save_users) = Elems(users) \cap (Elems(users) \ FixedUsers)
    BY <1>1, KeepFacts DEF storage_save_users
  <2> QED  BY <2>1 DEF NoneFixed, FixedUsers
<1> QED
  BY <1>1, <1>2, <1>3, KeepFacts, KeepNames DEF storage_save_users

(* A start: the administrator of the configuration, and behind it the      *)
(* users of the storage.                                                   *)
LEMMA StartFacts ==
    ASSUME UsersInv, NEW a \in Admins
    PROVE  /\ Start(a) \in Seq(User) /\ Start(a) # <<>>
           /\ Start(a)[1] = SuperUser(a)
           /\ NamesOnce(Start(a))
           /\ Elems(Start(a)) = {SuperUser(a)} \cup Elems(storage)
<1> DEFINE u == SuperUser(a)
<1>1. storage \in Seq(User) /\ AllNamesOnce(storage) /\ u \in User
  BY AdminFacts DEF UsersInv, TypeOK
<1>2. Start(a) = <<u>> \o storage
  BY DEF Start
<1> HIDE DEF u
<1> DEFINE s == <<u>> \o storage
<1>3. /\ s \in Seq(User) /\ s # <<>> /\ s[1] = u
      /\ \A k \in DOMAIN s : k # 1 => k - 1 \in DOMAIN storage
                                        /\ s[k] = storage[k - 1]
  BY <1>1, ConsFacts
<1>5. Elems(s) = {u} \cup Elems(storage)
  BY <1>1, ConsFacts
<1> HIDE DEF s
<1>4. NamesOnce(s)
  <2> SUFFICES ASSUME NEW j \in DOMAIN s, NEW k \in DOMAIN s, j # 1, k # 1,
                      s[j].name = s[k].name
               PROVE  j = k
    BY DEF NamesOnce
  <2>1. j - 1 = k - 1
    BY <1>1, <1>3 DEF AllNamesOnce
  <2>2. j \in Int /\ k \in Int
    BY <1>3
  <2> QED  BY <2>1, <2>2
<1> QED
  BY <1>2, <1>3, <1>4, <1>5 DEF s, u

(* What a client may do after a step is a set of permission bits. *)
LEMMA PermFacts ==
    ASSUME UsersInv, [Next]_vars
    PROVE  perm' \in [Clients -> SUBSET Perms]
<1>t. perm \in [Clients -> SUBSET Perms] /\ users \in Seq(User)
  BY DEF UsersInv, TypeOK
<1>1. ASSUME NEW c \in Clients, NEW n \in Names, NEW p \in Passwords,
             Auth(c, n, p)
      PROVE  perm' \in [Clients -> SUBSET Perms]
  <2> DEFINE I == {i \in DOMAIN users : users[i].name = n /\
                                         users[i].password = p}
  <2>1. find_user_password(n, p) = First(I)
    BY DEF find_user_password
  <2>2. I \in SUBSET (1 .. Len(users)) /\ Len(users) \in Nat
    BY <1>t
  <2>3. First(I) # 0 => First(I) \in I
    <3> HIDE DEF I
    <3> QED  BY <2>2, FirstFacts
  <2>4. users[First(I)] \in User
    BY <1>1, <1>t, <2>1, <2>3 DEF Auth
  <2>5. users[First(I)].perm \in SUBSET Perms
    BY <2>4 DEF User
  <2>6. perm' = [perm EXCEPT ![c] = users[First(I)].perm]
    BY <1>1, <2>1 DEF Auth
  <2> HIDE DEF I
  <2> QED  BY <2>5, <2>6, <1>t
<1>2. ASSUME NEW c \in Clients, Disconnect(c)
      PROVE  perm' \in [Clients -> SUBSET Perms]
  BY <1>2, <1>t DEF Disconnect
<1>3. ASSUME NEW a \in Admins, Restart(a)
      PROVE  perm' \in [Clients -> SUBSET Perms]
  BY <1>3 DEF Restart
<1>4. ASSUME UNCHANGED perm
      PROVE  perm' \in [Clients -> SUBSET Perms]
  BY <1>4, <1>t
<1> QED
  BY <1>1, <1>2, <1>3, <1>4
  DEF Next, vars, FlushUsers, UserCreate, UserRename, UserSetPerm, UserDelete,
      ByAdmin, Save

(* The storage only changes in a save. *)
LEMMA StorageFacts ==
    ASSUME UsersInv, [Next]_vars
    PROVE  storage' \in Seq(User) /\ AllNamesOnce(storage') /\ NoneFixed(storage')
<1>t. storage \in Seq(User) /\ AllNamesOnce(storage) /\ NoneFixed(storage)
  BY DEF UsersInv, TypeOK
<1>1. storage' = storage \/ storage' = storage_save_users
  BY DEF Next, vars, Auth, Disconnect, FlushUsers, UserCreate, UserRename,
         UserSetPerm, UserDelete, Save, Restart
<1> QED
  BY <1>t, <1>1, SaveFacts

LEMMA UsersStep ==
    ASSUME UsersInv, [Next]_vars
    PROVE  UsersInv'
<1>1. storage' \in Seq(User) /\ AllNamesOnce(storage') /\ NoneFixed(storage')
      /\ perm' \in [Clients -> SUBSET Perms]
  BY StorageFacts, PermFacts
<1>2. ASSUME NEW a \in Admins, Restart(a)
      PROVE  /\ users' \in Seq(User) /\ users' # <<>> /\ NamesOnce(users')
             /\ users'[1] = SuperUser(admin') /\ admin' \in Admins
  <2>1. users' = Start(a) /\ admin' = a
    BY <1>2 DEF Restart
  <2> QED  BY <2>1, StartFacts
<1>3. ASSUME Served, UNCHANGED admin
      PROVE  /\ users' \in Seq(User) /\ users' # <<>> /\ NamesOnce(users')
             /\ users'[1] = SuperUser(admin') /\ admin' \in Admins
  BY <1>3 DEF Served, UsersInv, TypeOK
<1>4. /\ users' \in Seq(User) /\ users' # <<>> /\ NamesOnce(users')
      /\ users'[1] = SuperUser(admin') /\ admin' \in Admins
  BY <1>2, <1>3, StepFacts
<1> QED
  BY <1>1, <1>4 DEF UsersInv, TypeOK

LEMMA UsersInvariant == Spec => []UsersInv
<1>1. Init => UsersInv
  <2> SUFFICES ASSUME Init PROVE UsersInv
    OBVIOUS
  <2>1. admin \in Admins /\ admin.name \in Names /\ admin.password \in Passwords
    BY UsersAssumption DEF Init
  <2>2. SuperUser(admin) \in User
    BY <2>1 DEF SuperUser, create_user, User
  <2>3. users \in Seq(User) /\ users # <<>> /\ users[1] = SuperUser(admin)
        /\ DOMAIN users = {1}
    BY <2>2 DEF Init
  <2>4. storage \in Seq(User) /\ DOMAIN storage = {}
    BY DEF Init
  <2>5. perm \in [Clients -> SUBSET Perms]
    BY DEF Init
  <2>6. NamesOnce(users) /\ AllNamesOnce(storage) /\ NoneFixed(storage)
    BY <2>3, <2>4 DEF NamesOnce, AllNamesOnce, NoneFixed, Elems
  <2> QED  BY <2>1, <2>3, <2>4, <2>5, <2>6 DEF UsersInv, TypeOK
<1>2. UsersInv /\ [Next]_vars => UsersInv'
  BY UsersStep
<1> QED
  BY <1>1, <1>2, PTL DEF Spec

(* The administrator of the configuration can log in in every reachable    *)
(* state, whatever other administrators do, with any number of users and   *)
(* restarts: being first in server->users, it is what find_user finds.     *)
THEOREM AdminStaysCorrect == Spec => []AdminStays
<1>1. UsersInv => AdminStays
  <2> SUFFICES ASSUME UsersInv PROVE AdminStays
    OBVIOUS
  <2> DEFINE I == {i \in DOMAIN users : users[i].name = admin.name /\
                                         users[i].password = admin.password}
  <2>1. 1 \in I
    BY AdminFacts DEF UsersInv, SuperUser, create_user
  <2>2. Len(users) \in Nat /\ I \in SUBSET (1 .. Len(users))
    BY DEF UsersInv, TypeOK
  <2>3. First(I) \in I /\ First(I) <= 1
    <3> HIDE DEF I
    <3> QED  BY <2>1, <2>2, FirstFacts
  <2>4. First(I) = 1
    BY <2>2, <2>3
  <2>5. find_user_password(admin.name, admin.password) = 1
    BY <2>4 DEF find_user_password
  <2> QED  BY <2>5 DEF AdminStays, UsersInv, SuperUser, create_user
<1> QED
  BY <1>1, UsersInvariant, PTL

(* Names of users are not repeated, but for the one of the administrator   *)
(* of the configuration.                                                   *)
THEOREM OneUserPerNameCorrect == Spec => []OneUserPerName
<1>1. UsersInv => OneUserPerName
  BY DEF UsersInv, NamesOnce, OneUserPerName
<1> QED
  BY <1>1, UsersInvariant, PTL

(* The step of FixedUntilRestart.                                          *)
FixedStep ==
    IF \E a \in Admins : Restart(a)
    THEN FixedUsers' = {SuperUser(admin')}
    ELSE \A i \in DOMAIN users : Fixed(i) => users[i] \in Elems(users')

(* Requests leave users with the flag EG_USER_NOT_CHANGE_PERM alone, and   *)
(* after a restart the administrator of the configuration is the only one. *)
THEOREM FixedUntilRestartCorrect == Spec => FixedUntilRestart
<1>1. ASSUME UsersInv, NEW a \in Admins, Restart(a)
      PROVE  FixedUsers' = {SuperUser(admin')}
  <2>1. users' = Start(a) /\ admin' = a
    BY <1>1 DEF Restart
  <2>2. Elems(users') = {SuperUser(admin')} \cup Elems(storage)
    BY <1>1, <2>1, StartFacts
  <2>3. NOT_CHANGE_PERM \in SuperUser(admin').perm
    BY DEF SuperUser, create_user, Perms
  <2>4. NoneFixed(storage)
    BY <1>1 DEF UsersInv
  <2> QED  BY <2>2, <2>3, <2>4 DEF FixedUsers, NoneFixed
<1>2. UsersInv /\ [Next]_vars => FixedStep
  BY <1>1, StepFacts DEF FixedStep, Served
<1>3. Spec => [][FixedStep]_vars
  BY <1>2, UsersInvariant, PTL DEF Spec
<1> QED
  BY <1>3 DEF FixedStep, FixedUntilRestart
=============================================================================

------------------------------- MODULE Users --------------------------------
(***************************************************************************)
(* Users and permissions (src/src/user.c and the handlers of auth, flush   *)
(* and the user_ commands).  A user is a name, a password and a set of     *)
(* permission bits; a client has a copy of the bits of the user it         *)
(* authenticated as.  The storage has the users of the last save, and a    *)
(* server that starts has the administrator of its configuration, which    *)
(* may have changed, and then the users of the storage.                    *)
(*                                                                         *)
(* Of the bits, EG_USER_ADMIN_PERM and EG_USER_NOT_CHANGE_PERM decide what *)
(* happens to users; Others are those that do not.  Requests that are      *)
(* refused change nothing and are not actions.  How the storage is written *)
(* is modelled in Storage; here a save is one step.                        *)
(***************************************************************************)
EXTENDS Lists

CONSTANTS
    Clients,
    Names, Passwords,
    Others,       \* the other bits of EG_USER_SUPER_PERM
    Admins,       \* the records [name, password] that are ever configured
    MaxUsers      \* bound: users that clients create

ADMIN_PERM == "EG_USER_ADMIN_PERM"
NOT_CHANGE_PERM == "EG_USER_NOT_CHANGE_PERM"

Perms == {ADMIN_PERM, NOT_CHANGE_PERM} \cup Others

ASSUME UsersAssumption ==
    /\ Admins # {} /\ Admins \subseteq [name : Names, password : Passwords]
    /\ MaxUsers \in Nat

VARIABLES
    users,    \* server->users
    perm,     \* client->perm of every client
    storage,  \* the users in the storage file
    admin     \* server->name and server->password

vars == <<users, perm, storage, admin>>

create_user(name, password, bits) ==
    [name |-> name, password |-> password, perm |-> bits]

(* init_admin, with EG_USER_SUPER_PERM *)
SuperUser(a) == create_user(a.name, a.password, Perms)

Init ==
    /\ admin \in Admins
    /\ users = <<SuperUser(admin)>>
    /\ perm = [c \in Clients |-> {}]
    /\ storage = <<>>

(* find_user: the first user of the list for which the test holds, 0 if    *)
(* there is none.                                                          *)
First(I) == IF I = {} THEN 0 ELSE CHOOSE i \in I : \A j \in I : i <= j

find_user(name) == First({i \in DOMAIN users : users[i].name = name})

find_user_password(name, password) ==
    First({i \in DOMAIN users : users[i].name = name /\
                                users[i].password = password})

-----------------------------------------------------------------------------
(* auth *)
Auth(c, name, password) ==
    LET i == find_user_password(name, password) IN
    /\ i # 0
    /\ perm' = [perm EXCEPT ![c] = users[i].perm]
    /\ UNCHANGED <<users, storage, admin>>

(* free_client, and create_client for the next connection *)
Disconnect(c) ==
    /\ perm' = [perm EXCEPT ![c] = {}]
    /\ UNCHANGED <<users, storage, admin>>

(* What the handlers that follow ask of the client. *)
ByAdmin(c) ==
    /\ ADMIN_PERM \in perm[c]
    /\ UNCHANGED <<perm, admin>>

Fixed(i) == NOT_CHANGE_PERM \in users[i].perm

(* user_create: the bits are those of the request, whichever they are. *)
UserCreate(c, name, password, bits) ==
    /\ ByAdmin(c)
    /\ find_user(name) = 0
    /\ Len(users) <= MaxUsers
    /\ users' = Append(users, create_user(name, password, bits))
    /\ UNCHANGED storage

(* Mutant: the new name may be in use. *)
UserRenameUnchecked(c, from, to) ==
    /\ ByAdmin(c)
    /\ find_user(from) # 0
    /\ ~ Fixed(find_user(from))
    /\ users' = [users EXCEPT ![find_user(from)].name = to]
    /\ UNCHANGED storage

(* user_rename *)
UserRename(c, from, to) ==
    /\ ByAdmin(c)
    /\ find_user(from) # 0
    /\ find_user(to) = 0
    /\ ~ Fixed(find_user(from))
    /\ users' = [users EXCEPT ![find_user(from)].name = to]
    /\ UNCHANGED storage

(* user_set_perm: clients keep the copy they have. *)
UserSetPerm(c, name, bits) ==
    /\ ByAdmin(c)
    /\ find_user(name) # 0
    /\ ~ Fixed(find_user(name))
    /\ users' = [users EXCEPT ![find_user(name)].perm = bits]
    /\ UNCHANGED storage

(* user_delete *)
UserDelete(c, name) ==
    /\ ByAdmin(c)
    /\ find_user(name) # 0
    /\ ~ Fixed(find_user(name))
    /\ users' = Without(users, find_user(name))
    /\ UNCHANGED storage

FixedUsers == {u \in Elems(users) : NOT_CHANGE_PERM \in u.perm}

(* What delete_users leaves. *)
delete_users == Keep(users, FixedUsers)

(* flush with EG_FLUSH_USER_FLAG: all users with the flag stay. *)
FlushUsers(c) ==
    /\ ByAdmin(c)
    /\ users' = delete_users
    /\ UNCHANGED storage

(* Mutant: the flag is not looked at. *)
storage_save_users_all == users

(* storage_save_users: users with the flag are left out, whoever made them *)
(* (init_admin, or user_create and user_set_perm with the flag).           *)
storage_save_users == Keep(users, Elems(users) \ FixedUsers)

(* A save, asked for by a client or by storage_timeout, that succeeds. *)
Save ==
    /\ storage' = storage_save_users
    /\ UNCHANGED <<users, perm, admin>>

(* Mutant: the storage is loaded before init_admin. *)
StartLate(a) == Append(storage, SuperUser(a))

(* main: init_admin, then storage_load_user for each user in the storage,  *)
(* which are added without looking at their names.                         *)
Start(a) == <<SuperUser(a)>> \o storage

(* The server ends, by a signal or a crash, and starts again. *)
Restart(a) ==
    /\ admin' = a
    /\ users' = Start(a)
    /\ perm' = [c \in Clients |-> {}]
    /\ UNCHANGED storage

Next ==
    \/ \E c \in Clients, n \in Names, p \in Passwords : Auth(c, n, p)
    \/ \E c \in Clients : Disconnect(c) \/ FlushUsers(c)
    \/ \E c \in Clients, n \in Names, p \in Passwords, b \in SUBSET Perms :
           UserCreate(c, n, p, b)
    \/ \E c \in Clients, n, m \in Names : UserRename(c, n, m)
    \/ \E c \in Clients, n \in Names, b \in SUBSET Perms : UserSetPerm(c, n, b)
    \/ \E c \in Clients, n \in Names : UserDelete(c, n)
    \/ Save
    \/ \E a \in Admins : Restart(a)

Spec == Init /\ [][Next]_vars
-----------------------------------------------------------------------------
(* Properties *)

User == [name : Names, password : Passwords, perm : SUBSET Perms]

(* The shape of the state. *)
TypeOK ==
    /\ users \in Seq(User) /\ storage \in Seq(User)
    /\ perm \in [Clients -> SUBSET Perms]
    /\ admin \in Admins

(* The administrator of the configuration can log in and then has every    *)
(* permission: no request of another administrator, no flush and no user   *)
(* of the same name in the storage changes or hides it.                    *)
AdminStays ==
    LET i == find_user_password(admin.name, admin.password) IN
    i # 0 /\ users[i].perm = Perms

(* Requests name one user: names are not repeated, but for the name of the *)
(* administrator of the configuration, which the storage may also have.    *)
OneUserPerName ==
    \A i, j \in DOMAIN users :
        users[i].name = users[j].name =>
            i = j \/ 1 \in {i, j}

(* A user with the flag is neither changed nor removed as long as the      *)
(* server runs, by user_ requests or by flush; and it does not outlive the *)
(* server: after a start the only user with the flag is the administrator  *)
(* of the configuration, so that no other one, and no administrator of an  *)
(* earlier configuration, is left that nobody could remove.                *)
(*                                                                         *)
(* docs/README.md says otherwise in two places.  Of the flag: "If a user   *)
(* is created with the flag, then it can not be removed", but the storage  *)
(* does not have it and a restart removes it.  Of flush: "deletes all      *)
(* users (except the main administrator)", but every user with the flag    *)
(* stays.                                                                  *)
FixedUntilRestart ==
    [][IF \E a \in Admins : Restart(a)
       THEN FixedUsers' = {SuperUser(admin')}
       ELSE \A i \in DOMAIN users : Fixed(i) => users[i] \in Elems(users')]_vars
=============================================================================

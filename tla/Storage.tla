------------------------------- MODULE Storage -------------------------------
(***************************************************************************)
(* The storage (src/src/storage.c): the durable objects are written to a   *)
(* temporary file that is renamed to the storage file, by the server or by *)
(* a forked child, and read when the server starts.                        *)
(*                                                                         *)
(* A saving process works on the memory it had at the fork, and what the   *)
(* other processes see of it is the rename.  Processes are killed, writes  *)
(* and renames fail, the server crashes and starts again while a child of  *)
(* the crashed server goes on.  A file is a sequence of sections, one for  *)
(* each type of object; of a file that is not complete nothing is known    *)
(* but that a load ends in fatal(), and no sections stand for it.          *)
(*                                                                         *)
(* What clients do to the objects between two saves is modelled in the     *)
(* other modules; here a few requests change what is saved, and messages   *)
(* that wait for a confirm, which are not saved, are no part of it.        *)
(***************************************************************************)
EXTENDS Lists

CONSTANTS
    Queues, Routes, Channels, Users,   \* names
    Admin,          \* the user of init_admin
    Messages,
    max_msg,        \* Queue_t.max_msg of every queue
    force_push,     \* Queue_t.force_push of every queue
    Pids,           \* processes
    AutoSave,       \* server->storage_timeout is set
    Null,
    MaxTime         \* bound: changes of the memory

(* The functions of some of the names in S, with values in T. *)
Maps(S, T) == UNION {[D -> T] : D \in SUBSET S}

(* What a server keeps.  server->users is a bag: a second user of the same *)
(* name would be seen.  Queues, routes and channels are functions of the   *)
(* names in use.  The messages of a queue begin with the newest.           *)
Memories ==
    [users    : [Users \cup {Admin} -> Nat],
     queues   : Maps(Queues, [durable : BOOLEAN, messages : Seq(Messages)]),
     routes   : Maps(Routes, [durable : BOOLEAN, keys : SUBSET Queues]),
     channels : Maps(Channels, [durable : BOOLEAN])]

ASSUME StorageAssumption ==
    /\ Admin \notin Users /\ Null \notin Pids \cup Memories
    /\ max_msg \in Nat \ {0}
    /\ {force_push, AutoSave} \subseteq BOOLEAN
    /\ MaxTime \in Nat

VARIABLES
    mem,        \* the objects in memory, Null if no server runs
    file,       \* the storage file
    child_pid,  \* server->child_pid
    procs,      \* the forked processes
    time,       \* history: how often requests changed the memory
    overtaken   \* history: a save ended, or a server, while a child saved

storageVars == <<mem, file, child_pid, procs, time, overtaken>>

-----------------------------------------------------------------------------
(* Memory *)

NoMemory ==
    [users    |-> [u \in Users \cup {Admin} |-> 0],
     queues   |-> << >>, routes |-> << >>, channels |-> << >>]

(* The objects f, and those of g beside them. *)
And(f, g) ==
    [x \in DOMAIN f \cup DOMAIN g |-> IF x \in DOMAIN g THEN g[x] ELSE f[x]]

With(f, x, v) == And(f, [y \in {x} |-> v])

(* push_message_queue_t without subscribers: a full queue refuses the      *)
(* message or drops its oldest one.                                        *)
push_message_queue_t(queue, m) ==
    IF Len(queue) < max_msg THEN <<m>> \o queue
    ELSE IF force_push THEN <<m>> \o AllButLast(queue) ELSE queue

(* What a request can make of the memory. *)
Changes ==
    {[mem EXCEPT !.queues = With(@, q, [durable |-> d, messages |-> << >>])] :
        q \in Queues \ DOMAIN mem.queues, d \in BOOLEAN}
    \cup {[mem EXCEPT !.queues[q].messages = push_message_queue_t(@, m)] :
        q \in DOMAIN mem.queues, m \in Messages}
    \* popped messages come back, whatever max_msg
    \cup {[mem EXCEPT !.queues[q].messages = @ \o <<m, n>>] :
        q \in {p \in DOMAIN mem.queues :
                  Len(mem.queues[p].messages) < max_msg},
        m, n \in Messages}
    \cup {[mem EXCEPT !.routes = With(@, r, [durable |-> d, keys |-> {}])] :
        r \in Routes \ DOMAIN mem.routes, d \in BOOLEAN}
    \cup {[mem EXCEPT !.routes[r].keys = @ \cup {q}] :
        r \in DOMAIN mem.routes, q \in DOMAIN mem.queues}
    \cup {[mem EXCEPT !.channels = With(@, c, [durable |-> d])] :
        c \in Channels \ DOMAIN mem.channels, d \in BOOLEAN}
    \cup {[mem EXCEPT !.users[u] = @ + 1] :
        u \in {v \in Users : mem.users[v] = 0}}

-----------------------------------------------------------------------------
(* Writing and reading *)

Section(type, objects) == [type |-> type, objects |-> objects]

(* Users with EG_USER_NOT_CHANGE_PERM are left out: the administrator that *)
(* init_admin makes, and those that user_create makes with that bit, which *)
(* are lost at a restart.  Users stands for the ones without it; module    *)
(* Users has both.                                                         *)
storage_save_users(m) == Section("user", [u \in Users |-> m.users[u]])

Durable(f) == {x \in DOMAIN f : f[x].durable}

(* Mutant: the newest message is written first. *)
storage_save_queues_forward(m) ==
    Section("queue", [q \in Durable(m.queues) |-> m.queues[q].messages])

(* The list s from its tail. *)
FromTail(s) == [i \in 1 .. Len(s) |-> s[Len(s) - i + 1]]

(* The messages are written from the tail, the oldest first. *)
storage_save_queues(m) ==
    Section("queue",
            [q \in Durable(m.queues) |-> FromTail(m.queues[q].messages)])

(* A binding is the name of the queue. *)
storage_save_routes(m) ==
    Section("route", [r \in Durable(m.routes) |-> m.routes[r].keys])

storage_save_channels(m) ==
    Section("channel", [c \in Durable(m.channels) |-> Null])

(* What storage_save writes. *)
Written(m) ==
    <<storage_save_users(m), storage_save_queues(m),
      storage_save_routes(m), storage_save_channels(m)>>

(* The messages are pushed in the order in which they were written. *)
storage_load_queue(value) ==
    LET after[i \in 0 .. Len(value)] ==   \* the first i are pushed
          IF i = 0 THEN << >>
          ELSE push_message_queue_t(after[i - 1], value[i])
    IN  [durable |-> TRUE, messages |-> after[Len(value)]]

(* storage_load_route_key_queues: names that find_queue_t does not find    *)
(* are passed over.                                                        *)
storage_load_route(m, value) ==
    [durable |-> TRUE, keys |-> value \cap DOMAIN m.queues]

(* storage_load: the objects of a section, which do not depend on each     *)
(* other                                                                   *)
LoadSection(m, s) ==
    LET o == s.objects
    IN  CASE s.type = "user" ->
               [m EXCEPT !.users = [u \in DOMAIN m.users |->
                    m.users[u] + (IF u \in DOMAIN o THEN o[u] ELSE 0)]]
          [] s.type = "queue" ->
               [m EXCEPT !.queues = And(@,
                    [q \in DOMAIN o |-> storage_load_queue(o[q])])]
          [] s.type = "route" ->
               [m EXCEPT !.routes = And(@,
                    [r \in DOMAIN o |-> storage_load_route(m, o[r])])]
          [] OTHER ->
               [m EXCEPT !.channels = And(@,
                    [c \in DOMAIN o |-> [durable |-> TRUE]])]

Load(m, f) ==
    IF f = Null THEN m
    ELSE LoadSection(LoadSection(LoadSection(LoadSection(
             m, f.sections[1]), f.sections[2]), f.sections[3]), f.sections[4])

(* The temporary file in which a process is going to save the memory m of  *)
(* the time at.  None of the sections is sure to be in it yet.             *)
File(m, at) == [sections |-> << >>, origin |-> m, at |-> at, lost |-> FALSE]

(* storage_save: everything was written, and fflush writes what is still   *)
(* buffered, or fails, which is not looked at.  What is then in the file   *)
(* is a part of the sections and no load can use it.                       *)
Flush(f, done) ==
    [sections |-> IF done THEN Written(f.origin) ELSE << >>,
     origin   |-> IF done THEN f.origin ELSE Null,
     at       |-> f.at,
     lost     |-> ~ done]

-----------------------------------------------------------------------------
StorageInit ==
    /\ mem = Null
    /\ file = Null
    /\ child_pid = Null
    /\ procs = [p \in Pids |-> Null]
    /\ time = 0
    /\ overtaken = FALSE

Up == mem # Null

(* init_admin *)
Fresh == [NoMemory EXCEPT !.users[Admin] = 1]

Complete(f) == f.sections # << >>

(* What a server that starts makes of the file f: of one that is not       *)
(* complete nothing, the process ends (fatal).                             *)
Loaded(f) == IF f # Null /\ ~ Complete(f) THEN Null ELSE Load(Fresh, f)

(* main: the server starts with an administrator.  init_storage makes the  *)
(* storage file if there is none, which may fail, and loads it.            *)
Start ==
    /\ ~ Up
    /\ file' \in IF file # Null THEN {file}
                ELSE {Null} \cup {Flush(File(Fresh, time), done) : done \in BOOLEAN}
    /\ mem' = Loaded(file')
    /\ UNCHANGED <<child_pid, procs, time, overtaken>>

(* A request changes the objects. *)
Change ==
    /\ Up
    /\ time < MaxTime
    /\ mem' \in Changes
    /\ time' = time + 1
    /\ UNCHANGED <<file, child_pid, procs, overtaken>>

(* The processes that may still rename their file. *)
Saving == {p \in Pids : procs[p] # Null /\ procs[p].phase # "exited"}

(* save with async = 0, storage_save in the server: its steps are those of *)
(* a child (below), and of the others none but the rename can be seen.     *)
Save(done) ==
    /\ Up
    /\ file' = Flush(File(mem, time), done)
    /\ overtaken' = (overtaken \/ Saving # {})
    /\ UNCHANGED <<mem, child_pid, procs, time>>

(* Mutant: a second child is forked. *)
storage_save_background_again(pid, p) ==
    /\ procs[p] = Null
    /\ child_pid' = p
    /\ procs' = [procs EXCEPT ![p] =
                   [file |-> File(mem, time), phase |-> "saving"]]

(* storage_save_background when server->child_pid is pid: the child p has  *)
(* a copy of the memory.                                                   *)
storage_save_background(pid, p) ==
    /\ pid = Null
    /\ procs[p] = Null
    /\ child_pid' = p
    /\ procs' = [procs EXCEPT ![p] =
                   [file |-> File(mem, time), phase |-> "saving"]]

(* save with async = 1 *)
SaveAsync(p) ==
    /\ Up
    /\ storage_save_background(child_pid, p)
    /\ UNCHANGED <<mem, file, time, overtaken>>

Exited(p) == p # Null /\ procs[p].phase = "exited"

(* server_updater, storage_timeout: the child that has ended is waited for *)
(* (wait3).                                                                *)
Reap ==
    /\ Up
    /\ Exited(child_pid)
    /\ procs' = [procs EXCEPT ![child_pid] = Null]
    /\ child_pid' = Null
    /\ UNCHANGED <<mem, file, time, overtaken>>

(* The same, and it is time for the next save: another child is forked, in *)
(* the same run if the last one has been waited for.                       *)
StorageTimeout(p) ==
    /\ Up
    /\ AutoSave
    /\ IF Exited(child_pid)
       THEN /\ procs[p] = Null
            /\ child_pid' = p
            /\ procs' = [procs EXCEPT ![child_pid] = Null, ![p] =
                   [file |-> File(mem, time), phase |-> "saving"]]
       ELSE storage_save_background(child_pid, p)
    /\ UNCHANGED <<mem, file, time, overtaken>>

-----------------------------------------------------------------------------
(* The child *)

(* The child of the server stays until the server waits for it. *)
End(p) ==
    procs' = [procs EXCEPT ![p] =
        IF child_pid = p THEN [file |-> Null, phase |-> "exited"] ELSE Null]

(* Everything is written to the temporary file, which is flushed. *)
Write(p, done) ==
    /\ procs[p] # Null /\ procs[p].phase = "saving"
    /\ procs' = [procs EXCEPT ![p] =
                   [file |-> Flush(@.file, done), phase |-> "written"]]
    /\ UNCHANGED <<mem, file, child_pid, time, overtaken>>

(* Mutant: the file is renamed before it is flushed. *)
RenameFirst(p) ==
    /\ p \in Saving
    /\ file' = procs[p].file
    /\ End(p)
    /\ UNCHANGED <<mem, child_pid, time, overtaken>>

(* The temporary file becomes the storage, and the child exits. *)
Rename(p) ==
    /\ procs[p] # Null /\ procs[p].phase = "written"
    /\ file' = procs[p].file
    /\ End(p)
    /\ UNCHANGED <<mem, child_pid, time, overtaken>>

(* A write or the rename fails, or the child is killed. *)
Fail(p) ==
    /\ p \in Saving
    /\ End(p)
    /\ UNCHANGED <<mem, file, child_pid, time, overtaken>>

(* main, destroy_server: the child is killed. *)
Shutdown ==
    /\ Up
    /\ mem' = Null
    /\ child_pid' = Null
    /\ procs' = IF child_pid = Null THEN procs
                ELSE [procs EXCEPT ![child_pid] = Null]
    /\ UNCHANGED <<file, time, overtaken>>

(* The server is killed, or the machine stops: of the children, those in S *)
(* go on.                                                                  *)
Crash(S) ==
    /\ Up
    /\ mem' = Null
    /\ child_pid' = Null
    /\ procs' = [p \in Pids |-> IF p \in S THEN procs[p] ELSE Null]
    /\ overtaken' = (overtaken \/ S # {})
    /\ UNCHANGED <<file, time>>

StorageNext ==
    \/ Start
    \/ Change
    \/ \E done \in BOOLEAN : Save(done)
    \/ Reap
    \/ \E p \in Pids :
          \/ SaveAsync(p) \/ StorageTimeout(p)
          \/ \E done \in BOOLEAN : Write(p, done)
          \/ Rename(p) \/ Fail(p)
    \/ Shutdown
    \/ \E S \in SUBSET Saving : Crash(S)

StorageSpec == StorageInit /\ [][StorageNext]_storageVars

-----------------------------------------------------------------------------
(* Properties *)

(* The next start can read the storage file, whichever process was killed, *)
(* whichever write or rename failed and whichever server died while it was *)
(* saved.  The one way to a file that a start cannot read is that its own  *)
(* flush failed, which storage_save does not notice.                       *)
Loadable == file # Null => Complete(file) \/ file.lost

(* The messages of a restored queue, if the saved one had messages s.      *)
Kept(s) ==
    IF Len(s) <= max_msg THEN s
    ELSE IF force_push THEN SubSeq(s, 1, max_msg)
    ELSE SubSeq(s, Len(s) - max_msg + 1, Len(s))

(* A server starts with what some server had when it saved: the durable    *)
(* queues with their messages in order, the durable routes with those of   *)
(* their bindings that are to durable queues, the durable channels, the    *)
(* users and one administrator.  Of a queue that was over max_msg, as one  *)
(* can be when messages come back, only max_msg messages are restored.     *)
Restored ==
    [][mem = Null /\ mem' # Null /\ file' # Null =>
        LET o == file'.origin
        IN  /\ mem'.users = o.users
            /\ DOMAIN mem'.queues = Durable(o.queues)
            /\ \A q \in Durable(o.queues) :
                 mem'.queues[q].messages = Kept(o.queues[q].messages)
            /\ DOMAIN mem'.routes = Durable(o.routes)
            /\ \A r \in Durable(o.routes) :
                 mem'.routes[r].keys =
                     {q \in o.routes[r].keys : o.queues[q].durable}
            /\ DOMAIN mem'.channels = Durable(o.channels)]_storageVars

(* The storage never goes back to an older state of the memory: one save   *)
(* in the background at a time.  Excepted is what happens after a save in  *)
(* the server, or its death, while a child was saving: the child's older   *)
(* file may then replace a newer one.                                      *)
NeverOlder ==
    [][file # Null /\ file' # Null /\ ~ overtaken' => file'.at >= file.at]_storageVars
=============================================================================

------------------------------- MODULE Charla -------------------------------
(***************************************************************************)
(* The Charla chat server (hw5): one service thread per connection, the    *)
(* client registry, the user registry and client_login / client_logout.    *)
(*                                                                         *)
(* Two different mutexes are called `locker' in the code:                  *)
(*   lockL  the static one of client.c, held by client_login;              *)
(*   lockG  the common symbol that client_registry.c and user_registry.c   *)
(*          share, held by creg_register and ureg_register.                *)
(* client_logout, user_ref, user_unref and client_unref hold neither.      *)
(*                                                                         *)
(* A step of a thread is one access to memory another thread may write;    *)
(* accesses nobody else can come between are one step.  `fault' names the  *)
(* first access through a NULL or freed pointer, after which nothing is    *)
(* modelled.                                                               *)
(***************************************************************************)
EXTENDS Integers, Sequences, FiniteSets

CONSTANTS
  Conn,        \* the connections the server accepts, one service thread each
  Client,      \* the addresses malloc returns for CLIENT objects
  Handle,      \* the handles users log in under
  Fd,          \* the descriptors the kernel hands out, numbers
  MaxClients,  \* MAX_CLIENTS: the slots of the registry
  UserCap,     \* the USER pointers that fit in what ureg_init allocates
  Wants,       \* Wants[t]: the handles connection t tries to log in under
  MaxReq,      \* bound: requests per connection
  Lists,       \* bound: whether clients send USERS and SEND requests
  None         \* NULL, no owner, no fault, not open

Slot == 0 .. MaxClients - 1

Faults == {"logout", "scan", "mailbox", "array", "user", "full"}

ASSUME CharlaAssumption ==
  /\ MaxClients \in Nat \ {0}
  /\ Fd \subseteq Nat
  /\ Wants \in [Conn -> SUBSET Handle]
  /\ MaxReq \in Nat
  /\ UserCap \in Nat
  /\ Lists \in BOOLEAN
  /\ None \notin Conn \union Client \union Handle \union Fd \union Slot
  /\ None \notin Faults

VARIABLES
  slots,       \* CLIENT_REGISTRY.clients
  client,      \* the CLIENT objects
  alloc,       \* the CLIENT objects that exist
  users,       \* USER_REGISTRY.users: the handles in order of creation
  count,       \* count[h]: ref_count of the USER with handle h
  freed,       \* the handles whose USER object has been freed
  lockL, lockG,
  pc, fd, mine, want, idx, new, put, seen, reqs,   \* thread-local state
  fault

registry == <<slots, client, alloc>>
userdb   == <<users, count, freed>>
locks    == <<lockL, lockG>>
locals   == <<fd, mine, want, idx, new, put, seen, reqs>>
vars     == <<registry, userdb, locks, pc, locals, fault>>

Fresh == [user |-> None, ref |-> 2, fd |-> None, mail |-> "unset", logged |-> FALSE]

Init ==
  /\ slots = [s \in Slot |-> None]
  /\ client = [c \in Client |-> Fresh]
  /\ alloc = {}
  /\ users = <<>>
  /\ count = [h \in Handle |-> 0]
  /\ freed = {}
  /\ lockL = None
  /\ lockG = None
  /\ pc = [t \in Conn |-> "off"]
  /\ fd = [t \in Conn |-> None]
  /\ mine = [t \in Conn |-> None]
  /\ want = [t \in Conn |-> None]
  /\ idx = [t \in Conn |-> 0]
  /\ new = [t \in Conn |-> None]
  /\ put = [t \in Conn |-> 0]
  /\ seen = [t \in Conn |-> 0]
  /\ reqs = [t \in Conn |-> 0]
  /\ fault = None

At(t, l) == pc[t] = l /\ fault = None
Goto(t, l) == pc' = [pc EXCEPT ![t] = l]

(* The step that uses a NULL or freed pointer, or writes past an array.    *)
Crash(why) == /\ fault' = why
              /\ UNCHANGED <<registry, userdb, locks, pc, locals>>

(* Mutants of NextSlot: one slot too many; the scan starts again.          *)
NextSlot_past(t, first, l) ==
  IF idx[t] + 1 \in 0 .. MaxClients
  THEN idx' = [idx EXCEPT ![t] = idx[t] + 1] /\ Goto(t, first)
  ELSE idx' = [idx EXCEPT ![t] = 0] /\ Goto(t, l)

NextSlot_again(t, first, l) ==
  /\ idx' = [idx EXCEPT ![t] = IF idx[t] + 1 \in Slot THEN idx[t] + 1 ELSE 0]
  /\ Goto(t, first)

(* for (i = 0; i < MAX_CLIENTS; i++): the next slot, or on to label l.     *)
NextSlot(t, first, l) ==
  IF idx[t] + 1 \in Slot
  THEN /\ idx' = [idx EXCEPT ![t] = idx[t] + 1]
       /\ Goto(t, first)
  ELSE /\ idx' = [idx EXCEPT ![t] = 0]
       /\ Goto(t, l)
-----------------------------------------------------------------------------
(* main: Accept returns the lowest descriptor that is not open, and a      *)
(* service thread starts, which registers the connection first.            *)
OpenFds == {fd[t] : t \in Conn} \ {None}

Accept(t) ==
  /\ At(t, "off")
  /\ \E f \in Fd \ OpenFds :
       /\ \A g \in Fd \ OpenFds : f <= g
       /\ fd' = [fd EXCEPT ![t] = f]
  /\ Goto(t, "creg")
  /\ UNCHANGED <<registry, userdb, locks, mine, want, idx, new, put, seen, reqs, fault>>

(* creg_register up to the choice of a slot: the lock, client_create,      *)
(* client_ref, and the first slot that is NULL.  Reached from the service  *)
(* thread and from the third loop of client_login.                         *)
FreeSlots == {s \in Slot : slots[s] = None}
NewClient == CHOOSE c \in Client : c \notin alloc

creg_register(t, from, to) ==
  /\ At(t, from)
  /\ lockG = None
  /\ alloc # Client
  /\ alloc' = alloc \union {NewClient}
  /\ client' = [client EXCEPT ![NewClient] = [Fresh EXCEPT !.fd = fd[t]]]
  /\ \E s \in FreeSlots :
       /\ \A r \in FreeSlots : s <= r
       /\ new' = [new EXCEPT ![t] = NewClient]
       /\ put' = [put EXCEPT ![t] = s]
  /\ lockG' = t
  /\ Goto(t, to)
  /\ UNCHANGED <<slots, userdb, lockL, fd, mine, want, idx, seen, reqs, fault>>

(* No slot is NULL: the new object is leaked and NULL is returned.  The    *)
(* service thread closes the connection; client_login stores the NULL in   *)
(* the slot it found empty and dereferences it.                            *)
creg_register_full(t) ==
  /\ lockG = None
  /\ FreeSlots = {}
  /\ alloc # Client
  /\ alloc' = alloc \union {NewClient}
  /\ client' = [client EXCEPT ![NewClient] = [Fresh EXCEPT !.fd = fd[t]]]
  /\ \/ /\ At(t, "creg")
        /\ fd' = [fd EXCEPT ![t] = None]
        /\ Goto(t, "refused")
        /\ UNCHANGED <<slots, fault>>
     \/ /\ At(t, "freeReg")
        /\ slots' = [slots EXCEPT ![idx[t]] = None]
        /\ fault' = "full"
        /\ UNCHANGED <<fd, pc>>
  /\ UNCHANGED <<userdb, locks, mine, want, idx, new, put, seen, reqs>>

(* cr->clients[i] = new_client, unlock, return new_client.                 *)
creg_store(t) ==
  /\ slots' = [slots EXCEPT ![put[t]] = new[t]]
  /\ lockG' = None
  /\ \/ /\ At(t, "cregPut")
        /\ mine' = [mine EXCEPT ![t] = new[t]]
        /\ Goto(t, "idle")
     \/ /\ At(t, "freePut")
        /\ Goto(t, "freeSet")
        /\ UNCHANGED mine
  /\ UNCHANGED <<client, alloc, userdb, lockL, fd, want, idx, new, put, seen, reqs, fault>>
-----------------------------------------------------------------------------
(* The service thread takes the next packet.  A LOGIN is refused unless    *)
(* client_get_user returns NULL, a LOGOUT is refused if it does.           *)
Receive(t, l) ==
  /\ At(t, "idle")
  /\ reqs[t] < MaxReq
  /\ reqs' = [reqs EXCEPT ![t] = reqs[t] + 1]
  /\ Goto(t, l)
  /\ UNCHANGED <<registry, userdb, locks, fd, mine, new, put, seen, fault>>

LoginRequest(t) ==
  \E h \in Wants[t] :
    /\ Receive(t, IF client[mine[t]].user = None THEN "ureg" ELSE "idle")
    /\ want' = [want EXCEPT ![t] = h]
    /\ UNCHANGED idx

LogoutRequest(t) ==
  /\ Receive(t, IF client[mine[t]].user # None THEN "logout" ELSE "idle")
  /\ idx' = [idx EXCEPT ![t] = 0]
  /\ UNCHANGED want

(* End of file: close(fd) first, then the logout if client_get_user        *)
(* returns a user, then client_unref and creg_unregister.                  *)
Eof(t) ==
  /\ At(t, "idle")
  /\ fd' = [fd EXCEPT ![t] = None]
  /\ Goto(t, "eof")
  /\ UNCHANGED <<registry, userdb, locks, mine, want, idx, new, put, seen, reqs, fault>>

EofLogout(t) ==
  /\ At(t, "eof")
  /\ Goto(t, IF client[mine[t]].user # None THEN "logout" ELSE "unref")
  /\ idx' = [idx EXCEPT ![t] = 0]
  /\ UNCHANGED <<registry, userdb, locks, fd, mine, want, new, put, seen, reqs, fault>>

(* creg_unregister returns 0 and does nothing else.                        *)
creg_unregister(t) == UNCHANGED slots

client_unref(t) ==
  /\ At(t, "unref")
  /\ client' = [client EXCEPT ![mine[t]].ref = @ - 1]
  /\ creg_unregister(t)
  /\ Goto(t, "done")
  /\ UNCHANGED <<alloc, userdb, locks, locals, fault>>

(* USERS and SEND treat the result of creg_all_clients as their own copy:  *)
(* they drop a reference of every CLIENT in it and free the array, which   *)
(* is the registry itself.                                                 *)
creg_all_clients_freed(t) ==
  /\ Lists
  /\ At(t, "idle")
  /\ Crash("array")
-----------------------------------------------------------------------------
(* ureg_register: everything but the reference count is under lockG.       *)
UserAt(h) == \E k \in 1 .. Len(users) : users[k] = h

(* A freed USER the scan reads before it finds h.                          *)
ScanFreed(h) ==
  \E k \in 1 .. Len(users) :
    /\ users[k] \in freed
    /\ \A j \in 1 .. k - 1 : users[j] # h

(* Mutant of ureg_register: the lookup does not wait for the mutex.        *)
ureg_register_unlocked(t) ==
  /\ At(t, "ureg")
  /\ ~ScanFreed(want[t])
  /\ seen' = [seen EXCEPT ![t] = count[want[t]]]
  /\ lockG' = t
  /\ Goto(t, IF UserAt(want[t]) THEN "userRef" ELSE "userNew")
  /\ UNCHANGED <<registry, userdb, lockL, fd, mine, want, idx, new, put, reqs, fault>>

ureg_register(t) ==
  /\ At(t, "ureg")
  /\ lockG = None
  /\ IF ScanFreed(want[t])
     THEN Crash("user")
     ELSE IF UserAt(want[t])
     THEN (* user_ref: the count is read *)
          /\ seen' = [seen EXCEPT ![t] = count[want[t]]]
          /\ lockG' = t
          /\ Goto(t, "userRef")
          /\ UNCHANGED <<registry, userdb, lockL, fd, mine, want, idx, new, put, reqs, fault>>
     ELSE /\ lockG' = t
          /\ Goto(t, "userNew")
          /\ UNCHANGED <<registry, userdb, lockL, locals, fault>>

(* user_create, user_ref and the new entry.  The array never grows, so     *)
(* users[user_count] = NULL can fall outside what malloc returned for it.  *)
user_create(t) ==
  /\ At(t, "userNew")
  /\ IF Len(users) + 1 < UserCap
     THEN /\ users' = Append(users, want[t])
          /\ count' = [count EXCEPT ![want[t]] = 2]
          /\ lockG' = None
          /\ Goto(t, "lockL")
          /\ UNCHANGED <<registry, freed, lockL, locals, fault>>
     ELSE Crash("user")

user_ref(t) ==
  /\ At(t, "userRef")
  /\ count' = [count EXCEPT ![want[t]] = seen[t] + 1]
  /\ lockG' = None
  /\ Goto(t, "lockL")
  /\ UNCHANGED <<registry, users, freed, lockL, locals, fault>>
-----------------------------------------------------------------------------
(* Mutant of LoginLock: client_login does not wait for the mutex.          *)
LoginLock_unlocked(t) ==
  /\ At(t, "lockL")
  /\ lockL' = t
  /\ idx' = [idx EXCEPT ![t] = 0]
  /\ Goto(t, "held")
  /\ UNCHANGED <<registry, userdb, lockG, fd, mine, want, new, put, seen, reqs, fault>>

(* client_login *)
LoginLock(t) ==
  /\ At(t, "lockL")
  /\ lockL = None
  /\ lockL' = t
  /\ idx' = [idx EXCEPT ![t] = 0]
  /\ Goto(t, "held")
  /\ UNCHANGED <<registry, userdb, lockG, fd, mine, want, new, put, seen, reqs, fault>>

LoopStep(t) ==
  UNCHANGED <<registry, userdb, locks, fd, mine, want, new, put, seen, reqs, fault>>

(* Mutant of HeldCmp: the conflict is not noticed.                         *)
HeldCmp_blind(t) ==
  /\ At(t, "heldCmp")
  /\ IF slots[idx[t]] = None \/ client[slots[idx[t]]].user \in freed \union {None}
     THEN Crash("scan")
     ELSE NextSlot(t, "held", "mine") /\ LoopStep(t)

(* Mutant of Held: the first loop does not look for NULL.                  *)
Held_unchecked(t) ==
  /\ At(t, "held")
  /\ Goto(t, "heldUser") /\ UNCHANGED idx
  /\ LoopStep(t)

(* First loop: is somebody logged in under the handle?  Each test reads    *)
(* all_clients[i] again.                                                   *)
Held(t) ==
  /\ At(t, "held")
  /\ IF slots[idx[t]] = None
     THEN NextSlot(t, "held", "mine")
     ELSE Goto(t, "heldUser") /\ UNCHANGED idx
  /\ LoopStep(t)

HeldUser(t) ==
  /\ At(t, "heldUser")
  /\ IF slots[idx[t]] = None
     THEN Crash("scan")
     ELSE /\ IF client[slots[idx[t]]].user = None
             THEN NextSlot(t, "held", "mine")
             ELSE Goto(t, "heldCmp") /\ UNCHANGED idx
          /\ LoopStep(t)

(* The names and then the mark; that all_clients[i] is read for each of     *)
(* them is one step here, though it may be cleared in between.              *)
HeldCmp(t) ==
  /\ At(t, "heldCmp")
  /\ LET c == slots[idx[t]] IN
     IF c = None
     THEN Crash("scan")
     ELSE IF client[c].user \in freed \union {None}
     THEN Crash("scan")
     ELSE IF client[c].user = want[t] /\ client[c].logged
     THEN (* unlock, return -1: NACK *)
          /\ lockL' = None
          /\ Goto(t, "idle")
          /\ UNCHANGED <<registry, userdb, lockG, locals, fault>>
     ELSE NextSlot(t, "held", "mine") /\ LoopStep(t)

(* Mutant of MineFd: any CLIENT that is not logged in will do.             *)
MineFd_any(t) ==
  /\ At(t, "mineFd")
  /\ LET c == slots[idx[t]] IN
     IF c = None
     THEN Crash("scan")
     ELSE /\ IF ~client[c].logged
             THEN Goto(t, "setUser") /\ UNCHANGED idx
             ELSE NextSlot(t, "mine", "free")
          /\ LoopStep(t)

(* Second loop: a registered, not yet logged CLIENT with this descriptor.  *)
Mine(t) ==
  /\ At(t, "mine")
  /\ IF slots[idx[t]] = None
     THEN NextSlot(t, "mine", "free")
     ELSE Goto(t, "mineFd") /\ UNCHANGED idx
  /\ LoopStep(t)

(* Descriptor and mark, which read all_clients[i] each, are one step here.  *)
MineFd(t) ==
  /\ At(t, "mineFd")
  /\ LET c == slots[idx[t]] IN
     IF c = None
     THEN Crash("scan")
     ELSE /\ IF client[c].fd = fd[t] /\ ~client[c].logged
             THEN Goto(t, "setUser") /\ UNCHANGED idx
             ELSE NextSlot(t, "mine", "free")
          /\ LoopStep(t)

(* Third loop: the first slot that is NULL takes a new CLIENT.             *)
Free(t) ==
  /\ At(t, "free")
  /\ IF slots[idx[t]] = None
     THEN Goto(t, "freeReg") /\ UNCHANGED idx /\ LoopStep(t)
     ELSE IF idx[t] + 1 \in Slot
     THEN NextSlot(t, "free", "free") /\ LoopStep(t)
     ELSE (* unlock, return -1: NACK *)
          /\ lockL' = None
          /\ Goto(t, "idle")
          /\ UNCHANGED <<registry, userdb, lockG, locals, fault>>

FreeSet(t) ==
  /\ At(t, "freeSet")
  /\ slots' = [slots EXCEPT ![idx[t]] = new[t]]
  /\ Goto(t, "setUser")
  /\ UNCHANGED <<client, alloc, userdb, locks, locals, fault>>

(* all_clients[i]'s fd, user and ref_count; the third loop leaves the      *)
(* ref_count of its new CLIENT at 2, which is what mine[t] has too.        *)
SetUser(t) ==
  /\ At(t, "setUser")
  /\ LET c == slots[idx[t]] IN
     IF c = None
     THEN Crash("scan")
     ELSE /\ client' = [client EXCEPT ![c] = [@ EXCEPT !.fd = fd[t], !.user = want[t],
                                                        !.ref = client[mine[t]].ref]]
          /\ Goto(t, "setMark")
          /\ UNCHANGED <<slots, alloc, userdb, locks, locals, fault>>

(* logged = 1, mail = mb_init(handle), mb_ref, unlock, return 0            *)
SetMark(t) ==
  /\ At(t, "setMark")
  /\ LET c == slots[idx[t]] IN
     IF c = None
     THEN Crash("scan")
     ELSE /\ client' = [client EXCEPT ![c] = [@ EXCEPT !.logged = TRUE, !.mail = "open"]]
          /\ lockL' = None
          /\ Goto(t, "started")
          /\ UNCHANGED <<slots, alloc, userdb, lockG, locals, fault>>

(* The service thread uses the mailbox of its own CLIENT and acknowledges. *)
(* A mailbox that was never set or already freed may or may not crash it.  *)
Started(t) ==
  /\ At(t, "started")
  /\ \/ /\ client[mine[t]].mail # "open"
        /\ Crash("mailbox")
     \/ /\ Goto(t, "idle")
        /\ UNCHANGED <<registry, userdb, locks, locals, fault>>
-----------------------------------------------------------------------------
(* client_logout: no lock.  Every slot up to the match is dereferenced.    *)
AfterLogout(t) == IF fd[t] = None THEN "unref" ELSE "idle"

Logout(t) ==
  /\ At(t, "logout")
  /\ LET c == slots[idx[t]]
         u == client[mine[t]].user IN
     IF c = None
     THEN Crash("logout")
     ELSE IF {client[c].user, u} \cap (freed \union {None}) # {}
     THEN Crash("logout")
     ELSE IF client[c].user = u
     THEN (* user_unref: the count is read *)
          /\ seen' = [seen EXCEPT ![t] = count[u]]
          /\ Goto(t, "userUnref")
          /\ UNCHANGED <<registry, userdb, locks, fd, mine, want, idx, new, put, reqs, fault>>
     ELSE IF idx[t] + 1 \in Slot
     THEN NextSlot(t, "logout", "logout") /\ LoopStep(t)
     ELSE (* unlocks the mutex of client.c without holding it *)
          /\ lockL' = None
          /\ Goto(t, AfterLogout(t))
          /\ UNCHANGED <<registry, userdb, lockG, locals, fault>>

user_unref(t) ==
  /\ At(t, "userUnref")
  /\ count' = [count EXCEPT ![client[mine[t]].user] = seen[t] - 1]
  /\ Goto(t, "userTest")
  /\ UNCHANGED <<registry, users, freed, locks, locals, fault>>

user_free(t) ==
  /\ At(t, "userTest")
  /\ LET u == client[mine[t]].user IN
     freed' = IF count[u] = 0 THEN freed \union {u} ELSE freed
  /\ Goto(t, "clearUser")
  /\ UNCHANGED <<registry, users, count, locks, locals, fault>>

ClearUser(t) ==
  /\ At(t, "clearUser")
  /\ client' = [client EXCEPT ![mine[t]].user = None]
  /\ Goto(t, "clearSlot")
  /\ UNCHANGED <<slots, alloc, userdb, locks, locals, fault>>

(* Mutant of ClearSlot: the success path of client_logout unlocks, too.    *)
ClearSlot_unlocks(t) ==
  /\ At(t, "clearSlot")
  /\ client' = [client EXCEPT ![mine[t]].mail = "shut"]
  /\ slots' = [slots EXCEPT ![idx[t]] = None]
  /\ lockL' = None
  /\ Goto(t, AfterLogout(t))
  /\ UNCHANGED <<alloc, userdb, lockG, locals, fault>>

(* mb_unref, mb_shutdown, all_clients[i] = NULL, return 0                  *)
ClearSlot(t) ==
  /\ At(t, "clearSlot")
  /\ \/ /\ client[mine[t]].mail # "open"
        /\ Crash("mailbox")
     \/ /\ client' = [client EXCEPT ![mine[t]].mail = "shut"]
        /\ slots' = [slots EXCEPT ![idx[t]] = None]
        /\ Goto(t, AfterLogout(t))
        /\ UNCHANGED <<alloc, userdb, locks, locals, fault>>
-----------------------------------------------------------------------------
Login(t) ==
  \/ ureg_register(t) \/ user_ref(t) \/ user_create(t) \/ LoginLock(t)
  \/ Held(t) \/ HeldUser(t) \/ HeldCmp(t)
  \/ Mine(t) \/ MineFd(t)
  \/ Free(t) \/ creg_register(t, "freeReg", "freePut") \/ FreeSet(t)
  \/ SetUser(t) \/ SetMark(t) \/ Started(t)

client_logout(t) == \/ Logout(t) \/ user_unref(t) \/ user_free(t)
                    \/ ClearUser(t) \/ ClearSlot(t)

Connect(t) == creg_register(t, "creg", "cregPut") \/ creg_register_full(t) \/ creg_store(t)

Disconnect(t) == EofLogout(t) \/ client_unref(t)

(* What a thread does without waiting for its client.                      *)
Step(t) == Connect(t) \/ Login(t) \/ client_logout(t) \/ Disconnect(t)

(* What the client does.                                                   *)
Environment(t) == Accept(t) \/ LoginRequest(t) \/ LogoutRequest(t) \/ Eof(t)
                  \/ creg_all_clients_freed(t)

(* Nothing more happens after a fault or when every connection has ended.  *)
Halted == /\ fault # None \/ \A t \in Conn : pc[t] \in {"done", "refused"}
          /\ UNCHANGED vars

Next == Halted \/ \E t \in Conn : Environment(t) \/ Step(t)

Spec == Init /\ [][Next]_vars

(* The scheduler runs every thread; clients may stay silent for ever.      *)
FairSpec == Spec /\ \A t \in Conn : WF_vars(Step(t))
-----------------------------------------------------------------------------
(* Labels of the steps taken while a mutex is held.                        *)
UnderG == {"cregPut", "freePut", "userRef", "userNew"}
UnderL == {"held", "heldUser", "heldCmp", "mine", "mineFd", "free", "freeReg",
           "freePut", "freeSet", "setUser", "setMark"}
Waits  == {"off", "idle", "done", "refused"}
Labels == UnderG \union UnderL \union Waits \union
          {"creg", "ureg", "lockL", "started", "eof", "unref", "logout",
           "userUnref", "userTest", "clearUser", "clearSlot"}

ClientRec == [user : Handle \union {None}, ref : Int, fd : Fd \union {None},
              logged : BOOLEAN, mail : {"unset", "open", "shut"}]

TypeOK ==
  /\ slots \in [Slot -> Client \union {None}]
  /\ client \in [Client -> ClientRec]
  /\ alloc \subseteq Client
  /\ users \in Seq(Handle)
  /\ count \in [Handle -> Int]
  /\ freed \subseteq Handle
  /\ lockL \in Conn \union {None}
  /\ lockG \in Conn \union {None}
  /\ pc \in [Conn -> Labels]
  /\ fd \in [Conn -> Fd \union {None}]
  /\ mine \in [Conn -> Client \union {None}]
  /\ want \in [Conn -> Handle \union {None}]
  /\ idx \in [Conn -> Slot]
  /\ new \in [Conn -> Client \union {None}]
  /\ put \in [Conn -> Slot]
  /\ seen \in [Conn -> Int]
  /\ reqs \in [Conn -> Nat]
  /\ fault \in Faults \union {None}

(* No two CLIENTs of the registry are logged in under the same handle, in  *)
(* whatever order registrations, logins, logouts and disconnections meet   *)
(* (the first loop of client_login, client.c:49-62).                       *)
LoggedAs(s, h) ==
  slots[s] # None /\ client[slots[s]].logged /\ client[slots[s]].user = h

OneSessionPerHandle ==
  \A r, s \in Slot, h \in Handle :
    LoggedAs(r, h) /\ LoggedAs(s, h) => slots[r] = slots[s]

(* Threads that register the same new handle at the same time end up with  *)
(* one USER object (ureg_register, user_registry.c:38-59).                *)
OneUserPerHandle ==
  \A j, k \in 1 .. Len(users) : users[j] = users[k] => j = k

(* Only the thread that holds the mutex of client.c releases it, although  *)
(* client_logout unlocks it without taking it (client.c:114).              *)
ReleasedByHolder == \A t \in Conn : lockL = t /\ lockL' # t => pc'[t] # pc[t]
UnlockByOwner    == [][ReleasedByHolder]_vars

(* Every connection has sent one request at most, and none has ended.      *)
LoginsOnly == \A t \in Conn : reqs[t] <= 1 /\ (fd[t] = None => pc[t] \in {"off", "refused"})

(* The first LOGIN of a connection, once acknowledged, has logged in the   *)
(* CLIENT of that connection and no other, as long as nobody has logged    *)
(* out or left, so that no descriptor is in use again (the second loop of  *)
(* client_login, client.c:63-77).                                          *)
LoginMarksCaller ==
  LoginsOnly => \A t \in Conn : pc[t] = "started"
                  => client[mine[t]].logged /\ client[mine[t]].user = want[t]

(* Clients that connect and log in bring no thread to a NULL or freed       *)
(* pointer, whoever's steps come between whose and although registrations   *)
(* change the registry under client_login's scans: that takes a client that *)
(* has left or logged out (client.c:49-106, client_registry.c:35-40).  What *)
(* else stops the server is a full array of users (user_registry.c:55-56)   *)
(* or a request for the list.                                               *)
LoginsKeepPointers ==
  LoginsOnly => \/ fault = None
                \/ fault = "user" /\ Len(users) + 1 >= UserCap
                \/ fault = "array" /\ Lists

(* When client_login succeeds, the CLIENT it was called for is marked as    *)
(* logged in, whoever has come and gone before (client.h:88-89).            *)
SuccessMarks == \A t \in Conn : pc[t] = "started" => client[mine[t]].logged

(* client_login returns, 0 or -1, whoever logs in and out meanwhile, as     *)
(* long as nobody disconnects (client.h:93).                                *)
LoginReturns ==
  (\A t \in Conn : fd[t] = None => pc[t] \in {"off", "refused"}) => fault # "scan"

(* It returns when the registry fills up before its third loop registers,   *)
(* too (client.h:93).                                                       *)
FullReturns == fault # "full"

(* client_logout returns, 0 or -1, whatever the registry holds              *)
(* (client.h:103-104).                                                      *)
LogoutReturns == fault # "logout"

(* Every CLIENT of the registry is that of a connection still served, or    *)
(* one that its thread is about to log in (client_registry.h:90).           *)
OnlyConnected ==
  \A s \in Slot : slots[s] # None =>
    \E t \in Conn : pc[t] \notin {"off", "done", "refused"} /\ slots[s] \in {mine[t], new[t]}

(* Sessions is what Charla implements: the owner of a handle is the CLIENT *)
(* of the registry that is logged in under it.                             *)
Owners(h) == {slots[s] : s \in {r \in Slot : LoggedAs(r, h)}}
Session == [h \in Handle |-> IF Owners(h) = {} THEN None ELSE CHOOSE c \in Owners(h) : TRUE]
Used == {c \in Client : client[c].logged}

Promise == INSTANCE Sessions WITH NoClient <- None, session <- Session, used <- Used

(* The registries, the two locks and the threads implement Sessions.       *)
ImplementsSessions == Promise!Spec

(* USER objects are never freed: entries of the user registry persist for  *)
(* as long as the server runs (user_registry.h:18-19).                     *)
EntriesPersist == freed = {}

(* Every thread finishes what it was asked to do: no lock is left held, no *)
(* two locks are taken in opposite orders.                                 *)
Answered ==
  \A t \in Conn : pc[t] \notin Waits ~> pc[t] \in Waits \/ fault # None
=============================================================================

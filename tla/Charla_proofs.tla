---------------------------- MODULE Charla_proofs ----------------------------
(***************************************************************************)
(* Theorems about Charla for every number of connections, slots, handles   *)
(* and requests.                                                           *)
(***************************************************************************)
EXTENDS Charla, TLAPS

(* The mutex the two registries share is held by the thread whose label    *)
(* says so.                                                                *)
GLock == \A t \in Conn : lockG = t <=> pc[t] \in UnderG

(* So is the mutex of client.c, if only its holder releases it.            *)
LLock == \A t \in Conn : lockL = t <=> pc[t] \in UnderL

(* While a thread is about to append a USER, its handle is not in the      *)
(* registry.                                                               *)
Absent == \A t \in Conn : pc[t] = "userNew" => ~UserAt(want[t])

(* A thread that waits for a user or a mailbox has asked for a handle and  *)
(* has a CLIENT of its own.                                                *)
Asking == \A t \in Conn :
  pc[t] \in (UnderL \union {"ureg", "userRef", "userNew", "lockL", "started"}) => want[t] \in Handle

(* The registry and the threads only point to CLIENTs that were created.   *)
Created ==
  /\ \A s \in Slot : slots[s] # None => slots[s] \in alloc
  /\ \A t \in Conn : mine[t] # None => mine[t] \in alloc
  /\ \A t \in Conn : pc[t] \notin {"off", "creg", "cregPut", "refused"} => mine[t] \in alloc
  /\ \A t \in Conn : pc[t] \in {"cregPut", "freePut", "freeSet"} => new[t] \in alloc

(* A CLIENT that creg_register has created but not stored is nowhere else, *)
(* and stays logged out until client_login has put it in its slot.         *)
Unregistered ==
  \A t \in Conn :
    pc[t] \in {"cregPut", "freePut"}
    => /\ \A s \in Slot : slots[s] # new[t]
       /\ client[new[t]].user = None /\ ~client[new[t]].logged

Reserved ==
  \A t \in Conn : pc[t] = "freeSet" => client[new[t]].user = None /\ ~client[new[t]].logged

(* Threads do not share a CLIENT as their own, or as their new one.        *)
Own ==
  \A t, u \in Conn :
    /\ mine[t] = mine[u] /\ mine[t] # None => t = u
    /\ pc[t] \in {"cregPut", "freePut", "freeSet"} => mine[u] # new[t]
    /\ /\ pc[t] \in {"cregPut", "freePut", "freeSet"}
       /\ pc[u] \in {"cregPut", "freePut", "freeSet"}
       /\ new[t] = new[u]
       => t = u

(* A thread that gives up its USER still has it.                           *)
Leaving ==
  \A t \in Conn : pc[t] \in {"userUnref", "userTest", "clearUser"}
                  => client[mine[t]].user \in Handle

(* How far client_login has got: nobody is logged in under the handle in   *)
(* the slots the first loop has passed, then in any slot.                  *)
Passed(t) == IF pc[t] \in {"held", "heldUser", "heldCmp"} THEN {s \in Slot : s < idx[t]}
             ELSE IF pc[t] \in UnderL THEN Slot ELSE {}

NoConflict == \A t \in Conn : \A s \in Passed(t) : ~LoggedAs(s, want[t])

(* The CLIENT that client_login is marking is logged out until the mark.   *)
Marking ==
  \A t \in Conn :
    pc[t] \in {"setUser", "setMark"} /\ slots[idx[t]] # None
    => /\ ~client[slots[idx[t]]].logged
       /\ pc[t] = "setMark" => client[slots[idx[t]]].user \in {want[t], None}

(* What holds whoever releases the mutex of client.c, and what needs that  *)
(* only its holder does.                                                   *)
Control == /\ GLock /\ Absent /\ Asking /\ Created /\ Own /\ Unregistered /\ Leaving
           /\ OneUserPerHandle

Exclusion == LLock /\ NoConflict /\ Marking /\ Reserved /\ OneSessionPerHandle

(* malloc returns an object that does not exist yet.                       *)
LEMMA FreshClient ==
  ASSUME alloc # Client, alloc \subseteq Client
  PROVE  NewClient \in Client /\ NewClient \notin alloc
BY DEF NewClient

(* Labels and faults, one by one.                                          *)
LEMMA LabelFacts ==
  /\ "cregPut" \in Labels
  /\ "freePut" \in Labels
  /\ "userRef" \in Labels
  /\ "userNew" \in Labels
  /\ "held" \in Labels
  /\ "heldUser" \in Labels
  /\ "heldCmp" \in Labels
  /\ "mine" \in Labels
  /\ "mineFd" \in Labels
  /\ "free" \in Labels
  /\ "freeReg" \in Labels
  /\ "freeSet" \in Labels
  /\ "setUser" \in Labels
  /\ "setMark" \in Labels
  /\ "off" \in Labels
  /\ "idle" \in Labels
  /\ "done" \in Labels
  /\ "refused" \in Labels
  /\ "creg" \in Labels
  /\ "ureg" \in Labels
  /\ "lockL" \in Labels
  /\ "started" \in Labels
  /\ "eof" \in Labels
  /\ "unref" \in Labels
  /\ "logout" \in Labels
  /\ "userUnref" \in Labels
  /\ "userTest" \in Labels
  /\ "clearUser" \in Labels
  /\ "clearSlot" \in Labels
  /\ "logout" \in Faults
  /\ "scan" \in Faults
  /\ "mailbox" \in Faults
  /\ "array" \in Faults
  /\ "user" \in Faults
  /\ "full" \in Faults
BY DEF Labels, UnderG, UnderL, Waits, Faults

(* The scans start inside the registry.                                    *)
LEMMA SlotFacts == 0 \in Slot /\ Slot \subseteq Int
BY CharlaAssumption DEF Slot

(* client_create makes a CLIENT.                                           *)
LEMMA FreshFact == Fresh \in ClientRec
BY DEF ClientRec, Fresh

(* Two fields of a CLIENT.                                                 *)
LEMMA ClientFields ==
  ASSUME NEW c \in ClientRec
  PROVE  c.user \in Handle \union {None} /\ c.ref \in Int
BY DEF ClientRec

(* The three writes of SetUser leave a CLIENT.                             *)
LEMMA SetFields ==
  ASSUME NEW c \in ClientRec, NEW h \in Handle \union {None}, NEW f \in Fd \union {None},
         NEW n \in Int
  PROVE  [c EXCEPT !.fd = f, !.user = h, !.ref = n] \in ClientRec
BY DEF ClientRec

(* So do the writes of the other actions.                                  *)
LEMMA SetOne ==
  ASSUME NEW c \in ClientRec
  PROVE  /\ [c EXCEPT !.user = None] \in ClientRec
         /\ [c EXCEPT !.ref = @ - 1] \in ClientRec
         /\ [c EXCEPT !.mail = "shut"] \in ClientRec
         /\ [c EXCEPT !.logged = TRUE, !.mail = "open"] \in ClientRec
<1>1. [c EXCEPT !.user = None] \in ClientRec
  BY DEF ClientRec
<1>2. [c EXCEPT !.ref = @ - 1] \in ClientRec
  BY DEF ClientRec
<1>3. [c EXCEPT !.mail = "shut"] \in ClientRec
  BY DEF ClientRec
<1>4. [c EXCEPT !.logged = TRUE, !.mail = "open"] \in ClientRec
  BY DEF ClientRec
<1> QED
  BY <1>1, <1>2, <1>3, <1>4

(* A scan that goes on stays inside the registry.                          *)
LEMMA NextSlotType ==
  ASSUME TypeOK, NEW t \in Conn, NEW first \in Labels, NEW l \in Labels, NextSlot(t, first, l)
  PROVE  idx' \in [Conn -> Slot] /\ pc' \in [Conn -> Labels]
BY SlotFacts DEF TypeOK, NextSlot, Goto

(* client_create with a descriptor makes a CLIENT.                         *)
LEMMA FreshFd == ASSUME NEW f \in Fd \union {None} PROVE [Fresh EXCEPT !.fd = f] \in ClientRec
BY FreshFact DEF ClientRec

(* None is no connection, CLIENT, handle, descriptor, slot or fault.       *)
LEMMA NoneFact ==
  /\ None \notin Conn
  /\ None \notin Client
  /\ None \notin Handle
  /\ None \notin Fd
  /\ None \notin Slot
  /\ None \notin Faults
BY CharlaAssumption

(* What the two updates of client_login leave in a CLIENT.                 *)
LEMMA UserSet ==
  ASSUME NEW t \in Conn, SetUser(t), slots[idx[t]] \in Client, client \in [Client -> ClientRec]
  PROVE  /\ \A c \in Client \ {slots[idx[t]]} : client'[c] = client[c]
         /\ slots[idx[t]] # None => client'[slots[idx[t]]].user = want[t]
         /\ slots[idx[t]] # None => client'[slots[idx[t]]].logged = client[slots[idx[t]]].logged
<1> DEFINE d == slots[idx[t]]
           r == [client[d] EXCEPT !.fd = fd[t], !.user = want[t], !.ref = client[mine[t]].ref]
<1>1. d = None => client' = client
  BY DEF SetUser, Crash, registry
<1>2. d # None => client' = [client EXCEPT ![d] = r]
  BY DEF SetUser
<1>3. r.user = want[t] /\ r.logged = client[d].logged
  BY DEF ClientRec
<1> HIDE DEF r
<1> QED
  BY <1>1, <1>2, <1>3

(* SetMark writes one CLIENT and leaves its user alone.                    *)
LEMMA MarkSet ==
  ASSUME NEW t \in Conn, SetMark(t), slots[idx[t]] \in Client, client \in [Client -> ClientRec]
  PROVE  /\ \A c \in Client \ {slots[idx[t]]} : client'[c] = client[c]
         /\ client'[slots[idx[t]]].user = client[slots[idx[t]]].user
<1> DEFINE d == slots[idx[t]]
           r == [client[d] EXCEPT !.logged = TRUE, !.mail = "open"]
<1>1. d = None => client' = client
  BY DEF SetMark, Crash, registry
<1>2. d # None => client' = [client EXCEPT ![d] = r]
  BY DEF SetMark
<1>3. r.user = client[d].user
  BY DEF ClientRec
<1> HIDE DEF r
<1> QED
  BY <1>1, <1>2, <1>3

(* What a step of client_logout's scan may change.                         *)
LEMMA LogoutMoves ==
  ASSUME NEW t \in Conn, Logout(t)
  PROVE  /\ pc[t] = "logout" /\ UNCHANGED <<slots, client, alloc, mine, want, new>>
         /\ lockL' \in {lockL, None}
         /\ \/ pc' = pc /\ lockL' = lockL /\ idx' = idx
            \/ \E l \in {"logout", "userUnref", "unref", "idle"} : pc' = [pc EXCEPT ![t] = l]
         /\ idx' = idx \/ \E s \in Slot : idx' = [idx EXCEPT ![t] = s]
<1> USE DEF registry, userdb, locks, locals, At, Goto, Crash, LoopStep, NextSlot, AfterLogout
<1> DEFINE c == slots[idx[t]]
           u == client[mine[t]].user
<1>1. CASE c = None \/ {client[c].user, u} \cap (freed \union {None}) # {}
  BY <1>1 DEF Logout
<1>2. CASE c # None /\ {client[c].user, u} \cap (freed \union {None}) = {} /\ client[c].user = u
  BY <1>2 DEF Logout
<1>3. CASE c # None /\ {client[c].user, u} \cap (freed \union {None}) = {} /\ client[c].user # u
  <2>1. CASE idx[t] + 1 \in Slot
    BY <1>3, <2>1 DEF Logout
  <2>2. CASE idx[t] + 1 \notin Slot
    BY <1>3, <2>2, SlotFacts DEF Logout
  <2> QED
    BY <2>1, <2>2
<1> QED
  BY <1>1, <1>2, <1>3

(* Dropping a reference or a mailbox keeps user and mark.                  *)
LEMMA FieldsKept ==
  ASSUME NEW t \in Conn, client_unref(t) \/ ClearSlot(t), client \in [Client -> ClientRec],
         NEW c \in Client
  PROVE  client'[c].user = client[c].user /\ client'[c].logged = client[c].logged
<1> USE DEF registry, Crash, ClientRec
<1>1. CASE client_unref(t)
  BY <1>1 DEF client_unref
<1>2. CASE ClearSlot(t)
  BY <1>2 DEF ClearSlot
<1> QED
  BY <1>1, <1>2

(* A logout only takes users away.                                         *)
LEMMA UserCleared ==
  ASSUME NEW t \in Conn, ClearUser(t), client \in [Client -> ClientRec], NEW c \in Client
  PROVE  client'[c].user \in {client[c].user, None} /\ client'[c].logged = client[c].logged
BY DEF ClearUser, ClientRec

-----------------------------------------------------------------------------
(* Every step keeps the types.                                             *)
LEMMA TypeStep == TypeOK /\ Asking /\ Created /\ Leaving /\ [Next]_vars => TypeOK'
<1> SUFFICES ASSUME TypeOK, Asking, Created, Leaving, [Next]_vars PROVE TypeOK'
  OBVIOUS
<1> USE LabelFacts, SlotFacts, NextSlotType DEF TypeOK, registry, userdb, locks, locals, At,
   Goto, Crash, LoopStep, Receive
<1>0. CASE UNCHANGED vars
  BY <1>0 DEF vars
<1>1. ASSUME NEW t \in Conn, ureg_register(t) PROVE TypeOK'
  <2>0. want[t] \in Handle
    BY <1>1 DEF ureg_register, Asking
  <2>1. [seen EXCEPT ![t] = count[want[t]]] \in [Conn -> Int]
    BY <2>0
  <2>2. CASE ScanFreed(want[t])
    BY <1>1, <2>2 DEF ureg_register
  <2>3. CASE ~ScanFreed(want[t]) /\ UserAt(want[t])
    <3>1. /\ seen' = [seen EXCEPT ![t] = count[want[t]]]
          /\ lockG' = t /\ pc' = [pc EXCEPT ![t] = "userRef"]
          /\ UNCHANGED <<registry, userdb, lockL, fd, mine, want, idx, new, put, reqs, fault>>
      BY <1>1, <2>3 DEF ureg_register
    <3> QED
      BY <2>1, <3>1
  <2>4. CASE ~ScanFreed(want[t]) /\ ~UserAt(want[t])
    BY <1>1, <2>4 DEF ureg_register
  <2> QED
    BY <2>2, <2>3, <2>4
<1>2. ASSUME NEW t \in Conn, user_ref(t) PROVE TypeOK'
  <2>1. seen[t] + 1 \in Int
    OBVIOUS
  <2>2. count' \in [Handle -> Int]
    BY <1>2, <2>1 DEF user_ref
  <2> QED
    BY <1>2, <2>2 DEF user_ref
<1>3. ASSUME NEW t \in Conn, user_create(t) PROVE TypeOK'
  <2>1. 2 \in Int /\ want[t] \in Handle
    BY <1>3 DEF user_create, Asking
  <2>2. Append(users, want[t]) \in Seq(Handle)
    BY <2>1
  <2>3. [count EXCEPT ![want[t]] = 2] \in [Handle -> Int]
    BY <2>1
  <2>4. CASE Len(users) + 1 < UserCap
    <3>1. users' \in Seq(Handle) /\ count' \in [Handle -> Int]
      BY <1>3, <2>2, <2>3, <2>4 DEF user_create
    <3>2. lockG' = None /\ pc' = [pc EXCEPT ![t] = "lockL"]
      BY <1>3, <2>4 DEF user_create
    <3>3. UNCHANGED <<registry, freed, lockL, locals, fault>>
      BY <1>3, <2>4 DEF user_create
    <3> QED
      BY <3>1, <3>2, <3>3
  <2>5. CASE ~(Len(users) + 1 < UserCap)
    BY <1>3, <2>5 DEF user_create
  <2> QED
    BY <2>4, <2>5
<1>4. ASSUME NEW t \in Conn, LoginLock(t) PROVE TypeOK'
  BY <1>4 DEF LoginLock
<1>5. ASSUME NEW t \in Conn, Held(t) PROVE TypeOK'
  <2>1. CASE NextSlot(t, "held", "mine")
    BY <1>5, <2>1 DEF Held
  <2>2. CASE ~NextSlot(t, "held", "mine")
    BY <1>5, <2>2 DEF Held
  <2> QED
    BY <2>1, <2>2
<1>6. ASSUME NEW t \in Conn, HeldUser(t) PROVE TypeOK'
  <2>1. CASE slots[idx[t]] = None
    BY <1>6, <2>1 DEF HeldUser
  <2>2. CASE slots[idx[t]] # None /\ NextSlot(t, "held", "mine")
    BY <1>6, <2>2 DEF HeldUser
  <2>3. CASE slots[idx[t]] # None /\ ~NextSlot(t, "held", "mine")
    BY <1>6, <2>3 DEF HeldUser
  <2> QED
    BY <2>1, <2>2, <2>3
<1>7. ASSUME NEW t \in Conn, HeldCmp(t) PROVE TypeOK'
  <2>1. CASE fault' # fault
    BY <1>7, <2>1 DEF HeldCmp
  <2>2. CASE NextSlot(t, "held", "mine") /\ LoopStep(t)
    BY <1>7, <2>2 DEF HeldCmp
  <2>3. CASE fault' = fault /\ ~(NextSlot(t, "held", "mine") /\ LoopStep(t))
    BY <1>7, <2>3 DEF HeldCmp
  <2> QED
    BY <2>1, <2>2, <2>3
<1>8. ASSUME NEW t \in Conn, Mine(t) PROVE TypeOK'
  <2>1. CASE NextSlot(t, "mine", "free")
    BY <1>8, <2>1 DEF Mine
  <2>2. CASE ~NextSlot(t, "mine", "free")
    BY <1>8, <2>2 DEF Mine
  <2> QED
    BY <2>1, <2>2
<1>9. ASSUME NEW t \in Conn, MineFd(t) PROVE TypeOK'
  <2>1. CASE fault' # fault
    BY <1>9, <2>1 DEF MineFd
  <2>2. CASE NextSlot(t, "mine", "free") /\ fault' = fault
    BY <1>9, <2>2 DEF MineFd
  <2>3. CASE ~NextSlot(t, "mine", "free") /\ fault' = fault
    BY <1>9, <2>3 DEF MineFd
  <2> QED
    BY <2>1, <2>2, <2>3
<1>10. ASSUME NEW t \in Conn, Free(t) PROVE TypeOK'
  <2>1. CASE NextSlot(t, "free", "free") /\ LoopStep(t)
    BY <1>10, <2>1 DEF Free
  <2>2. CASE slots[idx[t]] = None
    BY <1>10, <2>2 DEF Free
  <2>3. CASE slots[idx[t]] # None /\ idx[t] + 1 \notin Slot
    BY <1>10, <2>3 DEF Free
  <2> QED
    BY <1>10, <2>1, <2>2, <2>3 DEF Free
<1>11. ASSUME NEW t \in Conn, FreeSet(t) PROVE TypeOK'
  BY <1>11 DEF FreeSet
<1>12. ASSUME NEW t \in Conn, SetUser(t) PROVE TypeOK'
  <2> DEFINE c == slots[idx[t]]
  <2>1. CASE c = None
    BY <1>12, <2>1 DEF SetUser
  <2>2. CASE c # None
    <3>0. mine[t] \in Client
      BY <1>12 DEF SetUser, Created
    <3>1. client[mine[t]].ref \in Int
      BY <3>0, ClientFields
    <3>3. c \in Client
      BY <2>2
    <3>2. [client[c] EXCEPT !.fd = fd[t], !.user = want[t], !.ref = client[mine[t]].ref] \in ClientRec
      <4>1. client[c] \in ClientRec /\ want[t] \in Handle \union {None} /\ fd[t] \in Fd \union {None}
        BY <3>3
      <4> HIDE DEF c, TypeOK
      <4> QED
        BY ONLY <3>1, <4>1, SetFields
    <3>4. client' = [client EXCEPT ![c] =
                      [client[c] EXCEPT !.fd = fd[t], !.user = want[t], !.ref = client[mine[t]].ref]]
      BY <1>12, <2>2 DEF SetUser
    <3>5. client' \in [Client -> ClientRec]
      BY <3>2, <3>3, <3>4
    <3> QED
      BY <1>12, <2>2, <3>5 DEF SetUser
  <2> QED
    BY <2>1, <2>2
<1>13. ASSUME NEW t \in Conn, SetMark(t) PROVE TypeOK'
  <2> DEFINE c == slots[idx[t]]
  <2>1. CASE c = None
    BY <1>13, <2>1 DEF SetMark
  <2>2. CASE c # None
    <3>1. [client[c] EXCEPT !.logged = TRUE, !.mail = "open"] \in ClientRec
      BY <1>13, <2>2, SetOne
    <3>2. client' \in [Client -> ClientRec]
      BY <1>13, <2>2, <3>1 DEF SetMark
    <3> QED
      BY <1>13, <2>2, <3>2 DEF SetMark
  <2> QED
    BY <2>1, <2>2
<1>14. ASSUME NEW t \in Conn, Started(t) PROVE TypeOK'
  BY <1>14 DEF Started
<1>15. ASSUME NEW t \in Conn, Logout(t) PROVE TypeOK'
  <2> DEFINE c == slots[idx[t]]  u == client[mine[t]].user
  <2>1. CASE c = None \/ {client[c].user, u} \cap (freed \union {None}) # {}
    BY <1>15, <2>1 DEF Logout
  <2>2. CASE ~(c = None \/ {client[c].user, u} \cap (freed \union {None}) # {})
    <3>1. CASE client[c].user = u
      <4>1. client[mine[t]] \in ClientRec /\ u # None
        BY <1>15, <2>2, <3>1 DEF Logout, Created
      <4>2. count[u] \in Int
        BY <4>1, ClientFields
      <4>3. seen' = [seen EXCEPT ![t] = count[u]] /\ pc' = [pc EXCEPT ![t] = "userUnref"]
        BY <1>15, <2>2, <3>1 DEF Logout
      <4>4. UNCHANGED <<registry, userdb, locks, fd, mine, want, idx, new, put, reqs, fault>>
        BY <1>15, <2>2, <3>1 DEF Logout
      <4> QED
        BY <4>2, <4>3, <4>4
    <3>2. CASE client[c].user # u
      <4>1. CASE idx[t] + 1 \in Slot
        BY <1>15, <2>2, <3>2, <4>1 DEF Logout
      <4>2. CASE idx[t] + 1 \notin Slot
        <5>1. AfterLogout(t) \in Labels
          BY DEF AfterLogout
        <5>2. lockL' = None /\ pc' = [pc EXCEPT ![t] = AfterLogout(t)]
          BY <1>15, <2>2, <3>2, <4>2 DEF Logout
        <5>3. UNCHANGED <<registry, userdb, lockG, locals, fault>>
          BY <1>15, <2>2, <3>2, <4>2 DEF Logout
        <5> QED
          BY <5>1, <5>2, <5>3
      <4> QED
        BY <4>1, <4>2
    <3> QED
      BY <3>1, <3>2
  <2> QED
    BY <2>1, <2>2
<1>16. ASSUME NEW t \in Conn, user_unref(t) PROVE TypeOK'
  <2>1. seen[t] - 1 \in Int
    OBVIOUS
  <2>2. count' \in [Handle -> Int]
    BY <1>16, <2>1 DEF user_unref
  <2> QED
    BY <1>16, <2>2 DEF user_unref
<1>17. ASSUME NEW t \in Conn, user_free(t) PROVE TypeOK'
  <2> DEFINE u == client[mine[t]].user
  <2>1. u \in Handle
    BY <1>17 DEF user_free, Leaving
  <2>2. freed' = freed \/ freed' = freed \union {u}
    BY <1>17 DEF user_free
  <2>3. freed' \subseteq Handle
    BY <2>1, <2>2
  <2> QED
    BY <1>17, <2>3 DEF user_free
<1>18. ASSUME NEW t \in Conn, ClearUser(t) PROVE TypeOK'
  <2>1. client' \in [Client -> ClientRec]
    BY <1>18, SetOne DEF ClearUser
  <2> QED
    BY <1>18, <2>1 DEF ClearUser
<1>19. ASSUME NEW t \in Conn, ClearSlot(t) PROVE TypeOK'
  <2>1. mine[t] \in Client
    BY <1>19 DEF ClearSlot, Created
  <2>2. [client[mine[t]] EXCEPT !.mail = "shut"] \in ClientRec
    BY <2>1, SetOne
  <2>3. CASE fault' # fault
    BY <1>19, <2>3 DEF ClearSlot
  <2>4. CASE fault' = fault
    <3>1. client' \in [Client -> ClientRec]
      BY <1>19, <2>2, <2>4 DEF ClearSlot
    <3>2. slots' \in [Slot -> Client \union {None}]
      BY <1>19, <2>4 DEF ClearSlot
    <3>3. AfterLogout(t) \in Labels
      BY DEF AfterLogout
    <3>4. pc' \in [Conn -> Labels]
      BY <1>19, <2>4, <3>3 DEF ClearSlot
    <3>5. UNCHANGED <<alloc, userdb, locks, locals, fault>>
      BY <1>19, <2>4 DEF ClearSlot
    <3> QED
      BY <3>1, <3>2, <3>4, <3>5
  <2> QED
    BY <2>3, <2>4
<1>20. ASSUME NEW t \in Conn, creg_register_full(t) PROVE TypeOK'
  <2>1. NewClient \in Client /\ [Fresh EXCEPT !.fd = fd[t]] \in ClientRec
    BY <1>20, FreshClient, FreshFd DEF creg_register_full
  <2>2. client' \in [Client -> ClientRec] /\ alloc' \subseteq Client
    BY <1>20, <2>1 DEF creg_register_full
  <2>3. UNCHANGED <<userdb, locks, mine, want, idx, new, put, seen, reqs>>
    BY <1>20 DEF creg_register_full
  <2>4. CASE UNCHANGED <<slots, fault>> /\ fd' = [fd EXCEPT ![t] = None]
             /\ pc' = [pc EXCEPT ![t] = "refused"]
    BY <2>2, <2>3, <2>4
  <2>5. CASE slots' = [slots EXCEPT ![idx[t]] = None] /\ fault' = "full" /\ UNCHANGED <<fd, pc>>
    BY <2>2, <2>3, <2>5
  <2> QED
    BY <1>20, <2>4, <2>5 DEF creg_register_full
<1>21. ASSUME NEW t \in Conn, creg_store(t) PROVE TypeOK'
  <2>1. CASE At(t, "cregPut")
    BY <1>21, <2>1 DEF creg_store
  <2>2. CASE At(t, "freePut")
    BY <1>21, <2>2 DEF creg_store
  <2> QED
    BY <1>21, <2>1, <2>2 DEF creg_store
<1>22. ASSUME NEW t \in Conn, EofLogout(t) PROVE TypeOK'
  BY <1>22 DEF EofLogout
<1>23. ASSUME NEW t \in Conn, client_unref(t) PROVE TypeOK'
  <2>1. client' \in [Client -> ClientRec]
    BY <1>23, SetOne DEF client_unref
  <2> QED
    BY <1>23, <2>1 DEF client_unref, creg_unregister
<1>24. ASSUME NEW t \in Conn, Accept(t) PROVE TypeOK'
  BY <1>24 DEF Accept
<1>25. ASSUME NEW t \in Conn, LoginRequest(t) PROVE TypeOK'
  <2>1. PICK h \in Wants[t] : want' = [want EXCEPT ![t] = h]
    BY <1>25 DEF LoginRequest
  <2>2. h \in Handle /\ reqs[t] + 1 \in Nat
    BY CharlaAssumption
  <2> QED
    BY <1>25, <2>1, <2>2 DEF LoginRequest
<1>26. ASSUME NEW t \in Conn, LogoutRequest(t) PROVE TypeOK'
  BY <1>26 DEF LogoutRequest
<1>27. ASSUME NEW t \in Conn, Eof(t) PROVE TypeOK'
  BY <1>27 DEF Eof
<1>28. ASSUME NEW t \in Conn, creg_all_clients_freed(t) PROVE TypeOK'
  BY <1>28 DEF creg_all_clients_freed
<1>29. ASSUME NEW t \in Conn, NEW from \in {"creg", "freeReg"}, NEW to \in {"cregPut", "freePut"},
              creg_register(t, from, to)
       PROVE  TypeOK'
  <2>1. NewClient \in Client /\ [Fresh EXCEPT !.fd = fd[t]] \in ClientRec
    BY <1>29, FreshClient, FreshFd DEF creg_register
  <2> QED
    BY <1>29, <2>1 DEF creg_register, FreeSlots
<1> QED
  BY <1>0, <1>1, <1>2, <1>3, <1>4, <1>5, <1>6, <1>7, <1>8, <1>9, <1>10, <1>11, <1>12, <1>13,
     <1>14, <1>15, <1>16, <1>17, <1>18, <1>19, <1>20, <1>21, <1>22, <1>23, <1>24, <1>25,
     <1>26, <1>27, <1>28, <1>29 DEF Next, Halted, Environment, Step, Connect, Login,
     client_logout, Disconnect

(* Every step keeps: lockG belongs to the thread whose label says so.      *)
LEMMA GLockStep == TypeOK /\ GLock /\ [Next]_vars => GLock'
<1> SUFFICES ASSUME TypeOK, GLock, [Next]_vars PROVE GLock'
  OBVIOUS
<1>a. pc \in [Conn -> Labels] /\ None \notin Conn
  BY NoneFact DEF TypeOK
<1> USE <1>a DEF registry, userdb, locks, locals, At, Goto, Crash, LoopStep, Receive,
   NextSlot, AfterLogout, GLock, UnderG
<1>0. CASE UNCHANGED vars
  BY <1>0 DEF vars
<1>1. ASSUME NEW t \in Conn, ureg_register(t) PROVE GLock'
  BY <1>1 DEF ureg_register
<1>2. ASSUME NEW t \in Conn, user_ref(t) PROVE GLock'
  BY <1>2 DEF user_ref
<1>3. ASSUME NEW t \in Conn, user_create(t) PROVE GLock'
  BY <1>3 DEF user_create
<1>4. ASSUME NEW t \in Conn, LoginLock(t) PROVE GLock'
  BY <1>4 DEF LoginLock
<1>5. ASSUME NEW t \in Conn, Held(t) PROVE GLock'
  BY <1>5 DEF Held
<1>6. ASSUME NEW t \in Conn, HeldUser(t) PROVE GLock'
  BY <1>6 DEF HeldUser
<1>7. ASSUME NEW t \in Conn, HeldCmp(t) PROVE GLock'
  BY <1>7 DEF HeldCmp
<1>8. ASSUME NEW t \in Conn, Mine(t) PROVE GLock'
  BY <1>8 DEF Mine
<1>9. ASSUME NEW t \in Conn, MineFd(t) PROVE GLock'
  BY <1>9 DEF MineFd
<1>10. ASSUME NEW t \in Conn, Free(t) PROVE GLock'
  BY <1>10 DEF Free
<1>11. ASSUME NEW t \in Conn, FreeSet(t) PROVE GLock'
  BY <1>11 DEF FreeSet
<1>12. ASSUME NEW t \in Conn, SetUser(t) PROVE GLock'
  BY <1>12 DEF SetUser
<1>13. ASSUME NEW t \in Conn, SetMark(t) PROVE GLock'
  BY <1>13 DEF SetMark
<1>14. ASSUME NEW t \in Conn, Started(t) PROVE GLock'
  BY <1>14 DEF Started
<1>15. ASSUME NEW t \in Conn, Logout(t) PROVE GLock'
  BY <1>15 DEF Logout
<1>16. ASSUME NEW t \in Conn, user_unref(t) PROVE GLock'
  BY <1>16 DEF user_unref
<1>17. ASSUME NEW t \in Conn, user_free(t) PROVE GLock'
  BY <1>17 DEF user_free
<1>18. ASSUME NEW t \in Conn, ClearUser(t) PROVE GLock'
  BY <1>18 DEF ClearUser
<1>19. ASSUME NEW t \in Conn, ClearSlot(t) PROVE GLock'
  BY <1>19 DEF ClearSlot
<1>20. ASSUME NEW t \in Conn, creg_register_full(t) PROVE GLock'
  BY <1>20 DEF creg_register_full
<1>21. ASSUME NEW t \in Conn, creg_store(t) PROVE GLock'
  BY <1>21 DEF creg_store
<1>22. ASSUME NEW t \in Conn, EofLogout(t) PROVE GLock'
  BY <1>22 DEF EofLogout
<1>23. ASSUME NEW t \in Conn, client_unref(t) PROVE GLock'
  BY <1>23 DEF client_unref
<1>24. ASSUME NEW t \in Conn, Accept(t) PROVE GLock'
  BY <1>24 DEF Accept
<1>25. ASSUME NEW t \in Conn, LoginRequest(t) PROVE GLock'
  BY <1>25 DEF LoginRequest
<1>26. ASSUME NEW t \in Conn, LogoutRequest(t) PROVE GLock'
  BY <1>26 DEF LogoutRequest
<1>27. ASSUME NEW t \in Conn, Eof(t) PROVE GLock'
  BY <1>27 DEF Eof
<1>28. ASSUME NEW t \in Conn, creg_all_clients_freed(t) PROVE GLock'
  BY <1>28 DEF creg_all_clients_freed
<1>29. ASSUME NEW t \in Conn, creg_register(t, "creg", "cregPut") PROVE GLock'
  BY <1>29 DEF creg_register
<1>30. ASSUME NEW t \in Conn, creg_register(t, "freeReg", "freePut") PROVE GLock'
  BY <1>30 DEF creg_register
<1> QED
  BY <1>0, <1>1, <1>2, <1>3, <1>4, <1>5, <1>6, <1>7, <1>8, <1>9, <1>10, <1>11, <1>12, <1>13,
     <1>14, <1>15, <1>16, <1>17, <1>18, <1>19, <1>20, <1>21, <1>22, <1>23, <1>24, <1>25,
     <1>26, <1>27, <1>28, <1>29, <1>30
  DEF Next, Halted, Environment, Step, Connect, Login, client_logout, Disconnect

(* Every step keeps: a handle about to be appended is not registered.      *)
LEMMA AbsentStep == TypeOK /\ GLock /\ Absent /\ [Next]_vars => Absent'
<1> SUFFICES ASSUME TypeOK, GLock, Absent, [Next]_vars PROVE Absent'
  OBVIOUS
<1>a. pc \in [Conn -> Labels] /\ None \notin Conn /\ want \in [Conn -> Handle \union {None}]
  BY NoneFact, FreshClient DEF TypeOK
<1> USE <1>a DEF registry, userdb, locks, locals, At, Goto, Crash, LoopStep, Receive,
   NextSlot, AfterLogout, GLock, UnderG, Absent, UserAt
<1>0. CASE UNCHANGED vars
  BY <1>0 DEF vars
<1>1. ASSUME NEW t \in Conn, ureg_register(t) PROVE Absent'
  BY <1>1 DEF ureg_register
<1>2. ASSUME NEW t \in Conn, user_ref(t) PROVE Absent'
  BY <1>2 DEF user_ref
<1>3. ASSUME NEW t \in Conn, user_create(t) PROVE Absent'
  BY <1>3 DEF user_create
<1>4. ASSUME NEW t \in Conn, LoginLock(t) PROVE Absent'
  BY <1>4 DEF LoginLock
<1>5. ASSUME NEW t \in Conn, Held(t) PROVE Absent'
  BY <1>5 DEF Held
<1>6. ASSUME NEW t \in Conn, HeldUser(t) PROVE Absent'
  BY <1>6 DEF HeldUser
<1>7. ASSUME NEW t \in Conn, HeldCmp(t) PROVE Absent'
  BY <1>7 DEF HeldCmp
<1>8. ASSUME NEW t \in Conn, Mine(t) PROVE Absent'
  BY <1>8 DEF Mine
<1>9. ASSUME NEW t \in Conn, MineFd(t) PROVE Absent'
  BY <1>9 DEF MineFd
<1>10. ASSUME NEW t \in Conn, Free(t) PROVE Absent'
  BY <1>10 DEF Free
<1>11. ASSUME NEW t \in Conn, FreeSet(t) PROVE Absent'
  BY <1>11 DEF FreeSet
<1>12. ASSUME NEW t \in Conn, SetUser(t) PROVE Absent'
  BY <1>12 DEF SetUser
<1>13. ASSUME NEW t \in Conn, SetMark(t) PROVE Absent'
  BY <1>13 DEF SetMark
<1>14. ASSUME NEW t \in Conn, Started(t) PROVE Absent'
  BY <1>14 DEF Started
<1>15. ASSUME NEW t \in Conn, Logout(t) PROVE Absent'
  BY <1>15 DEF Logout
<1>16. ASSUME NEW t \in Conn, user_unref(t) PROVE Absent'
  BY <1>16 DEF user_unref
<1>17. ASSUME NEW t \in Conn, user_free(t) PROVE Absent'
  BY <1>17 DEF user_free
<1>18. ASSUME NEW t \in Conn, ClearUser(t) PROVE Absent'
  BY <1>18 DEF ClearUser
<1>19. ASSUME NEW t \in Conn, ClearSlot(t) PROVE Absent'
  BY <1>19 DEF ClearSlot
<1>20. ASSUME NEW t \in Conn, creg_register_full(t) PROVE Absent'
  BY <1>20 DEF creg_register_full
<1>21. ASSUME NEW t \in Conn, creg_store(t) PROVE Absent'
  BY <1>21 DEF creg_store
<1>22. ASSUME NEW t \in Conn, EofLogout(t) PROVE Absent'
  BY <1>22 DEF EofLogout
<1>23. ASSUME NEW t \in Conn, client_unref(t) PROVE Absent'
  BY <1>23 DEF client_unref
<1>24. ASSUME NEW t \in Conn, Accept(t) PROVE Absent'
  BY <1>24 DEF Accept
<1>25. ASSUME NEW t \in Conn, LoginRequest(t) PROVE Absent'
  BY <1>25 DEF LoginRequest
<1>26. ASSUME NEW t \in Conn, LogoutRequest(t) PROVE Absent'
  BY <1>26 DEF LogoutRequest
<1>27. ASSUME NEW t \in Conn, Eof(t) PROVE Absent'
  BY <1>27 DEF Eof
<1>28. ASSUME NEW t \in Conn, creg_all_clients_freed(t) PROVE Absent'
  BY <1>28 DEF creg_all_clients_freed
<1>29. ASSUME NEW t \in Conn, creg_register(t, "creg", "cregPut") PROVE Absent'
  BY <1>29 DEF creg_register
<1>30. ASSUME NEW t \in Conn, creg_register(t, "freeReg", "freePut") PROVE Absent'
  BY <1>30 DEF creg_register
<1> QED
  BY <1>0, <1>1, <1>2, <1>3, <1>4, <1>5, <1>6, <1>7, <1>8, <1>9, <1>10, <1>11, <1>12, <1>13,
     <1>14, <1>15, <1>16, <1>17, <1>18, <1>19, <1>20, <1>21, <1>22, <1>23, <1>24, <1>25,
     <1>26, <1>27, <1>28, <1>29, <1>30
  DEF Next, Halted, Environment, Step, Connect, Login, client_logout, Disconnect

(* An element of Append(s, h) is an element of s or the last one.          *)
LEMMA AppendOne ==
  ASSUME NEW H, NEW s \in Seq(H), NEW h \in H, NEW k \in 1 .. Len(Append(s, h))
  PROVE  \/ k \in 1 .. Len(s) /\ Append(s, h)[k] = s[k]
         \/ k = Len(s) + 1 /\ Append(s, h)[k] = h
OBVIOUS

(* Every step keeps: one USER per handle.                                  *)
LEMMA OneUserStep ==
  TypeOK /\ Asking /\ Absent /\ OneUserPerHandle /\ [Next]_vars
  => OneUserPerHandle'
<1> SUFFICES ASSUME TypeOK, Asking, Absent, OneUserPerHandle, [Next]_vars
             PROVE  OneUserPerHandle'
  OBVIOUS
<1>a. /\ pc \in [Conn -> Labels] /\ None \notin Conn
      /\ want \in [Conn -> Handle \union {None}] /\ users \in Seq(Handle)
  BY NoneFact, FreshClient DEF TypeOK
<1>b. \A t \in Conn : pc[t] = "userNew" => want[t] \in Handle
  BY DEF Asking
<1> USE <1>a DEF registry, userdb, locks, locals, At, Goto, Crash, LoopStep, Receive,
   NextSlot, AfterLogout, Absent, UserAt, OneUserPerHandle
<1>0. CASE UNCHANGED vars
  BY <1>0 DEF vars
<1>1. ASSUME NEW t \in Conn, ureg_register(t) PROVE OneUserPerHandle'
  BY <1>1 DEF ureg_register
<1>2. ASSUME NEW t \in Conn, user_ref(t) PROVE OneUserPerHandle'
  BY <1>2 DEF user_ref
<1>3. ASSUME NEW t \in Conn, user_create(t) PROVE OneUserPerHandle'
  <2>1. CASE Len(users) + 1 < UserCap
    <3>1. users' = Append(users, want[t]) /\ want[t] \in Handle
      BY <1>3, <2>1, <1>b DEF user_create
    <3>2. ASSUME NEW k \in 1 .. Len(users')
          PROVE  \/ k \in 1 .. Len(users) /\ users'[k] = users[k]
                 \/ k = Len(users) + 1 /\ users'[k] = want[t]
      <4> DEFINE s == Append(users, want[t])
      <4>1. k \in 1 .. Len(s) /\ users' = s
        BY <3>1
      <4>2. (k \in 1 .. Len(users) /\ s[k] = users[k]) \/ (k = Len(users) + 1 /\ s[k] = want[t])
        BY <3>1, <4>1, AppendOne
      <4> HIDE DEF s
      <4> QED
        BY <4>1, <4>2
    <3>3. \A k \in 1 .. Len(users) : users[k] # want[t]
      BY <1>3 DEF user_create
    <3> QED
      BY <3>2, <3>3
  <2>2. CASE ~(Len(users) + 1 < UserCap)
    BY <1>3, <2>2 DEF user_create
  <2> QED
    BY <2>1, <2>2
<1>4. ASSUME NEW t \in Conn, LoginLock(t) PROVE OneUserPerHandle'
  BY <1>4 DEF LoginLock
<1>5. ASSUME NEW t \in Conn, Held(t) PROVE OneUserPerHandle'
  BY <1>5 DEF Held
<1>6. ASSUME NEW t \in Conn, HeldUser(t) PROVE OneUserPerHandle'
  BY <1>6 DEF HeldUser
<1>7. ASSUME NEW t \in Conn, HeldCmp(t) PROVE OneUserPerHandle'
  BY <1>7 DEF HeldCmp
<1>8. ASSUME NEW t \in Conn, Mine(t) PROVE OneUserPerHandle'
  BY <1>8 DEF Mine
<1>9. ASSUME NEW t \in Conn, MineFd(t) PROVE OneUserPerHandle'
  BY <1>9 DEF MineFd
<1>10. ASSUME NEW t \in Conn, Free(t) PROVE OneUserPerHandle'
  BY <1>10 DEF Free
<1>11. ASSUME NEW t \in Conn, FreeSet(t) PROVE OneUserPerHandle'
  BY <1>11 DEF FreeSet
<1>12. ASSUME NEW t \in Conn, SetUser(t) PROVE OneUserPerHandle'
  BY <1>12 DEF SetUser
<1>13. ASSUME NEW t \in Conn, SetMark(t) PROVE OneUserPerHandle'
  BY <1>13 DEF SetMark
<1>14. ASSUME NEW t \in Conn, Started(t) PROVE OneUserPerHandle'
  BY <1>14 DEF Started
<1>15. ASSUME NEW t \in Conn, Logout(t) PROVE OneUserPerHandle'
  BY <1>15 DEF Logout
<1>16. ASSUME NEW t \in Conn, user_unref(t) PROVE OneUserPerHandle'
  BY <1>16 DEF user_unref
<1>17. ASSUME NEW t \in Conn, user_free(t) PROVE OneUserPerHandle'
  BY <1>17 DEF user_free
<1>18. ASSUME NEW t \in Conn, ClearUser(t) PROVE OneUserPerHandle'
  BY <1>18 DEF ClearUser
<1>19. ASSUME NEW t \in Conn, ClearSlot(t) PROVE OneUserPerHandle'
  BY <1>19 DEF ClearSlot
<1>20. ASSUME NEW t \in Conn, creg_register_full(t) PROVE OneUserPerHandle'
  BY <1>20 DEF creg_register_full
<1>21. ASSUME NEW t \in Conn, creg_store(t) PROVE OneUserPerHandle'
  BY <1>21 DEF creg_store
<1>22. ASSUME NEW t \in Conn, EofLogout(t) PROVE OneUserPerHandle'
  BY <1>22 DEF EofLogout
<1>23. ASSUME NEW t \in Conn, client_unref(t) PROVE OneUserPerHandle'
  BY <1>23 DEF client_unref
<1>24. ASSUME NEW t \in Conn, Accept(t) PROVE OneUserPerHandle'
  BY <1>24 DEF Accept
<1>25. ASSUME NEW t \in Conn, LoginRequest(t) PROVE OneUserPerHandle'
  BY <1>25 DEF LoginRequest
<1>26. ASSUME NEW t \in Conn, LogoutRequest(t) PROVE OneUserPerHandle'
  BY <1>26 DEF LogoutRequest
<1>27. ASSUME NEW t \in Conn, Eof(t) PROVE OneUserPerHandle'
  BY <1>27 DEF Eof
<1>28. ASSUME NEW t \in Conn, creg_all_clients_freed(t) PROVE OneUserPerHandle'
  BY <1>28 DEF creg_all_clients_freed
<1>29. ASSUME NEW t \in Conn, creg_register(t, "creg", "cregPut") PROVE OneUserPerHandle'
  BY <1>29 DEF creg_register
<1>30. ASSUME NEW t \in Conn, creg_register(t, "freeReg", "freePut")
       PROVE  OneUserPerHandle'
  BY <1>30 DEF creg_register
<1> QED
  BY <1>0, <1>1, <1>2, <1>3, <1>4, <1>5, <1>6, <1>7, <1>8, <1>9, <1>10, <1>11, <1>12, <1>13,
     <1>14, <1>15, <1>16, <1>17, <1>18, <1>19, <1>20, <1>21, <1>22, <1>23, <1>24, <1>25,
     <1>26, <1>27, <1>28, <1>29, <1>30
  DEF Next, Halted, Environment, Step, Connect, Login, client_logout, Disconnect

(* Every step keeps: a thread in a login has a handle.                     *)
LEMMA AskingStep == TypeOK /\ Asking /\ [Next]_vars => Asking'
<1> SUFFICES ASSUME TypeOK, Asking, [Next]_vars PROVE Asking'
  OBVIOUS
<1>a. pc \in [Conn -> Labels] /\ None \notin Conn /\ want \in [Conn -> Handle \union {None}]
  BY NoneFact, FreshClient DEF TypeOK
<1> USE <1>a DEF registry, userdb, locks, locals, At, Goto, Crash, LoopStep, Receive,
   NextSlot, AfterLogout, Asking, UnderL
<1>0. CASE UNCHANGED vars
  BY <1>0 DEF vars
<1>1. ASSUME NEW t \in Conn, ureg_register(t) PROVE Asking'
  BY <1>1 DEF ureg_register
<1>2. ASSUME NEW t \in Conn, user_ref(t) PROVE Asking'
  BY <1>2 DEF user_ref
<1>3. ASSUME NEW t \in Conn, user_create(t) PROVE Asking'
  BY <1>3 DEF user_create
<1>4. ASSUME NEW t \in Conn, LoginLock(t) PROVE Asking'
  BY <1>4 DEF LoginLock
<1>5. ASSUME NEW t \in Conn, Held(t) PROVE Asking'
  BY <1>5 DEF Held
<1>6. ASSUME NEW t \in Conn, HeldUser(t) PROVE Asking'
  BY <1>6 DEF HeldUser
<1>7. ASSUME NEW t \in Conn, HeldCmp(t) PROVE Asking'
  BY <1>7 DEF HeldCmp
<1>8. ASSUME NEW t \in Conn, Mine(t) PROVE Asking'
  BY <1>8 DEF Mine
<1>9. ASSUME NEW t \in Conn, MineFd(t) PROVE Asking'
  BY <1>9 DEF MineFd
<1>10. ASSUME NEW t \in Conn, Free(t) PROVE Asking'
  BY <1>10 DEF Free
<1>11. ASSUME NEW t \in Conn, FreeSet(t) PROVE Asking'
  BY <1>11 DEF FreeSet
<1>12. ASSUME NEW t \in Conn, SetUser(t) PROVE Asking'
  BY <1>12 DEF SetUser
<1>13. ASSUME NEW t \in Conn, SetMark(t) PROVE Asking'
  BY <1>13 DEF SetMark
<1>14. ASSUME NEW t \in Conn, Started(t) PROVE Asking'
  BY <1>14 DEF Started
<1>15. ASSUME NEW t \in Conn, Logout(t) PROVE Asking'
  BY <1>15 DEF Logout
<1>16. ASSUME NEW t \in Conn, user_unref(t) PROVE Asking'
  BY <1>16 DEF user_unref
<1>17. ASSUME NEW t \in Conn, user_free(t) PROVE Asking'
  BY <1>17 DEF user_free
<1>18. ASSUME NEW t \in Conn, ClearUser(t) PROVE Asking'
  BY <1>18 DEF ClearUser
<1>19. ASSUME NEW t \in Conn, ClearSlot(t) PROVE Asking'
  BY <1>19 DEF ClearSlot
<1>20. ASSUME NEW t \in Conn, creg_register_full(t) PROVE Asking'
  BY <1>20 DEF creg_register_full
<1>21. ASSUME NEW t \in Conn, creg_store(t) PROVE Asking'
  BY <1>21 DEF creg_store
<1>22. ASSUME NEW t \in Conn, EofLogout(t) PROVE Asking'
  BY <1>22 DEF EofLogout
<1>23. ASSUME NEW t \in Conn, client_unref(t) PROVE Asking'
  BY <1>23 DEF client_unref
<1>24. ASSUME NEW t \in Conn, Accept(t) PROVE Asking'
  BY <1>24 DEF Accept
<1>25. ASSUME NEW t \in Conn, LoginRequest(t) PROVE Asking'
  <2>1. PICK h \in Wants[t] : want' = [want EXCEPT ![t] = h]
    BY <1>25 DEF LoginRequest
  <2>2. h \in Handle
    BY CharlaAssumption
  <2> QED
    BY <1>25, <2>1, <2>2 DEF LoginRequest
<1>26. ASSUME NEW t \in Conn, LogoutRequest(t) PROVE Asking'
  BY <1>26 DEF LogoutRequest
<1>27. ASSUME NEW t \in Conn, Eof(t) PROVE Asking'
  BY <1>27 DEF Eof
<1>28. ASSUME NEW t \in Conn, creg_all_clients_freed(t) PROVE Asking'
  BY <1>28 DEF creg_all_clients_freed
<1>29. ASSUME NEW t \in Conn, creg_register(t, "creg", "cregPut") PROVE Asking'
  BY <1>29 DEF creg_register
<1>30. ASSUME NEW t \in Conn, creg_register(t, "freeReg", "freePut") PROVE Asking'
  BY <1>30 DEF creg_register
<1> QED
  BY <1>0, <1>1, <1>2, <1>3, <1>4, <1>5, <1>6, <1>7, <1>8, <1>9, <1>10, <1>11, <1>12, <1>13,
     <1>14, <1>15, <1>16, <1>17, <1>18, <1>19, <1>20, <1>21, <1>22, <1>23, <1>24, <1>25,
     <1>26, <1>27, <1>28, <1>29, <1>30
  DEF Next, Halted, Environment, Step, Connect, Login, client_logout, Disconnect

(* Every step keeps: only CLIENTs that exist are used.                     *)
LEMMA CreatedStep == TypeOK /\ Created /\ [Next]_vars => Created'
<1> SUFFICES ASSUME TypeOK, Created, [Next]_vars PROVE Created'
  OBVIOUS
<1>a. /\ pc \in [Conn -> Labels] /\ None \notin Conn
      /\ mine \in [Conn -> Client \union {None}] /\ new \in [Conn -> Client \union {None}]
      /\ slots \in [Slot -> Client \union {None}] /\ idx \in [Conn -> Slot]
      /\ put \in [Conn -> Slot] /\ alloc \subseteq Client
      /\ (alloc # Client => NewClient \in Client /\ NewClient \notin alloc)
      /\ client \in [Client -> ClientRec] /\ None \notin Client
  BY NoneFact, FreshClient DEF TypeOK
<1> USE <1>a DEF registry, userdb, locks, locals, At, Goto, Crash, LoopStep, Receive,
   NextSlot, AfterLogout, Created, UnderL
<1>0. CASE UNCHANGED vars
  BY <1>0 DEF vars
<1>1. ASSUME NEW t \in Conn, ureg_register(t) PROVE Created'
  BY <1>1 DEF ureg_register
<1>2. ASSUME NEW t \in Conn, user_ref(t) PROVE Created'
  BY <1>2 DEF user_ref
<1>3. ASSUME NEW t \in Conn, user_create(t) PROVE Created'
  BY <1>3 DEF user_create
<1>4. ASSUME NEW t \in Conn, LoginLock(t) PROVE Created'
  BY <1>4 DEF LoginLock
<1>5. ASSUME NEW t \in Conn, Held(t) PROVE Created'
  BY <1>5 DEF Held
<1>6. ASSUME NEW t \in Conn, HeldUser(t) PROVE Created'
  BY <1>6 DEF HeldUser
<1>7. ASSUME NEW t \in Conn, HeldCmp(t) PROVE Created'
  BY <1>7 DEF HeldCmp
<1>8. ASSUME NEW t \in Conn, Mine(t) PROVE Created'
  BY <1>8 DEF Mine
<1>9. ASSUME NEW t \in Conn, MineFd(t) PROVE Created'
  BY <1>9 DEF MineFd
<1>10. ASSUME NEW t \in Conn, Free(t) PROVE Created'
  BY <1>10 DEF Free
<1>11. ASSUME NEW t \in Conn, FreeSet(t) PROVE Created'
  BY <1>11 DEF FreeSet
<1>12. ASSUME NEW t \in Conn, SetUser(t) PROVE Created'
  BY <1>12 DEF SetUser
<1>13. ASSUME NEW t \in Conn, SetMark(t) PROVE Created'
  BY <1>13 DEF SetMark
<1>14. ASSUME NEW t \in Conn, Started(t) PROVE Created'
  BY <1>14 DEF Started
<1>15. ASSUME NEW t \in Conn, Logout(t) PROVE Created'
  BY <1>15 DEF Logout
<1>16. ASSUME NEW t \in Conn, user_unref(t) PROVE Created'
  BY <1>16 DEF user_unref
<1>17. ASSUME NEW t \in Conn, user_free(t) PROVE Created'
  BY <1>17 DEF user_free
<1>18. ASSUME NEW t \in Conn, ClearUser(t) PROVE Created'
  BY <1>18 DEF ClearUser
<1>19. ASSUME NEW t \in Conn, ClearSlot(t) PROVE Created'
  BY <1>19 DEF ClearSlot
<1>20. ASSUME NEW t \in Conn, creg_register_full(t) PROVE Created'
  BY <1>20 DEF creg_register_full
<1>21. ASSUME NEW t \in Conn, creg_store(t) PROVE Created'
  BY <1>21 DEF creg_store
<1>22. ASSUME NEW t \in Conn, EofLogout(t) PROVE Created'
  BY <1>22 DEF EofLogout
<1>23. ASSUME NEW t \in Conn, client_unref(t) PROVE Created'
  BY <1>23 DEF client_unref, creg_unregister
<1>24. ASSUME NEW t \in Conn, Accept(t) PROVE Created'
  BY <1>24 DEF Accept
<1>25. ASSUME NEW t \in Conn, LoginRequest(t) PROVE Created'
  BY <1>25 DEF LoginRequest
<1>26. ASSUME NEW t \in Conn, LogoutRequest(t) PROVE Created'
  BY <1>26 DEF LogoutRequest
<1>27. ASSUME NEW t \in Conn, Eof(t) PROVE Created'
  BY <1>27 DEF Eof
<1>28. ASSUME NEW t \in Conn, creg_all_clients_freed(t) PROVE Created'
  BY <1>28 DEF creg_all_clients_freed
<1>29. ASSUME NEW t \in Conn, creg_register(t, "creg", "cregPut") PROVE Created'
  BY <1>29 DEF creg_register
<1>30. ASSUME NEW t \in Conn, creg_register(t, "freeReg", "freePut") PROVE Created'
  BY <1>30 DEF creg_register
<1> QED
  BY <1>0, <1>1, <1>2, <1>3, <1>4, <1>5, <1>6, <1>7, <1>8, <1>9, <1>10, <1>11, <1>12, <1>13,
     <1>14, <1>15, <1>16, <1>17, <1>18, <1>19, <1>20, <1>21, <1>22, <1>23, <1>24, <1>25,
     <1>26, <1>27, <1>28, <1>29, <1>30
  DEF Next, Halted, Environment, Step, Connect, Login, client_logout, Disconnect

(* Every step keeps: no two threads share a CLIENT.                        *)
LEMMA OwnStep == TypeOK /\ Created /\ GLock /\ Own /\ [Next]_vars => Own'
<1> SUFFICES ASSUME TypeOK, Created, GLock, Own, [Next]_vars PROVE Own'
  OBVIOUS
<1>a. /\ pc \in [Conn -> Labels] /\ None \notin Conn
      /\ mine \in [Conn -> Client \union {None}] /\ new \in [Conn -> Client \union {None}]
      /\ alloc \subseteq Client
      /\ (alloc # Client => NewClient \in Client /\ NewClient \notin alloc)
      /\ client \in [Client -> ClientRec] /\ None \notin Client
  BY NoneFact, FreshClient DEF TypeOK
<1> USE <1>a DEF registry, userdb, locks, locals, At, Goto, Crash, LoopStep, Receive,
   NextSlot, AfterLogout, Own, GLock, UnderG, Created
<1>0. CASE UNCHANGED vars
  BY <1>0 DEF vars
<1>1. ASSUME NEW t \in Conn, ureg_register(t) PROVE Own'
  BY <1>1 DEF ureg_register
<1>2. ASSUME NEW t \in Conn, user_ref(t) PROVE Own'
  BY <1>2 DEF user_ref
<1>3. ASSUME NEW t \in Conn, user_create(t) PROVE Own'
  BY <1>3 DEF user_create
<1>4. ASSUME NEW t \in Conn, LoginLock(t) PROVE Own'
  BY <1>4 DEF LoginLock
<1>5. ASSUME NEW t \in Conn, Held(t) PROVE Own'
  BY <1>5 DEF Held
<1>6. ASSUME NEW t \in Conn, HeldUser(t) PROVE Own'
  BY <1>6 DEF HeldUser
<1>7. ASSUME NEW t \in Conn, HeldCmp(t) PROVE Own'
  BY <1>7 DEF HeldCmp
<1>8. ASSUME NEW t \in Conn, Mine(t) PROVE Own'
  BY <1>8 DEF Mine
<1>9. ASSUME NEW t \in Conn, MineFd(t) PROVE Own'
  BY <1>9 DEF MineFd
<1>10. ASSUME NEW t \in Conn, Free(t) PROVE Own'
  BY <1>10 DEF Free
<1>11. ASSUME NEW t \in Conn, FreeSet(t) PROVE Own'
  BY <1>11 DEF FreeSet
<1>12. ASSUME NEW t \in Conn, SetUser(t) PROVE Own'
  BY <1>12 DEF SetUser
<1>13. ASSUME NEW t \in Conn, SetMark(t) PROVE Own'
  BY <1>13 DEF SetMark
<1>14. ASSUME NEW t \in Conn, Started(t) PROVE Own'
  BY <1>14 DEF Started
<1>15. ASSUME NEW t \in Conn, Logout(t) PROVE Own'
  BY <1>15 DEF Logout
<1>16. ASSUME NEW t \in Conn, user_unref(t) PROVE Own'
  BY <1>16 DEF user_unref
<1>17. ASSUME NEW t \in Conn, user_free(t) PROVE Own'
  BY <1>17 DEF user_free
<1>18. ASSUME NEW t \in Conn, ClearUser(t) PROVE Own'
  BY <1>18 DEF ClearUser
<1>19. ASSUME NEW t \in Conn, ClearSlot(t) PROVE Own'
  BY <1>19 DEF ClearSlot
<1>20. ASSUME NEW t \in Conn, creg_register_full(t) PROVE Own'
  BY <1>20 DEF creg_register_full
<1>21. ASSUME NEW t \in Conn, creg_store(t) PROVE Own'
  BY <1>21 DEF creg_store
<1>22. ASSUME NEW t \in Conn, EofLogout(t) PROVE Own'
  BY <1>22 DEF EofLogout
<1>23. ASSUME NEW t \in Conn, client_unref(t) PROVE Own'
  BY <1>23 DEF client_unref
<1>24. ASSUME NEW t \in Conn, Accept(t) PROVE Own'
  BY <1>24 DEF Accept
<1>25. ASSUME NEW t \in Conn, LoginRequest(t) PROVE Own'
  BY <1>25 DEF LoginRequest
<1>26. ASSUME NEW t \in Conn, LogoutRequest(t) PROVE Own'
  BY <1>26 DEF LogoutRequest
<1>27. ASSUME NEW t \in Conn, Eof(t) PROVE Own'
  BY <1>27 DEF Eof
<1>28. ASSUME NEW t \in Conn, creg_all_clients_freed(t) PROVE Own'
  BY <1>28 DEF creg_all_clients_freed
<1>29. ASSUME NEW t \in Conn, creg_register(t, "creg", "cregPut") PROVE Own'
  BY <1>29 DEF creg_register
<1>30. ASSUME NEW t \in Conn, creg_register(t, "freeReg", "freePut") PROVE Own'
  BY <1>30 DEF creg_register
<1> QED
  BY <1>0, <1>1, <1>2, <1>3, <1>4, <1>5, <1>6, <1>7, <1>8, <1>9, <1>10, <1>11, <1>12, <1>13,
     <1>14, <1>15, <1>16, <1>17, <1>18, <1>19, <1>20, <1>21, <1>22, <1>23, <1>24, <1>25,
     <1>26, <1>27, <1>28, <1>29, <1>30
  DEF Next, Halted, Environment, Step, Connect, Login, client_logout, Disconnect

(* Every step keeps: a logout has its user until it clears it.             *)
LEMMA LeavingStep ==
  TypeOK /\ Created /\ Asking /\ Own /\ Leaving /\ [Next]_vars
  => Leaving'
<1> SUFFICES ASSUME TypeOK, Created, Asking, Own, Leaving, [Next]_vars PROVE Leaving'
  OBVIOUS
<1>a. /\ pc \in [Conn -> Labels] /\ None \notin Conn
      /\ mine \in [Conn -> Client \union {None}] /\ want \in [Conn -> Handle \union {None}]
      /\ new \in [Conn -> Client \union {None}] /\ slots \in [Slot -> Client \union {None}]
      /\ idx \in [Conn -> Slot] /\ put \in [Conn -> Slot] /\ alloc \subseteq Client
      /\ (alloc # Client => NewClient \in Client /\ NewClient \notin alloc)
      /\ client \in [Client -> ClientRec] /\ None \notin Client /\ None \notin Handle
  BY NoneFact, FreshClient DEF TypeOK
<1> USE <1>a DEF registry, userdb, locks, locals, At, Goto, Crash, LoopStep, Receive,
   NextSlot, AfterLogout, Leaving, Asking, Created, Own, UnderL
<1>0. CASE UNCHANGED vars
  BY <1>0 DEF vars
<1>1. ASSUME NEW t \in Conn, ureg_register(t) PROVE Leaving'
  BY <1>1 DEF ureg_register
<1>2. ASSUME NEW t \in Conn, user_ref(t) PROVE Leaving'
  BY <1>2 DEF user_ref
<1>3. ASSUME NEW t \in Conn, user_create(t) PROVE Leaving'
  BY <1>3 DEF user_create
<1>4. ASSUME NEW t \in Conn, LoginLock(t) PROVE Leaving'
  BY <1>4 DEF LoginLock
<1>5. ASSUME NEW t \in Conn, Held(t) PROVE Leaving'
  BY <1>5 DEF Held
<1>6. ASSUME NEW t \in Conn, HeldUser(t) PROVE Leaving'
  BY <1>6 DEF HeldUser
<1>7. ASSUME NEW t \in Conn, HeldCmp(t) PROVE Leaving'
  BY <1>7 DEF HeldCmp
<1>8. ASSUME NEW t \in Conn, Mine(t) PROVE Leaving'
  BY <1>8 DEF Mine
<1>9. ASSUME NEW t \in Conn, MineFd(t) PROVE Leaving'
  BY <1>9 DEF MineFd
<1>10. ASSUME NEW t \in Conn, Free(t) PROVE Leaving'
  BY <1>10 DEF Free
<1>11. ASSUME NEW t \in Conn, FreeSet(t) PROVE Leaving'
  BY <1>11 DEF FreeSet
<1>12. ASSUME NEW t \in Conn, SetUser(t) PROVE Leaving'
  <2>1. CASE slots[idx[t]] = None
    BY <1>12, <2>1 DEF SetUser
  <2>2. CASE slots[idx[t]] # None
    <3>0. slots[idx[t]] \in Client
      BY <2>2
    <3>1. \A c \in Client : client'[c].user \in {client[c].user, want[t]}
      BY <1>12, <2>2, <3>0, UserSet
    <3>2. want[t] \in Handle
      BY <1>12 DEF SetUser
    <3>3. UNCHANGED mine /\ pc' = [pc EXCEPT ![t] = "setMark"]
      BY <1>12, <2>2 DEF SetUser
    <3> QED
      BY <3>1, <3>2, <3>3
  <2> QED
    BY <2>1, <2>2
<1>13. ASSUME NEW t \in Conn, SetMark(t) PROVE Leaving'
  <2>1. CASE slots[idx[t]] = None
    BY <1>13, <2>1 DEF SetMark
  <2>2. CASE slots[idx[t]] # None
    <3>0. slots[idx[t]] \in Client
      BY <2>2
    <3>1. \A c \in Client : client'[c].user = client[c].user
      BY <1>13, <3>0, MarkSet
    <3>2. UNCHANGED mine /\ pc' = [pc EXCEPT ![t] = "started"]
      BY <1>13, <2>2 DEF SetMark
    <3> QED
      BY <3>1, <3>2
  <2> QED
    BY <2>1, <2>2
<1>14. ASSUME NEW t \in Conn, Started(t) PROVE Leaving'
  BY <1>14 DEF Started
<1>15. ASSUME NEW t \in Conn, Logout(t) PROVE Leaving'
  <2>1. mine[t] \in Client
    BY <1>15 DEF Logout
  <2>2. client[mine[t]].user \in Handle \union {None}
    BY <2>1 DEF ClientRec
  <2>3. UNCHANGED <<client, mine>>
    BY <1>15 DEF Logout
  <2>4. \/ pc' = pc
        \/ pc' = [pc EXCEPT ![t] = "userUnref"] /\ client[mine[t]].user # None
        \/ \E l \in {"logout", "unref", "idle"} : pc' = [pc EXCEPT ![t] = l]
    BY <1>15 DEF Logout
  <2> QED
    BY <2>2, <2>3, <2>4
<1>16. ASSUME NEW t \in Conn, user_unref(t) PROVE Leaving'
  BY <1>16 DEF user_unref
<1>17. ASSUME NEW t \in Conn, user_free(t) PROVE Leaving'
  BY <1>17 DEF user_free
<1>18. ASSUME NEW t \in Conn, ClearUser(t) PROVE Leaving'
  BY <1>18 DEF ClearUser
<1>19. ASSUME NEW t \in Conn, ClearSlot(t) PROVE Leaving'
  BY <1>19 DEF ClearSlot
<1>20. ASSUME NEW t \in Conn, creg_register_full(t) PROVE Leaving'
  BY <1>20 DEF creg_register_full
<1>21. ASSUME NEW t \in Conn, creg_store(t) PROVE Leaving'
  BY <1>21 DEF creg_store
<1>22. ASSUME NEW t \in Conn, EofLogout(t) PROVE Leaving'
  BY <1>22 DEF EofLogout
<1>23. ASSUME NEW t \in Conn, client_unref(t) PROVE Leaving'
  BY <1>23 DEF client_unref
<1>24. ASSUME NEW t \in Conn, Accept(t) PROVE Leaving'
  BY <1>24 DEF Accept
<1>25. ASSUME NEW t \in Conn, LoginRequest(t) PROVE Leaving'
  BY <1>25 DEF LoginRequest
<1>26. ASSUME NEW t \in Conn, LogoutRequest(t) PROVE Leaving'
  BY <1>26 DEF LogoutRequest
<1>27. ASSUME NEW t \in Conn, Eof(t) PROVE Leaving'
  BY <1>27 DEF Eof
<1>28. ASSUME NEW t \in Conn, creg_all_clients_freed(t) PROVE Leaving'
  BY <1>28 DEF creg_all_clients_freed
<1>29. ASSUME NEW t \in Conn, creg_register(t, "creg", "cregPut") PROVE Leaving'
  BY <1>29 DEF creg_register
<1>30. ASSUME NEW t \in Conn, creg_register(t, "freeReg", "freePut") PROVE Leaving'
  BY <1>30 DEF creg_register
<1> QED
  BY <1>0, <1>1, <1>2, <1>3, <1>4, <1>5, <1>6, <1>7, <1>8, <1>9, <1>10, <1>11, <1>12, <1>13,
     <1>14, <1>15, <1>16, <1>17, <1>18, <1>19, <1>20, <1>21, <1>22, <1>23, <1>24, <1>25,
     <1>26, <1>27, <1>28, <1>29, <1>30
  DEF Next, Halted, Environment, Step, Connect, Login, client_logout, Disconnect

(* Every step keeps: a new CLIENT is in no slot before it is stored.       *)
LEMMA UnregisteredStep ==
  TypeOK /\ GLock /\ Created /\ Own /\ Unregistered /\ [Next]_vars
  => Unregistered'
<1> SUFFICES ASSUME TypeOK, GLock, Created, Own, Unregistered, [Next]_vars PROVE Unregistered'
  OBVIOUS
<1>a. /\ pc \in [Conn -> Labels] /\ None \notin Conn
      /\ mine \in [Conn -> Client \union {None}] /\ new \in [Conn -> Client \union {None}]
      /\ slots \in [Slot -> Client \union {None}] /\ idx \in [Conn -> Slot]
      /\ put \in [Conn -> Slot] /\ alloc \subseteq Client
      /\ (alloc # Client => NewClient \in Client /\ NewClient \notin alloc)
      /\ client \in [Client -> ClientRec] /\ None \notin Client
  BY NoneFact, FreshClient DEF TypeOK
<1> USE <1>a DEF registry, userdb, locks, locals, At, Goto, Crash, LoopStep, Receive,
   NextSlot, AfterLogout, Unregistered, Created, Own, Fresh, GLock, UnderG
<1>0. CASE UNCHANGED vars
  BY <1>0 DEF vars
<1>1. ASSUME NEW t \in Conn, ureg_register(t) PROVE Unregistered'
  BY <1>1 DEF ureg_register
<1>2. ASSUME NEW t \in Conn, user_ref(t) PROVE Unregistered'
  BY <1>2 DEF user_ref
<1>3. ASSUME NEW t \in Conn, user_create(t) PROVE Unregistered'
  BY <1>3 DEF user_create
<1>4. ASSUME NEW t \in Conn, LoginLock(t) PROVE Unregistered'
  BY <1>4 DEF LoginLock
<1>5. ASSUME NEW t \in Conn, Held(t) PROVE Unregistered'
  BY <1>5 DEF Held
<1>6. ASSUME NEW t \in Conn, HeldUser(t) PROVE Unregistered'
  BY <1>6 DEF HeldUser
<1>7. ASSUME NEW t \in Conn, HeldCmp(t) PROVE Unregistered'
  BY <1>7 DEF HeldCmp
<1>8. ASSUME NEW t \in Conn, Mine(t) PROVE Unregistered'
  BY <1>8 DEF Mine
<1>9. ASSUME NEW t \in Conn, MineFd(t) PROVE Unregistered'
  BY <1>9 DEF MineFd
<1>10. ASSUME NEW t \in Conn, Free(t) PROVE Unregistered'
  BY <1>10 DEF Free
<1>11. ASSUME NEW t \in Conn, FreeSet(t) PROVE Unregistered'
  BY <1>11 DEF FreeSet
<1>12. ASSUME NEW t \in Conn, SetUser(t) PROVE Unregistered'
  BY <1>12 DEF SetUser
<1>13. ASSUME NEW t \in Conn, SetMark(t) PROVE Unregistered'
  BY <1>13 DEF SetMark
<1>14. ASSUME NEW t \in Conn, Started(t) PROVE Unregistered'
  BY <1>14 DEF Started
<1>15. ASSUME NEW t \in Conn, Logout(t) PROVE Unregistered'
  BY <1>15 DEF Logout
<1>16. ASSUME NEW t \in Conn, user_unref(t) PROVE Unregistered'
  BY <1>16 DEF user_unref
<1>17. ASSUME NEW t \in Conn, user_free(t) PROVE Unregistered'
  BY <1>17 DEF user_free
<1>18. ASSUME NEW t \in Conn, ClearUser(t) PROVE Unregistered'
  BY <1>18 DEF ClearUser
<1>19. ASSUME NEW t \in Conn, ClearSlot(t) PROVE Unregistered'
  BY <1>19 DEF ClearSlot
<1>20. ASSUME NEW t \in Conn, creg_register_full(t) PROVE Unregistered'
  BY <1>20 DEF creg_register_full
<1>21. ASSUME NEW t \in Conn, creg_store(t) PROVE Unregistered'
  BY <1>21 DEF creg_store
<1>22. ASSUME NEW t \in Conn, EofLogout(t) PROVE Unregistered'
  BY <1>22 DEF EofLogout
<1>23. ASSUME NEW t \in Conn, client_unref(t) PROVE Unregistered'
  <2>1. UNCHANGED <<slots, new>> /\ pc' = [pc EXCEPT ![t] = "done"]
    BY <1>23 DEF client_unref, creg_unregister
  <2>2. \A c \in Client : client'[c].user = client[c].user /\ client'[c].logged = client[c].logged
    BY <1>23 DEF client_unref, ClientRec
  <2> QED
    BY <2>1, <2>2
<1>24. ASSUME NEW t \in Conn, Accept(t) PROVE Unregistered'
  BY <1>24 DEF Accept
<1>25. ASSUME NEW t \in Conn, LoginRequest(t) PROVE Unregistered'
  BY <1>25 DEF LoginRequest
<1>26. ASSUME NEW t \in Conn, LogoutRequest(t) PROVE Unregistered'
  BY <1>26 DEF LogoutRequest
<1>27. ASSUME NEW t \in Conn, Eof(t) PROVE Unregistered'
  BY <1>27 DEF Eof
<1>28. ASSUME NEW t \in Conn, creg_all_clients_freed(t) PROVE Unregistered'
  BY <1>28 DEF creg_all_clients_freed
<1>29. ASSUME NEW t \in Conn, creg_register(t, "creg", "cregPut") PROVE Unregistered'
  BY <1>29 DEF creg_register
<1>30. ASSUME NEW t \in Conn, creg_register(t, "freeReg", "freePut") PROVE Unregistered'
  BY <1>30 DEF creg_register
<1> QED
  BY <1>0, <1>1, <1>2, <1>3, <1>4, <1>5, <1>6, <1>7, <1>8, <1>9, <1>10, <1>11, <1>12, <1>13,
     <1>14, <1>15, <1>16, <1>17, <1>18, <1>19, <1>20, <1>21, <1>22, <1>23, <1>24, <1>25,
     <1>26, <1>27, <1>28, <1>29, <1>30
  DEF Next, Halted, Environment, Step, Connect, Login, client_logout, Disconnect

(* Every step keeps: lockL belongs to the thread whose label says so.      *)
LEMMA LLockStep == TypeOK /\ LLock /\ [ReleasedByHolder]_vars /\ [Next]_vars => LLock'
<1> SUFFICES ASSUME TypeOK, LLock, [ReleasedByHolder]_vars, [Next]_vars PROVE LLock'
  OBVIOUS
<1>a. pc \in [Conn -> Labels] /\ None \notin Conn
  BY NoneFact, FreshClient DEF TypeOK
<1> USE <1>a DEF registry, userdb, locks, locals, At, Goto, Crash, LoopStep, Receive,
   NextSlot, AfterLogout, LLock, UnderL, ReleasedByHolder
<1>0. CASE UNCHANGED vars
  BY <1>0 DEF vars
<1>1. ASSUME NEW t \in Conn, ureg_register(t) PROVE LLock'
  BY <1>1 DEF ureg_register
<1>2. ASSUME NEW t \in Conn, user_ref(t) PROVE LLock'
  BY <1>2 DEF user_ref
<1>3. ASSUME NEW t \in Conn, user_create(t) PROVE LLock'
  BY <1>3 DEF user_create
<1>4. ASSUME NEW t \in Conn, LoginLock(t) PROVE LLock'
  BY <1>4 DEF LoginLock
<1>5. ASSUME NEW t \in Conn, Held(t) PROVE LLock'
  BY <1>5 DEF Held
<1>6. ASSUME NEW t \in Conn, HeldUser(t) PROVE LLock'
  BY <1>6 DEF HeldUser
<1>7. ASSUME NEW t \in Conn, HeldCmp(t) PROVE LLock'
  BY <1>7 DEF HeldCmp
<1>8. ASSUME NEW t \in Conn, Mine(t) PROVE LLock'
  BY <1>8 DEF Mine
<1>9. ASSUME NEW t \in Conn, MineFd(t) PROVE LLock'
  BY <1>9 DEF MineFd
<1>10. ASSUME NEW t \in Conn, Free(t) PROVE LLock'
  BY <1>10 DEF Free
<1>11. ASSUME NEW t \in Conn, FreeSet(t) PROVE LLock'
  BY <1>11 DEF FreeSet
<1>12. ASSUME NEW t \in Conn, SetUser(t) PROVE LLock'
  BY <1>12 DEF SetUser
<1>13. ASSUME NEW t \in Conn, SetMark(t) PROVE LLock'
  BY <1>13 DEF SetMark
<1>14. ASSUME NEW t \in Conn, Started(t) PROVE LLock'
  BY <1>14 DEF Started
<1>15. ASSUME NEW t \in Conn, Logout(t) PROVE LLock'
  <2>1. lockL' \in {lockL, None} /\ pc[t] = "logout"
    BY <1>15, LogoutMoves
  <2>2. CASE pc' = pc /\ lockL' = lockL
    BY <2>2
  <2>3. CASE \E l \in {"logout", "userUnref", "unref", "idle"} : pc' = [pc EXCEPT ![t] = l]
    BY <2>1, <2>3 DEF vars
  <2> QED
    BY <1>15, <2>2, <2>3, LogoutMoves
<1>16. ASSUME NEW t \in Conn, user_unref(t) PROVE LLock'
  BY <1>16 DEF user_unref
<1>17. ASSUME NEW t \in Conn, user_free(t) PROVE LLock'
  BY <1>17 DEF user_free
<1>18. ASSUME NEW t \in Conn, ClearUser(t) PROVE LLock'
  BY <1>18 DEF ClearUser
<1>19. ASSUME NEW t \in Conn, ClearSlot(t) PROVE LLock'
  BY <1>19 DEF ClearSlot
<1>20. ASSUME NEW t \in Conn, creg_register_full(t) PROVE LLock'
  BY <1>20 DEF creg_register_full
<1>21. ASSUME NEW t \in Conn, creg_store(t) PROVE LLock'
  BY <1>21 DEF creg_store
<1>22. ASSUME NEW t \in Conn, EofLogout(t) PROVE LLock'
  BY <1>22 DEF EofLogout
<1>23. ASSUME NEW t \in Conn, client_unref(t) PROVE LLock'
  BY <1>23 DEF client_unref
<1>24. ASSUME NEW t \in Conn, Accept(t) PROVE LLock'
  BY <1>24 DEF Accept
<1>25. ASSUME NEW t \in Conn, LoginRequest(t) PROVE LLock'
  BY <1>25 DEF LoginRequest
<1>26. ASSUME NEW t \in Conn, LogoutRequest(t) PROVE LLock'
  BY <1>26 DEF LogoutRequest
<1>27. ASSUME NEW t \in Conn, Eof(t) PROVE LLock'
  BY <1>27 DEF Eof
<1>28. ASSUME NEW t \in Conn, creg_all_clients_freed(t) PROVE LLock'
  BY <1>28 DEF creg_all_clients_freed
<1>29. ASSUME NEW t \in Conn, creg_register(t, "creg", "cregPut") PROVE LLock'
  BY <1>29 DEF creg_register
<1>30. ASSUME NEW t \in Conn, creg_register(t, "freeReg", "freePut") PROVE LLock'
  BY <1>30 DEF creg_register
<1> QED
  BY <1>0, <1>1, <1>2, <1>3, <1>4, <1>5, <1>6, <1>7, <1>8, <1>9, <1>10, <1>11, <1>12, <1>13,
     <1>14, <1>15, <1>16, <1>17, <1>18, <1>19, <1>20, <1>21, <1>22, <1>23, <1>24, <1>25,
     <1>26, <1>27, <1>28, <1>29, <1>30
  DEF Next, Halted, Environment, Step, Connect, Login, client_logout, Disconnect

(* Every step keeps: the third loop's new CLIENT is logged out.            *)
LEMMA ReservedStep ==
  TypeOK /\ LLock /\ Created /\ Own /\ Unregistered /\ Reserved /\ [Next]_vars
  => Reserved'
<1> SUFFICES ASSUME TypeOK, LLock, Created, Own, Unregistered, Reserved, [Next]_vars
             PROVE  Reserved'
  OBVIOUS
<1>a. /\ pc \in [Conn -> Labels] /\ None \notin Conn
      /\ mine \in [Conn -> Client \union {None}] /\ new \in [Conn -> Client \union {None}]
      /\ slots \in [Slot -> Client \union {None}] /\ idx \in [Conn -> Slot]
      /\ put \in [Conn -> Slot] /\ alloc \subseteq Client
      /\ (alloc # Client => NewClient \in Client /\ NewClient \notin alloc)
      /\ client \in [Client -> ClientRec] /\ None \notin Client
  BY NoneFact, FreshClient DEF TypeOK
<1> USE <1>a DEF registry, userdb, locks, locals, At, Goto, Crash, LoopStep, Receive,
   NextSlot, AfterLogout, Reserved, Unregistered, Created, Own, LLock, UnderL
<1>0. CASE UNCHANGED vars
  BY <1>0 DEF vars
<1>1. ASSUME NEW t \in Conn, ureg_register(t) PROVE Reserved'
  BY <1>1 DEF ureg_register
<1>2. ASSUME NEW t \in Conn, user_ref(t) PROVE Reserved'
  BY <1>2 DEF user_ref
<1>3. ASSUME NEW t \in Conn, user_create(t) PROVE Reserved'
  BY <1>3 DEF user_create
<1>4. ASSUME NEW t \in Conn, LoginLock(t) PROVE Reserved'
  BY <1>4 DEF LoginLock
<1>5. ASSUME NEW t \in Conn, Held(t) PROVE Reserved'
  BY <1>5 DEF Held
<1>6. ASSUME NEW t \in Conn, HeldUser(t) PROVE Reserved'
  BY <1>6 DEF HeldUser
<1>7. ASSUME NEW t \in Conn, HeldCmp(t) PROVE Reserved'
  BY <1>7 DEF HeldCmp
<1>8. ASSUME NEW t \in Conn, Mine(t) PROVE Reserved'
  BY <1>8 DEF Mine
<1>9. ASSUME NEW t \in Conn, MineFd(t) PROVE Reserved'
  BY <1>9 DEF MineFd
<1>10. ASSUME NEW t \in Conn, Free(t) PROVE Reserved'
  BY <1>10 DEF Free
<1>11. ASSUME NEW t \in Conn, FreeSet(t) PROVE Reserved'
  BY <1>11 DEF FreeSet
<1>12. ASSUME NEW t \in Conn, SetUser(t) PROVE Reserved'
  BY <1>12 DEF SetUser
<1>13. ASSUME NEW t \in Conn, SetMark(t) PROVE Reserved'
  BY <1>13 DEF SetMark
<1>14. ASSUME NEW t \in Conn, Started(t) PROVE Reserved'
  BY <1>14 DEF Started
<1>15. ASSUME NEW t \in Conn, Logout(t) PROVE Reserved'
  BY <1>15, LogoutMoves
<1>16. ASSUME NEW t \in Conn, user_unref(t) PROVE Reserved'
  BY <1>16 DEF user_unref
<1>17. ASSUME NEW t \in Conn, user_free(t) PROVE Reserved'
  BY <1>17 DEF user_free
<1>18. ASSUME NEW t \in Conn, ClearUser(t) PROVE Reserved'
  BY <1>18 DEF ClearUser
<1>19. ASSUME NEW t \in Conn, ClearSlot(t) PROVE Reserved'
  BY <1>19 DEF ClearSlot
<1>20. ASSUME NEW t \in Conn, creg_register_full(t) PROVE Reserved'
  BY <1>20 DEF creg_register_full
<1>21. ASSUME NEW t \in Conn, creg_store(t) PROVE Reserved'
  BY <1>21 DEF creg_store
<1>22. ASSUME NEW t \in Conn, EofLogout(t) PROVE Reserved'
  BY <1>22 DEF EofLogout
<1>23. ASSUME NEW t \in Conn, client_unref(t) PROVE Reserved'
  BY <1>23 DEF client_unref
<1>24. ASSUME NEW t \in Conn, Accept(t) PROVE Reserved'
  BY <1>24 DEF Accept
<1>25. ASSUME NEW t \in Conn, LoginRequest(t) PROVE Reserved'
  BY <1>25 DEF LoginRequest
<1>26. ASSUME NEW t \in Conn, LogoutRequest(t) PROVE Reserved'
  BY <1>26 DEF LogoutRequest
<1>27. ASSUME NEW t \in Conn, Eof(t) PROVE Reserved'
  BY <1>27 DEF Eof
<1>28. ASSUME NEW t \in Conn, creg_all_clients_freed(t) PROVE Reserved'
  BY <1>28 DEF creg_all_clients_freed
<1>29. ASSUME NEW t \in Conn, creg_register(t, "creg", "cregPut") PROVE Reserved'
  BY <1>29 DEF creg_register
<1>30. ASSUME NEW t \in Conn, creg_register(t, "freeReg", "freePut") PROVE Reserved'
  BY <1>30 DEF creg_register
<1> QED
  BY <1>0, <1>1, <1>2, <1>3, <1>4, <1>5, <1>6, <1>7, <1>8, <1>9, <1>10, <1>11, <1>12, <1>13,
     <1>14, <1>15, <1>16, <1>17, <1>18, <1>19, <1>20, <1>21, <1>22, <1>23, <1>24, <1>25,
     <1>26, <1>27, <1>28, <1>29, <1>30
  DEF Next, Halted, Environment, Step, Connect, Login, client_logout, Disconnect

(* Every step keeps: the CLIENT being marked is logged out.                *)
LEMMA MarkingStep ==
  TypeOK /\ LLock /\ Created /\ Unregistered /\ Reserved /\ Marking /\ [Next]_vars
  => Marking'
<1> SUFFICES ASSUME TypeOK, LLock, Created, Unregistered, Reserved, Marking, [Next]_vars
             PROVE  Marking'
  OBVIOUS
<1>a. /\ pc \in [Conn -> Labels] /\ None \notin Conn
      /\ mine \in [Conn -> Client \union {None}] /\ want \in [Conn -> Handle \union {None}]
      /\ new \in [Conn -> Client \union {None}] /\ slots \in [Slot -> Client \union {None}]
      /\ idx \in [Conn -> Slot] /\ put \in [Conn -> Slot] /\ alloc \subseteq Client
      /\ (alloc # Client => NewClient \in Client /\ NewClient \notin alloc)
      /\ client \in [Client -> ClientRec] /\ None \notin Client
  BY NoneFact, FreshClient DEF TypeOK
<1> USE <1>a DEF registry, userdb, locks, locals, At, Goto, Crash, LoopStep, Receive,
   NextSlot, AfterLogout, Marking, Reserved, Unregistered, Created, LLock, UnderL
<1>0. CASE UNCHANGED vars
  BY <1>0 DEF vars
<1>1. ASSUME NEW t \in Conn, ureg_register(t) PROVE Marking'
  BY <1>1 DEF ureg_register
<1>2. ASSUME NEW t \in Conn, user_ref(t) PROVE Marking'
  BY <1>2 DEF user_ref
<1>3. ASSUME NEW t \in Conn, user_create(t) PROVE Marking'
  BY <1>3 DEF user_create
<1>4. ASSUME NEW t \in Conn, LoginLock(t) PROVE Marking'
  BY <1>4 DEF LoginLock
<1>5. ASSUME NEW t \in Conn, Held(t) PROVE Marking'
  BY <1>5 DEF Held
<1>6. ASSUME NEW t \in Conn, HeldUser(t) PROVE Marking'
  BY <1>6 DEF HeldUser
<1>7. ASSUME NEW t \in Conn, HeldCmp(t) PROVE Marking'
  BY <1>7 DEF HeldCmp
<1>8. ASSUME NEW t \in Conn, Mine(t) PROVE Marking'
  BY <1>8 DEF Mine
<1>9. ASSUME NEW t \in Conn, MineFd(t) PROVE Marking'
  BY <1>9 DEF MineFd
<1>10. ASSUME NEW t \in Conn, Free(t) PROVE Marking'
  BY <1>10 DEF Free
<1>11. ASSUME NEW t \in Conn, FreeSet(t) PROVE Marking'
  BY <1>11 DEF FreeSet
<1>12. ASSUME NEW t \in Conn, SetUser(t) PROVE Marking'
  <2>1. CASE slots[idx[t]] = None
    BY <1>12, <2>1 DEF SetUser
  <2>2. CASE slots[idx[t]] # None
    <3>1. slots[idx[t]] \in Client /\ ~client[slots[idx[t]]].logged
      BY <1>12, <2>2 DEF SetUser
    <3>2. client'[slots[idx[t]]].user = want[t] /\ ~client'[slots[idx[t]]].logged
      BY <1>12, <2>2, <3>1, UserSet
    <3>3. UNCHANGED <<slots, want, idx>> /\ pc' = [pc EXCEPT ![t] = "setMark"]
      BY <1>12, <2>2 DEF SetUser
    <3>4. pc[t] \in UnderL
      BY <1>12 DEF SetUser
    <3> QED
      BY <3>2, <3>3, <3>4
  <2> QED
    BY <2>1, <2>2
<1>13. ASSUME NEW t \in Conn, SetMark(t) PROVE Marking'
  BY <1>13 DEF SetMark
<1>14. ASSUME NEW t \in Conn, Started(t) PROVE Marking'
  BY <1>14 DEF Started
<1>15. ASSUME NEW t \in Conn, Logout(t) PROVE Marking'
  BY <1>15, LogoutMoves
<1>16. ASSUME NEW t \in Conn, user_unref(t) PROVE Marking'
  BY <1>16 DEF user_unref
<1>17. ASSUME NEW t \in Conn, user_free(t) PROVE Marking'
  BY <1>17 DEF user_free
<1>18. ASSUME NEW t \in Conn, ClearUser(t) PROVE Marking'
  BY <1>18 DEF ClearUser
<1>19. ASSUME NEW t \in Conn, ClearSlot(t) PROVE Marking'
  <2>1. \A c \in Client : client'[c].user = client[c].user /\ client'[c].logged = client[c].logged
    BY <1>19, FieldsKept
  <2>2. UNCHANGED <<slots, pc>>
        \/ /\ slots' = [slots EXCEPT ![idx[t]] = None]
           /\ \E l \in {"unref", "idle"} : pc' = [pc EXCEPT ![t] = l]
    BY <1>19 DEF ClearSlot
  <2>3. UNCHANGED <<want, idx>>
    BY <1>19 DEF ClearSlot
  <2> QED
    BY <2>1, <2>2, <2>3
<1>20. ASSUME NEW t \in Conn, creg_register_full(t) PROVE Marking'
  BY <1>20 DEF creg_register_full
<1>21. ASSUME NEW t \in Conn, creg_store(t) PROVE Marking'
  BY <1>21 DEF creg_store
<1>22. ASSUME NEW t \in Conn, EofLogout(t) PROVE Marking'
  BY <1>22 DEF EofLogout
<1>23. ASSUME NEW t \in Conn, client_unref(t) PROVE Marking'
  <2>1. \A c \in Client : client'[c].user = client[c].user /\ client'[c].logged = client[c].logged
    BY <1>23, FieldsKept
  <2>2. UNCHANGED <<slots, want, idx>> /\ pc' = [pc EXCEPT ![t] = "done"]
    BY <1>23 DEF client_unref, creg_unregister
  <2> QED
    BY <2>1, <2>2
<1>24. ASSUME NEW t \in Conn, Accept(t) PROVE Marking'
  BY <1>24 DEF Accept
<1>25. ASSUME NEW t \in Conn, LoginRequest(t) PROVE Marking'
  BY <1>25 DEF LoginRequest
<1>26. ASSUME NEW t \in Conn, LogoutRequest(t) PROVE Marking'
  BY <1>26 DEF LogoutRequest
<1>27. ASSUME NEW t \in Conn, Eof(t) PROVE Marking'
  BY <1>27 DEF Eof
<1>28. ASSUME NEW t \in Conn, creg_all_clients_freed(t) PROVE Marking'
  BY <1>28 DEF creg_all_clients_freed
<1>29. ASSUME NEW t \in Conn, creg_register(t, "creg", "cregPut") PROVE Marking'
  BY <1>29 DEF creg_register
<1>30. ASSUME NEW t \in Conn, creg_register(t, "freeReg", "freePut") PROVE Marking'
  BY <1>30 DEF creg_register
<1> QED
  BY <1>0, <1>1, <1>2, <1>3, <1>4, <1>5, <1>6, <1>7, <1>8, <1>9, <1>10, <1>11, <1>12, <1>13,
     <1>14, <1>15, <1>16, <1>17, <1>18, <1>19, <1>20, <1>21, <1>22, <1>23, <1>24, <1>25,
     <1>26, <1>27, <1>28, <1>29, <1>30
  DEF Next, Halted, Environment, Step, Connect, Login, client_logout, Disconnect

(* The action that gives nobody a new session.                             *)
Kept == \A s \in Slot, h \in Handle :
          (LoggedAs(s, h))' => LoggedAs(s, h) /\ slots'[s] = slots[s]

(* Every step but the mark gives nobody a session.                         *)
LEMMA KeptStep ==
  TypeOK /\ Created /\ Unregistered /\ Reserved /\ Marking /\ [Next]_vars
  => Kept \/ \E u \in Conn : SetMark(u)
<1> SUFFICES ASSUME TypeOK, Created, Unregistered, Reserved, Marking, [Next]_vars
             PROVE  Kept \/ \E u \in Conn : SetMark(u)
  OBVIOUS
<1>a. /\ pc \in [Conn -> Labels] /\ None \notin Conn
      /\ mine \in [Conn -> Client \union {None}] /\ want \in [Conn -> Handle \union {None}]
      /\ new \in [Conn -> Client \union {None}] /\ slots \in [Slot -> Client \union {None}]
      /\ idx \in [Conn -> Slot] /\ put \in [Conn -> Slot] /\ alloc \subseteq Client
      /\ (alloc # Client => NewClient \in Client /\ NewClient \notin alloc)
      /\ client \in [Client -> ClientRec] /\ None \notin Client /\ None \notin Handle
  BY NoneFact, FreshClient DEF TypeOK
<1> USE <1>a DEF registry, userdb, locks, locals, At, Goto, Crash, LoopStep, Receive,
   NextSlot, AfterLogout, LoggedAs, Kept, Marking, Unregistered, Reserved, Created
<1>0. CASE UNCHANGED vars
  BY <1>0 DEF vars
<1>1. ASSUME NEW t \in Conn, ureg_register(t) PROVE Kept \/ \E u \in Conn : SetMark(u)
  BY <1>1 DEF ureg_register
<1>2. ASSUME NEW t \in Conn, user_ref(t) PROVE Kept \/ \E u \in Conn : SetMark(u)
  BY <1>2 DEF user_ref
<1>3. ASSUME NEW t \in Conn, user_create(t) PROVE Kept \/ \E u \in Conn : SetMark(u)
  BY <1>3 DEF user_create
<1>4. ASSUME NEW t \in Conn, LoginLock(t) PROVE Kept \/ \E u \in Conn : SetMark(u)
  BY <1>4 DEF LoginLock
<1>5. ASSUME NEW t \in Conn, Held(t) PROVE Kept \/ \E u \in Conn : SetMark(u)
  BY <1>5 DEF Held
<1>6. ASSUME NEW t \in Conn, HeldUser(t) PROVE Kept \/ \E u \in Conn : SetMark(u)
  BY <1>6 DEF HeldUser
<1>7. ASSUME NEW t \in Conn, HeldCmp(t) PROVE Kept \/ \E u \in Conn : SetMark(u)
  BY <1>7 DEF HeldCmp
<1>8. ASSUME NEW t \in Conn, Mine(t) PROVE Kept \/ \E u \in Conn : SetMark(u)
  BY <1>8 DEF Mine
<1>9. ASSUME NEW t \in Conn, MineFd(t) PROVE Kept \/ \E u \in Conn : SetMark(u)
  BY <1>9 DEF MineFd
<1>10. ASSUME NEW t \in Conn, Free(t) PROVE Kept \/ \E u \in Conn : SetMark(u)
  BY <1>10 DEF Free
<1>11. ASSUME NEW t \in Conn, FreeSet(t) PROVE Kept \/ \E u \in Conn : SetMark(u)
  BY <1>11 DEF FreeSet
<1>12. ASSUME NEW t \in Conn, SetUser(t) PROVE Kept \/ \E u \in Conn : SetMark(u)
  <2>1. CASE slots[idx[t]] = None
    BY <1>12, <2>1 DEF SetUser
  <2>2. CASE slots[idx[t]] # None
    <3>1. slots[idx[t]] \in Client /\ ~client[slots[idx[t]]].logged
      BY <1>12, <2>2 DEF SetUser
    <3>2. /\ ~client'[slots[idx[t]]].logged
          /\ \A c \in Client \ {slots[idx[t]]} : client'[c] = client[c]
      BY <1>12, <2>2, <3>1, UserSet
    <3>3. UNCHANGED slots
      BY <1>12, <2>2 DEF SetUser
    <3> QED
      BY <3>2, <3>3
  <2> QED
    BY <2>1, <2>2
<1>13. ASSUME NEW t \in Conn, SetMark(t) PROVE Kept \/ \E u \in Conn : SetMark(u)
  BY <1>13
<1>14. ASSUME NEW t \in Conn, Started(t) PROVE Kept \/ \E u \in Conn : SetMark(u)
  BY <1>14 DEF Started
<1>15. ASSUME NEW t \in Conn, Logout(t) PROVE Kept \/ \E u \in Conn : SetMark(u)
  BY <1>15, LogoutMoves
<1>16. ASSUME NEW t \in Conn, user_unref(t) PROVE Kept \/ \E u \in Conn : SetMark(u)
  BY <1>16 DEF user_unref
<1>17. ASSUME NEW t \in Conn, user_free(t) PROVE Kept \/ \E u \in Conn : SetMark(u)
  BY <1>17 DEF user_free
<1>18. ASSUME NEW t \in Conn, ClearUser(t) PROVE Kept \/ \E u \in Conn : SetMark(u)
  <2>1. \A c \in Client : /\ client'[c].user \in {client[c].user, None}
                          /\ client'[c].logged = client[c].logged
    BY <1>18, UserCleared
  <2>2. UNCHANGED slots
    BY <1>18 DEF ClearUser
  <2> QED
    BY <2>1, <2>2
<1>19. ASSUME NEW t \in Conn, ClearSlot(t) PROVE Kept \/ \E u \in Conn : SetMark(u)
  <2>1. \A c \in Client : client'[c].user = client[c].user /\ client'[c].logged = client[c].logged
    BY <1>19, FieldsKept
  <2>2. \A s \in Slot : slots'[s] \in {slots[s], None}
    BY <1>19 DEF ClearSlot
  <2> QED
    BY <2>1, <2>2
<1>20. ASSUME NEW t \in Conn, creg_register_full(t)
       PROVE  Kept \/ \E u \in Conn : SetMark(u)
  BY <1>20 DEF creg_register_full
<1>21. ASSUME NEW t \in Conn, creg_store(t) PROVE Kept \/ \E u \in Conn : SetMark(u)
  BY <1>21 DEF creg_store
<1>22. ASSUME NEW t \in Conn, EofLogout(t) PROVE Kept \/ \E u \in Conn : SetMark(u)
  BY <1>22 DEF EofLogout
<1>23. ASSUME NEW t \in Conn, client_unref(t) PROVE Kept \/ \E u \in Conn : SetMark(u)
  <2>1. \A c \in Client : client'[c].user = client[c].user /\ client'[c].logged = client[c].logged
    BY <1>23, FieldsKept
  <2>2. \A s \in Slot : slots'[s] \in {slots[s], None}
    BY <1>23 DEF client_unref, creg_unregister
  <2> QED
    BY <2>1, <2>2
<1>24. ASSUME NEW t \in Conn, Accept(t) PROVE Kept \/ \E u \in Conn : SetMark(u)
  BY <1>24 DEF Accept
<1>25. ASSUME NEW t \in Conn, LoginRequest(t) PROVE Kept \/ \E u \in Conn : SetMark(u)
  BY <1>25 DEF LoginRequest
<1>26. ASSUME NEW t \in Conn, LogoutRequest(t) PROVE Kept \/ \E u \in Conn : SetMark(u)
  BY <1>26 DEF LogoutRequest
<1>27. ASSUME NEW t \in Conn, Eof(t) PROVE Kept \/ \E u \in Conn : SetMark(u)
  BY <1>27 DEF Eof
<1>28. ASSUME NEW t \in Conn, creg_all_clients_freed(t)
       PROVE  Kept \/ \E u \in Conn : SetMark(u)
  BY <1>28 DEF creg_all_clients_freed
<1>29. ASSUME NEW t \in Conn, creg_register(t, "creg", "cregPut")
       PROVE  Kept \/ \E u \in Conn : SetMark(u)
  BY <1>29 DEF creg_register
<1>30. ASSUME NEW t \in Conn, creg_register(t, "freeReg", "freePut")
       PROVE  Kept \/ \E u \in Conn : SetMark(u)
  BY <1>30 DEF creg_register
<1> QED
  BY <1>0, <1>1, <1>2, <1>3, <1>4, <1>5, <1>6, <1>7, <1>8, <1>9, <1>10, <1>11, <1>12, <1>13,
     <1>14, <1>15, <1>16, <1>17, <1>18, <1>19, <1>20, <1>21, <1>22, <1>23, <1>24, <1>25,
     <1>26, <1>27, <1>28, <1>29, <1>30
  DEF Next, Halted, Environment, Step, Connect, Login, client_logout, Disconnect

(* The first loop of client_login goes on past a slot without a conflict.  *)
LEMMA NextHeld ==
  ASSUME TypeOK, NoConflict, NEW t \in Conn, pc[t] \in {"held", "heldUser", "heldCmp"},
         ~LoggedAs(idx[t], want[t]), NextSlot(t, "held", "mine"),
         UNCHANGED <<slots, client, want>>
  PROVE  NoConflict'
<1> SUFFICES ASSUME NEW u \in Conn, NEW s \in Passed(u)' PROVE ~LoggedAs(s, want[u])
  BY DEF NoConflict, LoggedAs
<1>1. pc \in [Conn -> Labels] /\ idx \in [Conn -> Slot] /\ Slot = 0 .. MaxClients - 1
      /\ MaxClients \in Nat
  BY CharlaAssumption DEF TypeOK, Slot
<1>2. CASE u # t
  <2>1. Passed(u)' = Passed(u)
    BY <1>1, <1>2 DEF Passed, NextSlot, Goto
  <2> QED
    BY <2>1 DEF NoConflict
<1>3. CASE u = t
  <2>1. Passed(t) = {r \in Slot : r < idx[t]}
    BY DEF Passed
  <2>2. s \in Slot
    BY DEF Passed
  <2>3. s < idx[t] \/ s = idx[t]
    <3>1. CASE idx[t] + 1 \in Slot
      <4>1. pc'[t] = "held" /\ idx'[t] = idx[t] + 1
        BY <1>1, <3>1 DEF NextSlot, Goto
      <4>2. s < idx[t] + 1
        BY <1>3, <4>1 DEF Passed
      <4> QED
        BY <1>1, <2>2, <4>2
    <3>2. CASE idx[t] + 1 \notin Slot
      BY <1>1, <2>2, <3>2
    <3> QED
      BY <3>1, <3>2
  <2> QED
    BY <1>3, <2>1, <2>2, <2>3 DEF NoConflict
<1> QED
  BY <1>2, <1>3

(* A step that gives nobody a session keeps the first loop's result.       *)
LEMMA NoConflictKept ==
  TypeOK /\ LLock /\ Asking /\ NoConflict /\ Kept /\ [Next]_vars
  => NoConflict'
<1> SUFFICES ASSUME TypeOK, LLock, Asking, NoConflict, Kept, [Next]_vars PROVE NoConflict'
  OBVIOUS
<1>a. /\ pc \in [Conn -> Labels] /\ None \notin Conn
      /\ want \in [Conn -> Handle \union {None}] /\ idx \in [Conn -> Slot]
      /\ put \in [Conn -> Slot] /\ slots \in [Slot -> Client \union {None}]
      /\ None \notin Handle /\ Slot = 0 .. MaxClients - 1 /\ MaxClients \in Nat
  BY NoneFact, CharlaAssumption DEF TypeOK, Slot
<1> USE <1>a DEF registry, userdb, locks, locals, At, Goto, Crash, LoopStep, Receive,
   NextSlot, AfterLogout, NoConflict, Passed, Kept, Asking, LLock, UnderL
<1>0. CASE UNCHANGED vars
  BY <1>0 DEF vars
<1>1. ASSUME NEW t \in Conn, ureg_register(t) PROVE NoConflict'
  BY <1>1 DEF ureg_register
<1>2. ASSUME NEW t \in Conn, user_ref(t) PROVE NoConflict'
  BY <1>2 DEF user_ref
<1>3. ASSUME NEW t \in Conn, user_create(t) PROVE NoConflict'
  BY <1>3 DEF user_create
<1>4. ASSUME NEW t \in Conn, LoginLock(t) PROVE NoConflict'
  BY <1>4 DEF LoginLock
<1>5. ASSUME NEW t \in Conn, Held(t) PROVE NoConflict'
  <2>1. CASE NextSlot(t, "held", "mine") /\ slots[idx[t]] = None
    <3>1. ~LoggedAs(idx[t], want[t]) /\ pc[t] = "held" /\ UNCHANGED <<slots, client, want>>
      BY <1>5, <2>1 DEF Held, LoggedAs
    <3> QED
      BY <2>1, <3>1, NextHeld
  <2>2. CASE slots[idx[t]] # None
    BY <1>5, <2>2 DEF Held
  <2> QED
    BY <1>5, <2>1, <2>2 DEF Held
<1>6. ASSUME NEW t \in Conn, HeldUser(t) PROVE NoConflict'
  <2>1. CASE NextSlot(t, "held", "mine") /\ slots[idx[t]] # None /\ client[slots[idx[t]]].user = None
    <3>1. /\ ~LoggedAs(idx[t], want[t]) /\ pc[t] = "heldUser"
          /\ UNCHANGED <<slots, client, want>>
      BY <1>6, <2>1 DEF HeldUser, LoggedAs
    <3> QED
      BY <2>1, <3>1, NextHeld
  <2>2. CASE slots[idx[t]] = None \/ client[slots[idx[t]]].user # None
    BY <1>6, <2>2 DEF HeldUser
  <2> QED
    BY <1>6, <2>1, <2>2 DEF HeldUser
<1>7. ASSUME NEW t \in Conn, HeldCmp(t) PROVE NoConflict'
  <2> DEFINE c == slots[idx[t]]
  <2>1. CASE c = None \/ client[c].user \in freed \union {None}
    BY <1>7, <2>1 DEF HeldCmp
  <2>2. CASE ~(c = None \/ client[c].user \in freed \union {None})
    <3>1. CASE client[c].user = want[t] /\ client[c].logged
      <4>1. pc' = [pc EXCEPT ![t] = "idle"] /\ UNCHANGED <<slots, client, want, idx>>
        BY <1>7, <2>2, <3>1 DEF HeldCmp
      <4> QED
        BY <4>1
    <3>2. CASE ~(client[c].user = want[t] /\ client[c].logged)
      <4>1. /\ ~LoggedAs(idx[t], want[t]) /\ pc[t] = "heldCmp" /\ NextSlot(t, "held", "mine")
            /\ UNCHANGED <<slots, client, want>>
        BY <1>7, <2>2, <3>2 DEF HeldCmp, LoggedAs
      <4> QED
        BY <4>1, NextHeld
    <3> QED
      BY <3>1, <3>2
  <2> QED
    BY <2>1, <2>2
<1>8. ASSUME NEW t \in Conn, Mine(t) PROVE NoConflict'
  BY <1>8 DEF Mine
<1>9. ASSUME NEW t \in Conn, MineFd(t) PROVE NoConflict'
  BY <1>9 DEF MineFd
<1>10. ASSUME NEW t \in Conn, Free(t) PROVE NoConflict'
  BY <1>10 DEF Free
<1>11. ASSUME NEW t \in Conn, FreeSet(t) PROVE NoConflict'
  BY <1>11 DEF FreeSet
<1>12. ASSUME NEW t \in Conn, SetUser(t) PROVE NoConflict'
  <2>1. UNCHANGED <<slots, want, idx>>
    BY <1>12 DEF SetUser
  <2>2. pc[t] = "setUser" /\ (pc' = pc \/ pc' = [pc EXCEPT ![t] = "setMark"])
    BY <1>12 DEF SetUser
  <2>3. \A u \in Conn : Passed(u)' = Passed(u)
    BY <2>1, <2>2
  <2> QED
    BY <2>1, <2>2, <2>3
<1>13. ASSUME NEW t \in Conn, SetMark(t) PROVE NoConflict'
  BY <1>13 DEF SetMark
<1>14. ASSUME NEW t \in Conn, Started(t) PROVE NoConflict'
  BY <1>14 DEF Started
<1>15. ASSUME NEW t \in Conn, Logout(t) PROVE NoConflict'
  <2>1. UNCHANGED <<slots, client, want>> /\ pc[t] = "logout"
    BY <1>15, LogoutMoves
  <2>2. CASE UNCHANGED <<pc, idx>>
    BY <2>1, <2>2
  <2>3. CASE \E l \in {"logout", "userUnref", "unref", "idle"} : pc' = [pc EXCEPT ![t] = l]
    <3>1. \A u \in Conn \ {t} : pc'[u] = pc[u] /\ idx'[u] = idx[u]
      <4>1. CASE idx' = idx
        BY <2>3, <4>1
      <4>2. CASE \E s \in Slot : idx' = [idx EXCEPT ![t] = s]
        BY <2>3, <4>2
      <4> QED
        BY <1>15, <4>1, <4>2, LogoutMoves
    <3> QED
      BY <2>1, <2>3, <3>1
  <2> QED
    BY <1>15, <2>2, <2>3, LogoutMoves
<1>16. ASSUME NEW t \in Conn, user_unref(t) PROVE NoConflict'
  BY <1>16 DEF user_unref
<1>17. ASSUME NEW t \in Conn, user_free(t) PROVE NoConflict'
  BY <1>17 DEF user_free
<1>18. ASSUME NEW t \in Conn, ClearUser(t) PROVE NoConflict'
  BY <1>18 DEF ClearUser
<1>19. ASSUME NEW t \in Conn, ClearSlot(t) PROVE NoConflict'
  BY <1>19 DEF ClearSlot
<1>20. ASSUME NEW t \in Conn, creg_register_full(t) PROVE NoConflict'
  BY <1>20 DEF creg_register_full
<1>21. ASSUME NEW t \in Conn, creg_store(t) PROVE NoConflict'
  BY <1>21 DEF creg_store
<1>22. ASSUME NEW t \in Conn, EofLogout(t) PROVE NoConflict'
  BY <1>22 DEF EofLogout
<1>23. ASSUME NEW t \in Conn, client_unref(t) PROVE NoConflict'
  BY <1>23 DEF client_unref
<1>24. ASSUME NEW t \in Conn, Accept(t) PROVE NoConflict'
  BY <1>24 DEF Accept
<1>25. ASSUME NEW t \in Conn, LoginRequest(t) PROVE NoConflict'
  BY <1>25 DEF LoginRequest
<1>26. ASSUME NEW t \in Conn, LogoutRequest(t) PROVE NoConflict'
  BY <1>26 DEF LogoutRequest
<1>27. ASSUME NEW t \in Conn, Eof(t) PROVE NoConflict'
  BY <1>27 DEF Eof
<1>28. ASSUME NEW t \in Conn, creg_all_clients_freed(t) PROVE NoConflict'
  BY <1>28 DEF creg_all_clients_freed
<1>29. ASSUME NEW t \in Conn, creg_register(t, "creg", "cregPut") PROVE NoConflict'
  BY <1>29 DEF creg_register
<1>30. ASSUME NEW t \in Conn, creg_register(t, "freeReg", "freePut") PROVE NoConflict'
  BY <1>30 DEF creg_register
<1> QED
  BY <1>0, <1>1, <1>2, <1>3, <1>4, <1>5, <1>6, <1>7, <1>8, <1>9, <1>10, <1>11, <1>12, <1>13,
     <1>14, <1>15, <1>16, <1>17, <1>18, <1>19, <1>20, <1>21, <1>22, <1>23, <1>24, <1>25,
     <1>26, <1>27, <1>28, <1>29, <1>30
  DEF Next, Halted, Environment, Step, Connect, Login, client_logout, Disconnect

(* Every step keeps the result of client_login's first loop.               *)
LEMMA NoConflictStep ==
  ASSUME TypeOK, Control, Exclusion, [Next]_vars
  PROVE  NoConflict'
<1>1. CASE Kept
  BY <1>1, NoConflictKept DEF Control, Exclusion
<1>2. ASSUME NEW t \in Conn, SetMark(t) PROVE NoConflict'
  <2>0. pc[t] \in UnderL /\ pc \in [Conn -> Labels] /\ lockL = t
    BY <1>2 DEF SetMark, At, UnderL, TypeOK, Exclusion, LLock
  <2>1. CASE slots[idx[t]] = None
    <3>1. UNCHANGED <<slots, client, pc, idx, want>>
      BY <1>2, <2>1 DEF SetMark, Crash, registry, locals
    <3> QED
      BY <3>1 DEF NoConflict, Exclusion, Passed, LoggedAs
  <2>2. CASE slots[idx[t]] # None
    <3>1. pc' = [pc EXCEPT ![t] = "started"]
      BY <1>2, <2>2 DEF SetMark, Goto
    <3>2. \A u \in Conn \ {t} : pc[u] \notin UnderL
      BY <2>0 DEF Exclusion, LLock
    <3>3. \A u \in Conn : pc'[u] \notin UnderL
      BY <2>0, <3>1, <3>2 DEF UnderL
    <3>4. \A u \in Conn : Passed(u)' = {}
      BY <3>3 DEF Passed, UnderL
    <3> QED
      BY <3>4 DEF NoConflict
  <2> QED
    BY <2>1, <2>2
<1> QED
  BY <1>1, <1>2, KeptStep DEF Control, Exclusion

(* Every step keeps: one session per handle.                               *)
LEMMA OneSessionStep ==
  ASSUME TypeOK, Control, Exclusion, [Next]_vars
  PROVE  OneSessionPerHandle'
<1>1. CASE Kept
  <2>1. ASSUME NEW r \in Slot, NEW s \in Slot, NEW h \in Handle,
               (LoggedAs(r, h))', (LoggedAs(s, h))'
        PROVE  slots'[r] = slots'[s]
    <3>1. LoggedAs(r, h) /\ LoggedAs(s, h) /\ slots'[r] = slots[r] /\ slots'[s] = slots[s]
      BY <1>1, <2>1 DEF Kept
    <3> QED
      BY <3>1 DEF Exclusion, OneSessionPerHandle
  <2> QED
    BY <2>1 DEF OneSessionPerHandle
<1>2. ASSUME NEW t \in Conn, SetMark(t) PROVE OneSessionPerHandle'
  <2> DEFINE d == slots[idx[t]]
  <2>0. /\ pc[t] = "setMark" /\ idx[t] \in Slot /\ want[t] \in Handle
        /\ slots \in [Slot -> Client \union {None}] /\ client \in [Client -> ClientRec]
    BY <1>2, SlotFacts DEF SetMark, At, TypeOK, Control, Asking, UnderL
  <2>1. CASE d = None
    <3>1. UNCHANGED <<slots, client>>
      BY <1>2, <2>1 DEF SetMark, Crash, registry
    <3> QED
      BY <3>1 DEF OneSessionPerHandle, Exclusion, LoggedAs
  <2>2. CASE d # None
    <3>1. client[d].user \in {want[t], None}
      BY <2>0, <2>2 DEF Exclusion, Marking
    <3>2. UNCHANGED slots
      BY <1>2, <2>2 DEF SetMark
    <3>3. d \in Client
      BY <2>0, <2>2
    <3>4. client'[d].user = client[d].user /\ \A c \in Client \ {d} : client'[c] = client[c]
      BY <1>2, <2>0, <3>3, MarkSet
    <3>5. ASSUME NEW s \in Slot, NEW h \in Handle, (LoggedAs(s, h))', slots[s] # d
          PROVE  LoggedAs(s, h)
      BY <2>0, <3>2, <3>4, <3>5 DEF LoggedAs
    <3>6. ASSUME NEW s \in Slot, NEW h \in Handle, (LoggedAs(s, h))', slots[s] = d
          PROVE  h = want[t]
      BY <3>1, <3>2, <3>4, <3>6, NoneFact DEF LoggedAs
    <3>7. \A s \in Slot : ~LoggedAs(s, want[t])
      BY <2>0 DEF Exclusion, NoConflict, Passed, UnderL
    <3>8. ASSUME NEW r \in Slot, NEW s \in Slot, NEW h \in Handle,
                 (LoggedAs(r, h))', (LoggedAs(s, h))'
          PROVE  slots'[r] = slots'[s]
      <4>1. CASE slots[r] = d \/ slots[s] = d
        BY <2>0, <3>2, <3>5, <3>6, <3>7, <3>8, <4>1
      <4>2. CASE slots[r] # d /\ slots[s] # d
        <5>1. LoggedAs(r, h) /\ LoggedAs(s, h)
          BY <3>5, <3>8, <4>2
        <5> QED
          BY <3>2, <5>1 DEF Exclusion, OneSessionPerHandle
      <4> QED
        BY <4>1, <4>2
    <3> QED
      BY <3>8 DEF OneSessionPerHandle
  <2> QED
    BY <2>1, <2>2
<1> QED
  BY <1>1, <1>2, KeptStep DEF Control, Exclusion
-----------------------------------------------------------------------------
(* The server starts with the right types.                                 *)
LEMMA InitTypeOK == Init => TypeOK
BY CharlaAssumption, LabelFacts, SlotFacts, FreshFact DEF Init, TypeOK

(* The server starts in Control.                                           *)
LEMMA InitControl == Init => Control
BY CharlaAssumption, NoneFact
DEF Init, Control, GLock, UnderG, Absent, Asking, UnderL, Created, Own, Unregistered, Leaving,
    OneUserPerHandle

(* The server starts in Exclusion.                                         *)
LEMMA InitExclusion == Init => Exclusion
BY CharlaAssumption, NoneFact
DEF Init, Exclusion, LLock, UnderL, NoConflict, Passed, Marking, Reserved, OneSessionPerHandle,
    LoggedAs

(* TypeOK and Control together are inductive.                              *)
LEMMA ControlStep == TypeOK /\ Control /\ [Next]_vars => TypeOK' /\ Control'
<1> SUFFICES ASSUME TypeOK, Control, [Next]_vars PROVE TypeOK' /\ Control'
  OBVIOUS
<1>1. TypeOK'
  BY TypeStep DEF Control
<1>2. GLock' /\ Absent' /\ Asking' /\ Created'
  BY GLockStep, AbsentStep, AskingStep, CreatedStep DEF Control
<1>3. Own' /\ Unregistered' /\ Leaving' /\ OneUserPerHandle'
  BY OwnStep, UnregisteredStep, LeavingStep, OneUserStep DEF Control
<1> QED
  BY <1>1, <1>2, <1>3 DEF Control

(* Exclusion is inductive relative to them if only the holder unlocks.     *)
LEMMA ExclusionStep ==
  TypeOK /\ Control /\ Exclusion /\ [Next]_vars /\ [ReleasedByHolder]_vars => Exclusion'
<1> SUFFICES ASSUME TypeOK, Control, Exclusion, [Next]_vars, [ReleasedByHolder]_vars
             PROVE  Exclusion'
  OBVIOUS
<1>1. LLock' /\ Reserved' /\ Marking'
  BY LLockStep, ReservedStep, MarkingStep DEF Control, Exclusion
<1>2. NoConflict' /\ OneSessionPerHandle'
  BY NoConflictStep, OneSessionStep
<1> QED
  BY <1>1, <1>2 DEF Exclusion

(* Every variable of the server keeps its type: in particular the scans of *)
(* client_login and client_logout stay inside the registry, and no thread  *)
(* runs on a CLIENT it was never given.                                    *)
THEOREM TypeCorrect == Spec => [](TypeOK /\ Control)
<1>1. Init => TypeOK /\ Control
  BY InitTypeOK, InitControl
<1>2. TypeOK /\ Control /\ [Next]_vars => (TypeOK /\ Control)'
  BY ControlStep
<1> QED
  BY <1>1, <1>2, PTL DEF Spec

(* ureg_register makes one USER per handle however many threads register   *)
(* it at once.                                                             *)
THEOREM UsersUnique == Spec => []OneUserPerHandle
<1>1. Control => OneUserPerHandle
  BY DEF Control
<1> QED
  BY <1>1, TypeCorrect, PTL

-----------------------------------------------------------------------------
(* With LoginsOnly, the labels of a thread: before it has a CLIENT, and     *)
(* from its request to the end of client_login's scans.                     *)
Before == {"off", "creg", "cregPut", "refused"}
Asked  == {"ureg", "userRef", "userNew", "lockL", "held", "heldUser", "heldCmp",
           "mine", "mineFd", "setUser"}

Home(t) == pc[t] \notin Before

(* What a thread has done to its CLIENT, and where the CLIENT is.          *)
OwnClient(t) ==
  LET c == client[mine[t]] IN
  Home(t) =>
    /\ c.fd = fd[t]
    /\ reqs[t] = 0 \/ pc[t] \in Asked => c.user = None /\ ~c.logged
    /\ pc[t] = "setMark" => c.user = want[t] /\ ~c.logged
    /\ pc[t] = "started" => c.user = want[t] /\ c.logged /\ c.mail = "open"

OwnSlot(t) ==
  Home(t) => \E s \in Slot : slots[s] = mine[t] /\ (pc[t] \in {"mine", "mineFd"} => idx[t] <= s)

(* Where a thread is, and what its scan has in front of it.                *)
Place(t) ==
  /\ pc[t] \in Before \union Asked \union {"idle", "setMark", "started"}
  /\ pc[t] \in Before => reqs[t] = 0
  /\ pc[t] \in Asked \union {"setMark", "started"} => reqs[t] = 1
  /\ pc[t] = "cregPut" => slots[put[t]] = None /\ client[new[t]].fd = fd[t]
  /\ pc[t] \in {"heldUser", "heldCmp", "mineFd"} => slots[idx[t]] # None
  /\ pc[t] = "heldCmp" => client[slots[idx[t]]].user # None
  /\ pc[t] \in {"setUser", "setMark"} => slots[idx[t]] = mine[t]

Orderly ==
  /\ \A t \in Conn : OwnClient(t) /\ OwnSlot(t) /\ Place(t)
  /\ \A s \in Slot : slots[s] # None => \E t \in Conn : Home(t) /\ mine[t] = slots[s]
  /\ \A t, u \in Conn : fd[t] = fd[u] /\ fd[t] # None => t = u
  /\ freed = {} /\ fault \in {None, "user", "array"}

(* A thread registers with an open descriptor.                             *)
Opened == \A t \in Conn : pc[t] \in {"creg", "cregPut"} => fd[t] # None

-----------------------------------------------------------------------------
(* A thread stays in its place while others do not touch what it relies on. *)
LEMMA PlaceKept ==
  ASSUME TypeOK, Created, NEW u \in Conn, OwnClient(u), OwnSlot(u), Place(u),
         pc'[u] = pc[u], fd'[u] = fd[u], mine'[u] = mine[u], want'[u] = want[u],
         reqs'[u] = reqs[u], idx'[u] = idx[u], put'[u] = put[u], new'[u] = new[u],
         Home(u) => client'[mine[u]] = client[mine[u]],
         pc[u] = "cregPut" => client'[new[u]] = client[new[u]] /\ slots'[put[u]] = slots[put[u]],
         \A s \in Slot : slots[s] # None =>
            /\ slots'[s] = slots[s]
            /\ client[slots[s]].user # None => client'[slots[s]].user # None
  PROVE  OwnClient(u)' /\ OwnSlot(u)' /\ Place(u)'
<1>1. OwnClient(u)'
  BY DEF OwnClient, Home
<1>2. OwnSlot(u)'
  <2>1. CASE ~Home(u)
    BY <2>1 DEF OwnSlot, Home
  <2>2. CASE Home(u)
    <3>1. PICK s \in Slot : slots[s] = mine[u] /\ (pc[u] \in {"mine", "mineFd"} => idx[u] <= s)
      BY <2>2 DEF OwnSlot
    <3>2. mine[u] # None
      BY <2>2, NoneFact DEF Home, Before, Created, TypeOK
    <3> QED
      BY <3>1, <3>2 DEF OwnSlot
  <2> QED
    BY <2>1, <2>2
<1>3. Place(u)'
  <2>1. /\ pc[u] \in {"heldUser", "heldCmp", "mineFd"} => slots'[idx[u]] # None
        /\ pc[u] = "heldCmp" => client'[slots'[idx[u]]].user # None
        /\ pc[u] \in {"setUser", "setMark"} => slots'[idx[u]] = mine[u]
    <3>1. idx[u] \in Slot /\ (Home(u) => mine[u] # None)
      BY NoneFact DEF Home, Before, Created, TypeOK
    <3> QED
      BY <3>1 DEF Place, Home, Before
  <2> QED
    BY <2>1 DEF Place
<1> QED
  BY <1>1, <1>2, <1>3
(* Only the thread t moves.                                                *)
Alone(t) == \A u \in Conn \ {t} :
              /\ pc'[u] = pc[u] /\ fd'[u] = fd[u] /\ mine'[u] = mine[u] /\ want'[u] = want[u]
              /\ reqs'[u] = reqs[u] /\ idx'[u] = idx[u] /\ put'[u] = put[u] /\ new'[u] = new[u]

(* A step that changes no thread's CLIENT and none of their slots.         *)
LEMMA OrderlyKept ==
  ASSUME TypeOK, Created, Own, Orderly, NEW t \in Conn, Alone(t),
         OwnClient(t)', OwnSlot(t)', Place(t)',
         Home(t) => Home(t)' /\ mine'[t] = mine[t],
         \A c \in alloc : c # mine[t] /\ ~(pc[t] = "cregPut" /\ c = new[t]) => client'[c] = client[c],
         \A s \in Slot : slots[s] # None =>
            /\ slots'[s] = slots[s]
            /\ client[slots[s]].user # None => client'[slots[s]].user # None,
         \A s \in Slot : slots[s] = None => \/ slots'[s] = None
                                            \/ pc[t] = "cregPut" /\ s = put[t]
                                               /\ Home(t)' /\ mine'[t] = slots'[s],
         \A u \in Conn : u # t /\ pc[u] = "cregPut" => pc[t] # "cregPut",
         \A u \in Conn \ {t} : fd'[u] = fd'[t] => fd'[t] = None,
         freed' = {}, fault' \in {None, "user", "array"}
  PROVE  Orderly'
<1>1. ASSUME NEW u \in Conn \ {t} PROVE OwnClient(u)' /\ OwnSlot(u)' /\ Place(u)'
  <2>1. /\ OwnClient(u) /\ OwnSlot(u) /\ Place(u)
        /\ pc'[u] = pc[u] /\ fd'[u] = fd[u] /\ mine'[u] = mine[u] /\ want'[u] = want[u]
        /\ reqs'[u] = reqs[u] /\ idx'[u] = idx[u] /\ put'[u] = put[u] /\ new'[u] = new[u]
    BY DEF Orderly, Alone
  <2>2. Home(u) => client'[mine[u]] = client[mine[u]]
    <3>1. ASSUME Home(u) PROVE mine[u] \in alloc /\ mine[u] # mine[t]
                               /\ ~(pc[t] = "cregPut" /\ mine[u] = new[t])
      <4>1. mine[u] \in alloc /\ mine[u] # None
        BY <3>1, NoneFact DEF Home, Before, Created, TypeOK
      <4> QED
        BY <4>1 DEF Own
    <3> QED
      BY <3>1
  <2>3. pc[u] = "cregPut" => client'[new[u]] = client[new[u]] /\ slots'[put[u]] = slots[put[u]]
    <3>1. ASSUME pc[u] = "cregPut" PROVE new[u] \in alloc /\ new[u] # mine[t] /\ pc[t] # "cregPut"
      BY <3>1 DEF Created, Own
    <3>2. put[u] \in Slot
      BY DEF TypeOK
    <3>3. ASSUME pc[u] = "cregPut" PROVE slots'[put[u]] = slots[put[u]]
      BY <3>1, <3>2, <3>3
    <3> QED
      BY <3>1, <3>3
  <2> QED
    BY <2>1, <2>2, <2>3, PlaceKept
<1>2. \A u \in Conn : OwnClient(u)' /\ OwnSlot(u)' /\ Place(u)'
  BY <1>1
<1>3. ASSUME NEW s \in Slot, slots'[s] # None
      PROVE  \E u \in Conn : Home(u)' /\ mine'[u] = slots'[s]
  <2>1. CASE slots[s] = None
    BY <1>3, <2>1
  <2>2. CASE slots[s] # None
    <3>1. PICK u \in Conn : Home(u) /\ mine[u] = slots[s]
      BY <2>2 DEF Orderly
    <3>2. Home(u)' /\ mine'[u] = mine[u]
      BY <3>1 DEF Alone, Home
    <3> QED
      BY <2>2, <3>1, <3>2
  <2> QED
    BY <2>1, <2>2
<1>4. ASSUME NEW u \in Conn, NEW v \in Conn, fd'[u] = fd'[v], fd'[u] # None PROVE u = v
  <2>1. CASE u = t \/ v = t
    BY <1>4, <2>1
  <2>2. CASE u # t /\ v # t
    BY <1>4, <2>2 DEF Alone, Orderly
  <2> QED
    BY <2>1, <2>2
<1> QED
  BY <1>2, <1>3, <1>4 DEF Orderly

(* A thread that moves on its own keeps the order of the others.           *)
LEMMA LocalMove ==
  ASSUME TypeOK, Created, Own, Orderly, NEW t \in Conn, Alone(t), Home(t), Home(t)',
         UNCHANGED <<slots, client, mine, new, put, fd, freed>>, fault' \in {None, "user", "array"},
         OwnClient(t)', OwnSlot(t)', Place(t)'
  PROVE  Orderly'
<1>1. pc[t] # "cregPut"
  BY DEF Home, Before
<1>2. \A u \in Conn \ {t} : fd'[u] = fd'[t] => fd'[t] = None
  BY DEF Orderly
<1>3. freed' = {}
  BY DEF Orderly
<1> QED
  BY <1>1, <1>2, <1>3, OrderlyKept

(* A scan that has something to find goes on to it.                        *)
LEMMA ScanOn ==
  ASSUME TypeOK, NEW t \in Conn, NEW first, NEW l, NextSlot(t, first, l),
         NEW s \in Slot, idx[t] <= s, s # idx[t]
  PROVE  pc'[t] = first /\ idx'[t] <= s
<1>1. pc \in [Conn -> Labels] /\ idx \in [Conn -> Slot] /\ Slot = 0 .. MaxClients - 1
      /\ MaxClients \in Nat
  BY CharlaAssumption DEF TypeOK, Slot
<1>2. idx[t] + 1 \in Slot
  BY <1>1
<1> QED
  BY <1>1, <1>2 DEF NextSlot, Goto

(* Turning to the next slot moves this thread only.                        *)
LEMMA ScanNext ==
  ASSUME TypeOK, NEW t \in Conn, NEW first, NEW l, NextSlot(t, first, l)
  PROVE  /\ pc'[t] = first \/ (pc'[t] = l /\ idx'[t] = 0)
         /\ \A u \in Conn \ {t} : pc'[u] = pc[u] /\ idx'[u] = idx[u]
BY DEF TypeOK, NextSlot, Goto

(* A step of client_login up to the second loop: its thread reads.         *)
Reads(t) ==
  /\ UNCHANGED <<slots, client, mine, new, put, fd, freed, want, reqs>>
  /\ fault' \in {None, "user"} /\ Alone(t)
  /\ pc[t] \in Asked \ {"mine", "mineFd", "setUser"}
  /\ pc'[t] \in (Asked \ {"mineFd", "setUser"}) \union {"idle"}
  /\ pc'[t] = "mine" => idx'[t] = 0
  /\ pc'[t] \in {"heldUser", "heldCmp"} => slots[idx'[t]] # None
  /\ pc'[t] = "heldCmp" => client[slots[idx'[t]]].user # None

(* Reading a slot during a scan keeps the order.                           *)
LEMMA OrderlyReads ==
  ASSUME TypeOK, Created, Own, Orderly, NEW t \in Conn, Reads(t)
  PROVE  Orderly'
<1>1. /\ OwnClient(t) /\ OwnSlot(t) /\ Place(t)
  BY DEF Orderly
<1>2. Home(t) /\ Home(t)'
  BY DEF Reads, Home, Before, Asked
<1>3. OwnClient(t)'
  BY <1>1, <1>2 DEF OwnClient, Reads, Asked
<1>4. OwnSlot(t)'
  <2>1. PICK s \in Slot : slots[s] = mine[t]
    BY <1>1, <1>2 DEF OwnSlot
  <2>2. pc'[t] \in {"mine", "mineFd"} => idx'[t] <= s
    BY SlotFacts DEF Reads, Slot
  <2>3. slots'[s] = mine'[t]
    BY <2>1 DEF Reads
  <2> QED
    BY <2>2, <2>3 DEF OwnSlot
<1>5. Place(t)'
  BY <1>1 DEF Place, Reads, Asked, Before
<1> QED
  BY <1>2, <1>3, <1>4, <1>5, LocalMove DEF Reads

(* Steps of client_login up to the second loop read only.                  *)
LEMMA LoginReads ==
  ASSUME TypeOK, Orderly, NEW t \in Conn,
         \/ ureg_register(t) \/ user_ref(t) \/ user_create(t) \/ LoginLock(t)
         \/ Held(t) \/ HeldUser(t) \/ HeldCmp(t)
  PROVE  Reads(t)
<1>1. /\ Place(t) /\ freed = {}
      /\ pc \in [Conn -> Labels] /\ idx \in [Conn -> Slot]
  BY SlotFacts DEF Orderly, TypeOK
<1> USE <1>1 DEF At, Crash, Goto, Alone, registry, userdb, locks, locals, LoopStep, Reads, Asked
<1>2. CASE ureg_register(t)
  BY <1>2 DEF ureg_register
<1>3. CASE user_ref(t)
  BY <1>3 DEF user_ref
<1>4. CASE user_create(t)
  BY <1>4 DEF user_create
<1>5. CASE LoginLock(t)
  BY <1>5 DEF LoginLock
<1>6. CASE Held(t)
  <2>1. CASE slots[idx[t]] = None
    BY <1>6, <2>1, ScanNext DEF Held
  <2>2. CASE slots[idx[t]] # None
    BY <1>6, <2>2 DEF Held
  <2> QED
    BY <2>1, <2>2
<1>7. CASE HeldUser(t)
  <2>1. slots[idx[t]] # None
    BY <1>7 DEF HeldUser, Place
  <2>2. CASE client[slots[idx[t]]].user = None
    BY <1>7, <2>1, <2>2, ScanNext DEF HeldUser
  <2>3. CASE client[slots[idx[t]]].user # None
    BY <1>7, <2>1, <2>3 DEF HeldUser
  <2> QED
    BY <2>2, <2>3
<1>8. CASE HeldCmp(t)
  <2>1. slots[idx[t]] # None /\ client[slots[idx[t]]].user # None
    BY <1>8 DEF HeldCmp, Place
  <2>2. CASE client[slots[idx[t]]].user = want[t] /\ client[slots[idx[t]]].logged
    BY <1>8, <2>1, <2>2 DEF HeldCmp
  <2>3. CASE ~(client[slots[idx[t]]].user = want[t] /\ client[slots[idx[t]]].logged)
    BY <1>8, <2>1, <2>3, ScanNext DEF HeldCmp
  <2> QED
    BY <2>2, <2>3
<1> QED
  BY <1>2, <1>3, <1>4, <1>5, <1>6, <1>7, <1>8
(* The second loop finds the CLIENT of its thread and no other.            *)
LEMMA OrderlySearch ==
  ASSUME TypeOK, Created, Own, LoginsOnly, Orderly, NEW t \in Conn, Mine(t) \/ MineFd(t)
  PROVE  Orderly'
<1>1. /\ OwnClient(t) /\ OwnSlot(t) /\ Place(t) /\ freed = {} /\ fault = None
      /\ pc \in [Conn -> Labels] /\ idx \in [Conn -> Slot] /\ pc[t] \in {"mine", "mineFd"}
  BY DEF Orderly, TypeOK, Mine, MineFd, At
<1>2. Home(t) /\ mine[t] # None
  BY <1>1, NoneFact DEF Home, Before, Created, TypeOK
<1>3. PICK s \in Slot : slots[s] = mine[t] /\ idx[t] <= s
  BY <1>1, <1>2 DEF OwnSlot
<1> DEFINE Stays(l) == pc'[t] = l /\ LoopStep(t) /\ Alone(t)
<1>4. \/ Stays("mine") /\ idx'[t] <= s
      \/ Stays("mineFd") /\ idx'[t] = idx[t] /\ slots[idx[t]] # None
      \/ Stays("setUser") /\ idx'[t] = idx[t] /\ slots[idx[t]] = mine[t]
  <2>1. CASE Mine(t)
    <3>1. CASE slots[idx[t]] = None
      <4>1. s # idx[t] /\ NextSlot(t, "mine", "free") /\ LoopStep(t)
        BY <1>2, <1>3, <2>1, <3>1 DEF Mine
      <4>2. pc'[t] = "mine" /\ idx'[t] <= s
        BY <1>3, <4>1, ScanOn
      <4>3. Alone(t)
        BY <4>1, ScanNext DEF Alone, LoopStep
      <4> QED
        BY <4>1, <4>2, <4>3
    <3>2. CASE slots[idx[t]] # None
      BY <1>1, <2>1, <3>2 DEF Mine, Goto, LoopStep, Alone
    <3> QED
      BY <3>1, <3>2
  <2>2. CASE MineFd(t)
    <3>1. slots[idx[t]] # None
      BY <1>1, <2>2 DEF MineFd, At, Place
    <3>2. CASE slots[idx[t]] = mine[t]
      <4>1. client[mine[t]].fd = fd[t] /\ ~client[mine[t]].logged
        BY <1>1, <1>2 DEF OwnClient, Asked
      <4> QED
        BY <1>1, <2>2, <3>1, <3>2, <4>1 DEF MineFd, Goto, LoopStep, Alone
    <3>3. CASE slots[idx[t]] # mine[t]
      <4>1. PICK u \in Conn : Home(u) /\ mine[u] = slots[idx[t]]
        BY <1>1, <3>1 DEF Orderly
      <4>2. client[slots[idx[t]]].fd = fd[u] /\ u # t
        BY <3>3, <4>1 DEF Orderly, OwnClient
      <4>3. client[slots[idx[t]]].fd # fd[t]
        <5>1. client[mine[t]].fd = fd[t]
          BY <1>1, <1>2 DEF OwnClient
        <5> QED
          BY <1>1, <4>2, <5>1 DEF Orderly, LoginsOnly
      <4>4. NextSlot(t, "mine", "free") /\ LoopStep(t) /\ s # idx[t]
        BY <1>3, <2>2, <3>1, <3>3, <4>3 DEF MineFd
      <4>5. pc'[t] = "mine" /\ idx'[t] <= s
        BY <1>3, <4>4, ScanOn
      <4>6. Alone(t)
        BY <4>4, ScanNext DEF Alone, LoopStep
      <4> QED
        BY <4>4, <4>5, <4>6
    <3> QED
      BY <3>2, <3>3
  <2> QED
    BY <2>1, <2>2
<1>5. /\ pc'[t] \in {"mine", "mineFd", "setUser"} /\ Alone(t) /\ LoopStep(t)
      /\ pc'[t] \in {"mine", "mineFd"} => idx'[t] <= s
      /\ pc'[t] = "mineFd" => slots[idx'[t]] # None
      /\ pc'[t] = "setUser" => slots[idx'[t]] = mine[t]
  BY <1>3, <1>4
<1> HIDE DEF Stays
<1>6. UNCHANGED <<slots, client, mine, new, put, fd, freed, want, reqs, fault>>
  BY <1>5 DEF LoopStep, registry, userdb
<1>7. Home(t)' /\ OwnClient(t)'
  BY <1>1, <1>2, <1>5, <1>6 DEF OwnClient, Home, Before, Asked
<1>8. OwnSlot(t)'
  BY <1>3, <1>5, <1>6 DEF OwnSlot
<1>9. Place(t)'
  BY <1>1, <1>5, <1>6 DEF Place, Asked, Before
<1> QED
  BY <1>1, <1>2, <1>5, <1>6, <1>7, <1>8, <1>9, LocalMove
(* What client_login writes, it writes to the CLIENT of its thread.        *)
LEMMA OrderlyWrites ==
  ASSUME TypeOK, Created, Own, Asking, Orderly, NEW t \in Conn, SetUser(t) \/ SetMark(t)
  PROVE  Orderly'
<1> DEFINE d == mine[t]
<1>1. /\ OwnClient(t) /\ OwnSlot(t) /\ Place(t) /\ freed = {} /\ fault = None
      /\ pc \in [Conn -> Labels] /\ pc[t] \in {"setUser", "setMark"}
      /\ client \in [Client -> ClientRec]
  BY DEF Orderly, TypeOK, SetUser, SetMark, At
<1>2. Home(t) /\ d \in Client /\ d # None /\ slots[idx[t]] = d /\ want[t] \in Handle
  BY <1>1, NoneFact DEF Home, Before, Created, TypeOK, Place, Asking, UnderL
<1>3. /\ UNCHANGED <<slots, mine, new, put, fd, freed, want, reqs, idx, fault>>
      /\ \A c \in Client \ {d} : client'[c] = client[c]
      /\ client'[d].fd = fd[t]
      /\ \/ /\ pc[t] = "setUser" /\ pc' = [pc EXCEPT ![t] = "setMark"]
            /\ client'[d].user = want[t] /\ ~client'[d].logged
         \/ /\ pc[t] = "setMark" /\ pc' = [pc EXCEPT ![t] = "started"]
            /\ client'[d].user = want[t] /\ client'[d].logged /\ client'[d].mail = "open"
  <2>1. CASE SetUser(t)
    <3> DEFINE r == [client[d] EXCEPT !.fd = fd[t], !.user = want[t], !.ref = client[mine[t]].ref]
    <3>1. /\ pc[t] = "setUser" /\ client' = [client EXCEPT ![d] = r]
          /\ pc' = [pc EXCEPT ![t] = "setMark"]
          /\ UNCHANGED <<slots, mine, new, put, fd, freed, want, reqs, idx, fault>>
      BY <1>2, <2>1 DEF SetUser, At, Goto, userdb, locals
    <3>2. r.user = want[t] /\ r.fd = fd[t] /\ r.logged = client[d].logged
      BY <1>1, <1>2 DEF ClientRec
    <3>3. ~client[d].logged
      BY <1>1, <1>2, <3>1 DEF OwnClient, Asked
    <3> HIDE DEF r
    <3> QED
      BY <1>1, <1>2, <3>1, <3>2, <3>3
  <2>2. CASE SetMark(t)
    <3> DEFINE r == [client[d] EXCEPT !.logged = TRUE, !.mail = "open"]
    <3>1. /\ pc[t] = "setMark" /\ client' = [client EXCEPT ![d] = r]
          /\ pc' = [pc EXCEPT ![t] = "started"]
          /\ UNCHANGED <<slots, mine, new, put, fd, freed, want, reqs, idx, fault>>
      BY <1>2, <2>2 DEF SetMark, At, Goto, userdb, locals
    <3>2. r.user = client[d].user /\ r.fd = client[d].fd /\ r.logged /\ r.mail = "open"
      BY <1>1, <1>2 DEF ClientRec
    <3>3. client[d].user = want[t] /\ client[d].fd = fd[t]
      BY <1>1, <1>2, <3>1 DEF OwnClient
    <3> HIDE DEF r
    <3> QED
      BY <1>1, <1>2, <3>1, <3>2, <3>3
  <2> QED
    BY <2>1, <2>2
<1>4. Alone(t) /\ Home(t)'
  BY <1>1, <1>3 DEF Alone, Home, Before
<1>5. OwnClient(t)'
  BY <1>1, <1>2, <1>3 DEF OwnClient, Place, Asked
<1>6. OwnSlot(t)'
  BY <1>1, <1>2, <1>3 DEF OwnSlot
<1>7. Place(t)'
  BY <1>1, <1>2, <1>3 DEF Place, Asked, Before
<1>8. \A s \in Slot : slots[s] # None =>
         (client[slots[s]].user # None => client'[slots[s]].user # None)
  <2>1. client'[d].user # None
    BY <1>2, <1>3, NoneFact
  <2>2. \A s \in Slot : slots[s] # None => slots[s] \in Client
    BY DEF TypeOK
  <2> QED
    BY <1>3, <2>1, <2>2
<1>9. /\ \A c \in alloc : c # d => client'[c] = client[c]
      /\ \A u \in Conn \ {t} : fd'[u] = fd'[t] => fd'[t] = None
      /\ pc[t] # "cregPut" /\ freed' = {} /\ fault' = None
  BY <1>1, <1>3 DEF TypeOK, Orderly
<1> QED
  BY <1>2, <1>3, <1>4, <1>5, <1>6, <1>7, <1>8, <1>9, OrderlyKept

(* A login ends with the mailbox of its thread; a request is for a thread  *)
(* that has made none.                                                     *)
LEMMA OrderlyIdle ==
  ASSUME TypeOK, Created, Own, LoginsOnly', Orderly, NEW t \in Conn,
         \/ Started(t) \/ LoginRequest(t) \/ LogoutRequest(t) \/ creg_all_clients_freed(t)
  PROVE  Orderly'
<1>1. /\ OwnClient(t) /\ OwnSlot(t) /\ Place(t) /\ freed = {} /\ fault = None
      /\ pc \in [Conn -> Labels] /\ pc[t] \in {"started", "idle"} /\ reqs \in [Conn -> Nat]
  BY DEF Orderly, TypeOK, Started, LoginRequest, LogoutRequest, creg_all_clients_freed, At, Receive
<1>2. Home(t)
  BY <1>1 DEF Home, Before
<1>3. /\ UNCHANGED <<slots, client, mine, new, put, fd, freed>>
      /\ Alone(t) /\ pc'[t] \in {"idle", "ureg"}
      /\ fault' \in {None, "array"}
      /\ reqs'[t] = 0 => reqs[t] = 0
      /\ pc'[t] = "ureg" => reqs[t] = 0 /\ reqs'[t] = 1
  <2>1. CASE Started(t)
    <3>1. client[mine[t]].mail = "open" /\ reqs[t] = 1
      BY <1>1, <1>2, <2>1 DEF Started, At, OwnClient, Place
    <3> QED
      BY <1>1, <2>1, <3>1 DEF Started, At, Goto, Alone, registry, userdb, locals
  <2>2. CASE LoginRequest(t)
    <3>1. reqs'[t] = reqs[t] + 1 /\ reqs'[t] <= 1
      BY <1>1, <2>2 DEF LoginRequest, Receive, LoginsOnly
    <3> QED
      BY <1>1, <2>2, <3>1 DEF LoginRequest, Receive, Goto, Alone, registry, userdb
  <2>3. CASE LogoutRequest(t)
    <3>1. reqs'[t] = reqs[t] + 1 /\ reqs'[t] <= 1
      BY <1>1, <2>3 DEF LogoutRequest, Receive, LoginsOnly
    <3>2. client[mine[t]].user = None
      BY <1>1, <1>2, <3>1 DEF OwnClient
    <3> QED
      BY <1>1, <2>3, <3>1, <3>2 DEF LogoutRequest, Receive, Goto, Alone, registry, userdb
  <2>4. CASE creg_all_clients_freed(t)
    BY <1>1, <2>4 DEF creg_all_clients_freed, Crash, At, Alone, registry, userdb, locals
  <2> QED
    BY <2>1, <2>2, <2>3, <2>4
<1>4. Home(t)' /\ OwnClient(t)'
  BY <1>1, <1>2, <1>3 DEF OwnClient, Home, Before, Asked
<1>5. OwnSlot(t)'
  BY <1>1, <1>2, <1>3 DEF OwnSlot, Home, Before
<1>6. Place(t)'
  BY <1>1, <1>3 DEF Place, Asked, Before
<1> QED
  BY <1>1, <1>2, <1>3, <1>4, <1>5, <1>6, LocalMove
(* A connection comes in and is registered, or refused.                    *)
LEMMA OrderlyConnect ==
  ASSUME TypeOK, Created, GLock, Own, Unregistered, Orderly, NEW t \in Conn,
         \/ Accept(t) \/ creg_register(t, "creg", "cregPut") \/ creg_register_full(t)
         \/ creg_store(t)
  PROVE  Orderly'
<1>1. /\ OwnClient(t) /\ OwnSlot(t) /\ Place(t) /\ freed = {} /\ fault \in {None, "user", "array"}
      /\ \A u \in Conn : u # t /\ pc[u] = "cregPut" => pc[t] # "cregPut"
      /\ \A s \in Slot : slots[s] # None => slots[s] \in alloc
      /\ slots \in [Slot -> Client \union {None}] /\ client \in [Client -> ClientRec]
      /\ pc \in [Conn -> Labels] /\ put \in [Conn -> Slot] /\ reqs \in [Conn -> Nat]
      /\ new \in [Conn -> Client \union {None}] /\ mine \in [Conn -> Client \union {None}]
      /\ fd \in [Conn -> Fd \union {None}] /\ alloc \subseteq Client /\ None \notin Client
  BY NoneFact DEF Orderly, TypeOK, GLock, UnderG, Created
<1> USE <1>1
<1>2. CASE Accept(t)
  <2>1. PICK f \in Fd \ OpenFds : fd' = [fd EXCEPT ![t] = f]
    BY <1>2 DEF Accept
  <2>2. /\ pc[t] = "off" /\ pc'[t] = "creg" /\ Alone(t)
        /\ UNCHANGED <<slots, client, mine, new, put, freed, want, reqs, idx, fault>>
    BY <1>2, <2>1 DEF Accept, At, Goto, Alone, registry, userdb
  <2>3. \A u \in Conn \ {t} : fd'[u] = fd'[t] => fd'[t] = None
    BY <2>1 DEF OpenFds
  <2>4. ~Home(t) /\ OwnClient(t)' /\ OwnSlot(t)' /\ Place(t)'
    BY <2>2 DEF Home, Before, OwnClient, OwnSlot, Place, Asked
  <2> QED
    BY <2>2, <2>3, <2>4, OrderlyKept
<1>3. CASE creg_register(t, "creg", "cregPut")
  <2>1. NewClient \in Client /\ NewClient \notin alloc
    BY <1>3, FreshClient DEF creg_register
  <2>2. PICK s \in FreeSlots : put' = [put EXCEPT ![t] = s]
    BY <1>3 DEF creg_register
  <2>3. /\ pc[t] = "creg" /\ pc'[t] = "cregPut" /\ Alone(t) /\ new'[t] = NewClient
        /\ UNCHANGED <<slots, mine, fd, freed, want, reqs, idx, fault>>
        /\ client' = [client EXCEPT ![NewClient] = [Fresh EXCEPT !.fd = fd[t]]]
    BY <1>3, <2>2 DEF creg_register, At, Goto, Alone, userdb
  <2>4. client'[NewClient].fd = fd[t] /\ \A c \in alloc : client'[c] = client[c]
    <3>1. [Fresh EXCEPT !.fd = fd[t]].fd = fd[t]
      BY DEF Fresh
    <3> QED
      BY <2>1, <2>3, <3>1
  <2>5. slots[s] = None /\ put'[t] = s
    BY <2>2 DEF FreeSlots
  <2>6. ~Home(t) /\ OwnClient(t)' /\ OwnSlot(t)' /\ Place(t)'
    BY <2>3, <2>4, <2>5 DEF Home, Before, OwnClient, OwnSlot, Place, Asked
  <2>7. \A u \in Conn \ {t} : fd'[u] = fd'[t] => fd'[t] = None
    BY <2>3 DEF Orderly
  <2> QED
    BY <2>3, <2>4, <2>6, <2>7, OrderlyKept
<1>4. CASE creg_register_full(t)
  <2>1. NewClient \in Client /\ NewClient \notin alloc
    BY <1>4, FreshClient DEF creg_register_full
  <2>2. pc[t] = "creg"
    BY <1>4 DEF creg_register_full, At, Place, Before, Asked
  <2>3. /\ pc'[t] = "refused" /\ Alone(t) /\ fd'[t] = None
        /\ UNCHANGED <<slots, mine, freed, new, put, want, reqs, idx, fault>>
        /\ client' = [client EXCEPT ![NewClient] = [Fresh EXCEPT !.fd = fd[t]]]
    BY <1>4, <2>2 DEF creg_register_full, At, Goto, Alone, userdb
  <2>4. \A c \in alloc : client'[c] = client[c]
    BY <2>1, <2>3
  <2>5. ~Home(t) /\ OwnClient(t)' /\ OwnSlot(t)' /\ Place(t)'
    BY <2>2, <2>3 DEF Home, Before, OwnClient, OwnSlot, Place, Asked
  <2> QED
    BY <2>2, <2>3, <2>4, <2>5, OrderlyKept
<1>5. CASE creg_store(t)
  <2>1. pc[t] = "cregPut"
    BY <1>5 DEF creg_store, At, Place, Before, Asked
  <2>2. /\ pc'[t] = "idle" /\ Alone(t)
        /\ UNCHANGED <<client, fd, freed, new, put, want, reqs, idx, fault>>
        /\ slots' = [slots EXCEPT ![put[t]] = new[t]] /\ mine'[t] = new[t]
    BY <1>5, <2>1 DEF creg_store, At, Goto, Alone, userdb
  <2>3. /\ slots[put[t]] = None /\ client[new[t]].fd = fd[t] /\ reqs[t] = 0
        /\ client[new[t]].user = None /\ ~client[new[t]].logged
    BY <2>1 DEF Place, Unregistered, Before
  <2>4. ~Home(t) /\ Home(t)' /\ OwnClient(t)'
    BY <2>1, <2>2, <2>3 DEF Home, Before, OwnClient, Asked
  <2>5. OwnSlot(t)' /\ Place(t)'
    BY <2>1, <2>2, <2>3 DEF OwnSlot, Place, Asked, Before
  <2>6. \A u \in Conn \ {t} : fd'[u] = fd'[t] => fd'[t] = None
    BY <2>2 DEF Orderly
  <2> QED
    BY <2>1, <2>2, <2>3, <2>4, <2>5, <2>6, OrderlyKept
<1> QED
  BY <1>2, <1>3, <1>4, <1>5
(* Requests are not taken back, and a connection that has ended stays so.  *)
Onward == /\ \A t \in Conn : reqs[t] <= reqs'[t]
          /\ \A t \in Conn : fd[t] = None /\ pc[t] \notin {"off", "refused"}
                             => fd'[t] = None /\ pc'[t] \notin {"off", "refused"}

(* Requests are only counted up, and a closed connection stays closed.     *)
LEMMA OnwardStep == TypeOK /\ Opened /\ [Next]_vars => Onward /\ Opened'
<1> SUFFICES ASSUME TypeOK, Opened, [Next]_vars PROVE Onward /\ Opened'
  OBVIOUS
<1>a. /\ pc \in [Conn -> Labels] /\ reqs \in [Conn -> Nat] /\ fd \in [Conn -> Fd \union {None}]
      /\ None \notin Fd
  BY NoneFact DEF TypeOK
<1> USE <1>a DEF registry, userdb, locks, locals, At, Goto, Crash, LoopStep, Receive,
   NextSlot, AfterLogout, Onward, Opened
<1>0. CASE UNCHANGED vars
  BY <1>0 DEF vars
<1>1. ASSUME NEW t \in Conn, ureg_register(t) PROVE Onward /\ Opened'
  BY <1>1 DEF ureg_register
<1>2. ASSUME NEW t \in Conn, user_ref(t) PROVE Onward /\ Opened'
  BY <1>2 DEF user_ref
<1>3. ASSUME NEW t \in Conn, user_create(t) PROVE Onward /\ Opened'
  BY <1>3 DEF user_create
<1>4. ASSUME NEW t \in Conn, LoginLock(t) PROVE Onward /\ Opened'
  BY <1>4 DEF LoginLock
<1>5. ASSUME NEW t \in Conn, Held(t) PROVE Onward /\ Opened'
  BY <1>5 DEF Held
<1>6. ASSUME NEW t \in Conn, HeldUser(t) PROVE Onward /\ Opened'
  BY <1>6 DEF HeldUser
<1>7. ASSUME NEW t \in Conn, HeldCmp(t) PROVE Onward /\ Opened'
  BY <1>7 DEF HeldCmp
<1>8. ASSUME NEW t \in Conn, Mine(t) PROVE Onward /\ Opened'
  BY <1>8 DEF Mine
<1>9. ASSUME NEW t \in Conn, MineFd(t) PROVE Onward /\ Opened'
  BY <1>9 DEF MineFd
<1>10. ASSUME NEW t \in Conn, Free(t) PROVE Onward /\ Opened'
  BY <1>10 DEF Free
<1>11. ASSUME NEW t \in Conn, FreeSet(t) PROVE Onward /\ Opened'
  BY <1>11 DEF FreeSet
<1>12. ASSUME NEW t \in Conn, SetUser(t) PROVE Onward /\ Opened'
  BY <1>12 DEF SetUser
<1>13. ASSUME NEW t \in Conn, SetMark(t) PROVE Onward /\ Opened'
  BY <1>13 DEF SetMark
<1>14. ASSUME NEW t \in Conn, Started(t) PROVE Onward /\ Opened'
  BY <1>14 DEF Started
<1>15. ASSUME NEW t \in Conn, Logout(t) PROVE Onward /\ Opened'
  BY <1>15 DEF Logout
<1>16. ASSUME NEW t \in Conn, user_unref(t) PROVE Onward /\ Opened'
  BY <1>16 DEF user_unref
<1>17. ASSUME NEW t \in Conn, user_free(t) PROVE Onward /\ Opened'
  BY <1>17 DEF user_free
<1>18. ASSUME NEW t \in Conn, ClearUser(t) PROVE Onward /\ Opened'
  BY <1>18 DEF ClearUser
<1>19. ASSUME NEW t \in Conn, ClearSlot(t) PROVE Onward /\ Opened'
  BY <1>19 DEF ClearSlot
<1>20. ASSUME NEW t \in Conn, creg_register_full(t) PROVE Onward /\ Opened'
  BY <1>20 DEF creg_register_full
<1>21. ASSUME NEW t \in Conn, creg_store(t) PROVE Onward /\ Opened'
  BY <1>21 DEF creg_store
<1>22. ASSUME NEW t \in Conn, EofLogout(t) PROVE Onward /\ Opened'
  BY <1>22 DEF EofLogout
<1>23. ASSUME NEW t \in Conn, client_unref(t) PROVE Onward /\ Opened'
  BY <1>23 DEF client_unref
<1>24. ASSUME NEW t \in Conn, Accept(t) PROVE Onward /\ Opened'
  BY <1>24 DEF Accept
<1>25. ASSUME NEW t \in Conn, LoginRequest(t) PROVE Onward /\ Opened'
  BY <1>25 DEF LoginRequest
<1>26. ASSUME NEW t \in Conn, LogoutRequest(t) PROVE Onward /\ Opened'
  BY <1>26 DEF LogoutRequest
<1>27. ASSUME NEW t \in Conn, Eof(t) PROVE Onward /\ Opened'
  BY <1>27 DEF Eof
<1>28. ASSUME NEW t \in Conn, creg_all_clients_freed(t) PROVE Onward /\ Opened'
  BY <1>28 DEF creg_all_clients_freed
<1>29. ASSUME NEW t \in Conn, creg_register(t, "creg", "cregPut") PROVE Onward /\ Opened'
  BY <1>29 DEF creg_register
<1>30. ASSUME NEW t \in Conn, creg_register(t, "freeReg", "freePut") PROVE Onward /\ Opened'
  BY <1>30 DEF creg_register
<1> QED
  BY <1>0, <1>1, <1>2, <1>3, <1>4, <1>5, <1>6, <1>7, <1>8, <1>9, <1>10, <1>11, <1>12, <1>13,
     <1>14, <1>15, <1>16, <1>17, <1>18, <1>19, <1>20, <1>21, <1>22, <1>23, <1>24, <1>25,
     <1>26, <1>27, <1>28, <1>29, <1>30
  DEF Next, Halted, Environment, Step, Connect, Login, client_logout, Disconnect

(* What threads do while nobody logs out or leaves.                        *)
Registers(t) == \/ Accept(t) \/ creg_register(t, "creg", "cregPut") \/ creg_register_full(t)
                \/ creg_store(t)
LogsIn(t) == \/ ureg_register(t) \/ user_ref(t) \/ user_create(t) \/ LoginLock(t)
             \/ Held(t) \/ HeldUser(t) \/ HeldCmp(t)
Asks(t) == Started(t) \/ LoginRequest(t) \/ LogoutRequest(t) \/ creg_all_clients_freed(t)

(* No logout, third loop or end of a connection while LoginsOnly holds.    *)
LEMMA OrderlyActions ==
  ASSUME TypeOK, Orderly, LoginsOnly', [Next]_vars
  PROVE  \/ UNCHANGED vars
         \/ \E t \in Conn : \/ Registers(t) \/ LogsIn(t) \/ Mine(t) \/ MineFd(t)
                            \/ SetUser(t) \/ SetMark(t) \/ Asks(t)
<1>1. ASSUME NEW t \in Conn
      PROVE  /\ ~Free(t) /\ ~FreeSet(t) /\ ~creg_register(t, "freeReg", "freePut")
             /\ ~client_logout(t) /\ ~Disconnect(t)
  <2>1. pc[t] \in Before \union Asked \union {"idle", "setMark", "started"}
    BY DEF Orderly, Place
  <2> QED
    BY <2>1 DEF Before, Asked, At, Free, FreeSet, creg_register, client_logout, Logout, user_unref,
                user_free, ClearUser, ClearSlot, Disconnect, EofLogout, client_unref
<1>2. ASSUME NEW t \in Conn PROVE ~Eof(t)
  BY DEF Eof, Goto, LoginsOnly, TypeOK
<1> QED
  BY <1>1, <1>2 DEF Next, Halted, Environment, Step, Connect, Login, Registers, LogsIn, Asks

(* Orderly is inductive as long as LoginsOnly holds.                       *)
LEMMA OrderlyStep ==
  ASSUME TypeOK, Control, LoginsOnly, Orderly, LoginsOnly', [Next]_vars
  PROVE  Orderly'
<1>1. CASE UNCHANGED vars
  BY <1>1 DEF vars, registry, userdb, locks, locals, Orderly, OwnClient, OwnSlot, Place, Home
<1>2. ASSUME NEW t \in Conn, Registers(t) PROVE Orderly'
  BY <1>2, OrderlyConnect DEF Control, Registers
<1>3. ASSUME NEW t \in Conn, LogsIn(t) PROVE Orderly'
  BY <1>3, LoginReads, OrderlyReads DEF Control, LogsIn
<1>4. ASSUME NEW t \in Conn, Mine(t) \/ MineFd(t) PROVE Orderly'
  BY <1>4, OrderlySearch DEF Control
<1>5. ASSUME NEW t \in Conn, SetUser(t) \/ SetMark(t) PROVE Orderly'
  BY <1>5, OrderlyWrites DEF Control
<1>6. ASSUME NEW t \in Conn, Asks(t) PROVE Orderly'
  BY <1>6, OrderlyIdle DEF Control, Asks
<1> QED
  BY <1>1, <1>2, <1>3, <1>4, <1>5, <1>6, OrderlyActions

(* The invariant of a server whose clients only connect and log in.        *)
Quiet == TypeOK /\ Control /\ Opened /\ (LoginsOnly => Orderly)

(* Nobody has a CLIENT when the server starts.                             *)
LEMMA QuietInit == Init => Quiet
<1> SUFFICES ASSUME Init PROVE Quiet
  OBVIOUS
<1>1. TypeOK /\ Control
  BY InitTypeOK, InitControl
<1>2. Opened /\ Orderly
  BY CharlaAssumption
  DEF Init, Opened, Orderly, OwnClient, OwnSlot, Place, Home, Before, Asked
<1> QED
  BY <1>1, <1>2 DEF Quiet

(* Requests are counted and an ended connection stays ended, so that       *)
(* LoginsOnly held before, too.                                            *)
LEMMA QuietStep == Quiet /\ [Next]_vars => Quiet'
<1> SUFFICES ASSUME Quiet, [Next]_vars PROVE Quiet'
  OBVIOUS
<1>1. TypeOK' /\ Control'
  BY ControlStep DEF Quiet
<1>2. Onward /\ Opened'
  BY OnwardStep DEF Quiet
<1>3. ASSUME LoginsOnly' PROVE Orderly'
  <2>1. LoginsOnly
    <3>1. reqs \in [Conn -> Nat] /\ reqs' \in [Conn -> Nat]
      BY <1>1 DEF Quiet, TypeOK
    <3>2. \A t \in Conn : reqs[t] <= 1
      BY <1>2, <1>3, <3>1 DEF Onward, LoginsOnly
    <3>3. \A t \in Conn : fd[t] = None => pc[t] \in {"off", "refused"}
      BY <1>2, <1>3 DEF Onward, LoginsOnly
    <3> QED
      BY <3>2, <3>3 DEF LoginsOnly
  <2> QED
    BY <1>3, <2>1, OrderlyStep DEF Quiet
<1> QED
  BY <1>1, <1>2, <1>3 DEF Quiet

(* So Quiet holds in every behaviour.                                      *)
LEMMA QuietAlways == Spec => []Quiet
BY QuietInit, QuietStep, PTL DEF Spec

(* What a thread did that wrote past the users, or freed the registry.     *)
Cause == /\ fault = "user" => freed # {} \/ Len(users) + 1 >= UserCap
         /\ fault = "array" => Lists

(* After a fault nothing changes any more.                                 *)
LEMMA CauseStep == TypeOK /\ Cause /\ [Next]_vars => Cause'
<1> SUFFICES ASSUME TypeOK, Cause, [Next]_vars PROVE Cause'
  OBVIOUS
<1>1. CASE UNCHANGED vars
  BY <1>1 DEF vars, userdb, Cause
<1>2. ASSUME NEW t \in Conn, ureg_register(t) \/ user_create(t) PROVE Cause'
  <2>1. fault = None
    BY <1>2 DEF ureg_register, user_create, At
  <2>2. Len(users) \in Nat
    BY DEF TypeOK
  <2>3. ScanFreed(want[t]) => freed # {}
    BY DEF ScanFreed
  <2>4. CASE fault' = fault
    BY <2>1, <2>4, CharlaAssumption DEF Cause, Faults
  <2>5. CASE fault' = "user"
    BY <1>2, <2>2, <2>3, <2>5, CharlaAssumption
    DEF ureg_register, user_create, Crash, userdb, Cause
  <2> QED
    BY <1>2, <2>4, <2>5 DEF ureg_register, user_create, Crash
<1>3. ASSUME NEW t \in Conn, creg_all_clients_freed(t) PROVE Cause'
  BY <1>3 DEF creg_all_clients_freed, Crash, Cause
<1>4. ASSUME fault = None, fault' \notin {"user", "array"} PROVE Cause'
  BY <1>4 DEF Cause
<1>5. CASE Halted
  BY <1>5 DEF Halted, vars, userdb, Cause
<1>6. ASSUME NEW t \in Conn, Environment(t) \/ Step(t),
             ~ureg_register(t), ~user_create(t), ~creg_all_clients_freed(t)
      PROVE  fault = None /\ fault' \notin {"user", "array"}
  <2>1. None \notin {"user", "array"}
    BY CharlaAssumption DEF Faults
  <2>2. CASE Environment(t) \/ Connect(t) \/ Disconnect(t)
    BY <1>6, <2>1, <2>2
    DEF Environment, Accept, LoginRequest, LogoutRequest, Receive, Eof, Connect, creg_register,
        creg_register_full, creg_store, Disconnect, EofLogout, client_unref, At
  <2>3. CASE client_logout(t)
    BY <2>1, <2>3
    DEF client_logout, Logout, user_unref, user_free, ClearUser, ClearSlot, LoopStep, Crash, At
  <2>4. CASE Login(t)
    BY <1>6, <2>1, <2>4
    DEF Login, user_ref, LoginLock, Held, HeldUser, HeldCmp, Mine, MineFd, Free, creg_register,
        FreeSet, SetUser, SetMark, Started, LoopStep, Crash, At
  <2> QED
    BY <1>6, <2>2, <2>3, <2>4 DEF Step
<1> QED
  BY <1>1, <1>2, <1>3, <1>4, <1>5, <1>6 DEF Next

(* Connecting and logging in brings no thread to a NULL or freed pointer,  *)
(* for any number of connections, slots and handles: the registry's slots  *)
(* are only filled, and client_login finds the CLIENT of its own thread.   *)
(* What is left is a full array of users, or a request for the list.       *)
THEOREM PointersKept == Spec => []LoginsKeepPointers
<1>1. Init => Cause
  BY CharlaAssumption DEF Init, Cause, Faults
<1>2. Quiet /\ Cause => LoginsKeepPointers
  BY DEF Quiet, Cause, LoginsKeepPointers, Orderly
<1>3. Quiet /\ Cause /\ [Next]_vars => Cause'
  BY CauseStep DEF Quiet
<1> QED
  BY <1>1, <1>2, <1>3, QuietAlways, PTL DEF Spec

(* The first LOGIN, once acknowledged, has logged in its own connection.   *)
THEOREM CallersMarked == Spec => []LoginMarksCaller
<1>1. Quiet => LoginMarksCaller
  BY DEF Quiet, LoginMarksCaller, Orderly, OwnClient, Home, Before
<1> QED
  BY <1>1, QuietAlways, PTL
-----------------------------------------------------------------------------
(***************************************************************************)
(* Why client_logout never comes to the unlock at its end.  Its scan goes  *)
(* past a slot only if that holds a CLIENT of another USER.  So it meets   *)
(* its own CLIENT or, where threads have interfered, a CLIENT without a    *)
(* USER, which it dereferences.                                            *)
(***************************************************************************)
(* The slots a thread is about to write, or whose CLIENT it is marking.    *)
Clears(y, s) == pc[y] \in {"userUnref", "userTest", "clearUser", "clearSlot"} /\ idx[y] = s
Stores(y, s) == pc[y] \in {"cregPut", "freePut"} /\ put[y] = s
Fills(y, s)  == pc[y] \in {"freeReg", "freePut", "freeSet"} /\ idx[y] = s
Marks(y, s)  == pc[y] = "setMark" /\ idx[y] = s
Marked(c)    == client[c].logged \/ \E y \in Conn, s \in Slot : Marks(y, s) /\ slots[s] = c

LogsOut(f)  == pc[f] = "logout"
LastStep(f) == pc[f] = "clearSlot"

(* The CLIENT in a slot, and that of a thread, has a USER.                 *)
SlotNamed(s)  == slots[s] # None /\ client[slots[s]].user # None
HasName(f)    == mine[f] # None /\ client[mine[f]].user # None
SlotMarked(s) == Marked(slots[s])
IsMarked(f)   == Marked(mine[f])

(* A slot that nobody is about to write and whose CLIENT has no USER but   *)
(* is marked, or about to be, stays like that: no login chooses a marked   *)
(* CLIENT.                                                                 *)
Bare(q)  == /\ slots[q] # None /\ ~SlotNamed(q)
            /\ \A y \in Conn : ~Clears(y, q) /\ ~Stores(y, q)
Snare(q) == /\ Bare(q)
            /\ \/ client[slots[q]].logged /\ \A y \in Conn : ~Fills(y, q)
               \/ \E y \in Conn : Marks(y, q)
Trap == \E q \in Slot : Snare(q)

(* The scan of a logout has still to come to slot q.                       *)
Ahead(f, q) == LogsOut(f) => idx[f] <= q
Trapped(f)  == \E q \in Slot : Snare(q) /\ Ahead(f, q)

(* The CLIENT of a thread is marked, or about to be, and in a slot its     *)
(* scan will come to and no other thread is about to clear.                *)
Findable(f) == /\ \E r \in Slot : /\ slots[r] = mine[f] /\ Ahead(f, r)
                                  /\ \A y \in Conn \ {f} : ~Clears(y, r)
               /\ IsMarked(f)

Finds == \A f \in Conn : HasName(f) => Findable(f) \/ Trapped(f)

(* Threads that have the same USER are both trapped.                       *)
Doubles ==
  \A f, y \in Conn :
    f # y /\ HasName(f) /\ HasName(y) /\ client[mine[f]].user = client[mine[y]].user
    => Trapped(f)

(* Unless there is a trap, a logout clears the slot of its own CLIENT,     *)
(* nobody is about to fill that slot, the CLIENT is marked and so gets no  *)
(* other USER.                                                             *)
ClearsOwn == \A y \in Conn, s \in Slot :
  Clears(y, s) /\ ~Trap => /\ mine[y] # None /\ slots[s] = mine[y] /\ IsMarked(y)
                           /\ \A t \in Conn : ~Fills(t, s)
                           /\ LastStep(y) => ~HasName(y)

(* A CLIENT of the registry that has a USER is marked or about to be.      *)
NamedMarked == \A s \in Slot :
  SlotNamed(s) /\ ~Trap => SlotMarked(s)

(* No CLIENT of a thread is overwritten, nor a CLIENT that has a USER.     *)
StoresFree == \A y \in Conn, s \in Slot :
  Stores(y, s) => slots[s] = None \/ \A f \in Conn : slots[s] # mine[f]
FillsFree == \A y \in Conn, s \in Slot : Fills(y, s) => ~SlotNamed(s)

(* The CLIENT of a thread is in one slot.                                  *)
OneSlot == \A f \in Conn, r, s \in Slot :
  mine[f] # None /\ slots[r] = mine[f] /\ slots[s] = mine[f] => r = s

LogoutNamed == \A f \in Conn : LogsOut(f) => HasName(f)

Paths == /\ Finds /\ Doubles /\ ClearsOwn /\ NamedMarked
         /\ StoresFree /\ FillsFree /\ OneSlot /\ LogoutNamed

-----------------------------------------------------------------------------
(* A step leaves the USER and the mark of the registry's and the threads'  *)
(* CLIENTs alone.                                                          *)
NamesKept ==
  /\ \A s \in Slot : slots[s] # None => /\ client'[slots[s]].user = client[slots[s]].user
                                        /\ client'[slots[s]].logged = client[slots[s]].logged
  /\ \A f \in Conn : mine[f] # None => /\ client'[mine[f]].user = client[mine[f]].user
                                       /\ client'[mine[f]].logged = client[mine[f]].logged

(* What thread y is about to write does not change.                        *)
Stands(y) == \A s \in Slot : /\ (Clears(y, s))' <=> Clears(y, s)
                             /\ (Stores(y, s))' <=> Stores(y, s)
                             /\ (Fills(y, s))' <=> Fills(y, s)
                             /\ (Marks(y, s))' <=> Marks(y, s)

(* Nor does how far its logout is.                                         *)
Stays(y) == /\ Stands(y)
            /\ LogsOut(y)' <=> LogsOut(y)
            /\ LastStep(y)' <=> LastStep(y)
            /\ \A s \in Slot : (Ahead(y, s))' <=> Ahead(y, s)
Others(t) == \A y \in Conn \ {t} : Stays(y)

(* A step of t that writes only its own label, idx and put.                *)
LEMMA OthersStay ==
  ASSUME TypeOK, NEW t \in Conn, NEW l, pc' = [pc EXCEPT ![t] = l],
         \A y \in Conn \ {t} : idx'[y] = idx[y] /\ put'[y] = put[y]
  PROVE  Others(t) /\ pc'[t] = l
<1>1. pc \in [Conn -> Labels]
  BY DEF TypeOK
<1> QED
  BY <1>1 DEF Others, Stays, Stands, Clears, Stores, Fills, Marks, Ahead, LogsOut, LastStep

(* A step that writes no slot, no name and no mark: a thread may choose an *)
(* empty slot, or start a logout.                                          *)
LEMMA SameKept ==
  ASSUME Paths, UNCHANGED <<slots, mine>>, NamesKept,
         \A y \in Conn, s \in Slot : /\ (Clears(y, s))' <=> Clears(y, s)
                                     /\ (Marks(y, s))' <=> Marks(y, s)
                                     /\ (Stores(y, s))' => Stores(y, s) \/ slots[s] = None
                                     /\ (Fills(y, s))' => Fills(y, s) \/ slots[s] = None,
         \A y \in Conn, s \in Slot : Ahead(y, s) => (Ahead(y, s))',
         \A y \in Conn : LogsOut(y)' => HasName(y),
         \A y \in Conn : LastStep(y)' => LastStep(y)
  PROVE  Paths'
<1>1. \A q \in Slot : Snare(q) => (Snare(q))'
  BY DEF Snare, Bare, SlotNamed, NamesKept
<1>2. /\ Trap => Trap'
      /\ \A f \in Conn : Trapped(f) => Trapped(f)'
  BY <1>1 DEF Trap, Trapped
<1>3. /\ \A f \in Conn : HasName(f)' <=> HasName(f)
      /\ \A s \in Slot : SlotNamed(s)' <=> SlotNamed(s)
  BY DEF HasName, SlotNamed, NamesKept
<1>4. \A f \in Conn : mine[f] # None /\ IsMarked(f) => IsMarked(f)'
  BY DEF Marked, IsMarked, NamesKept
<1>5. \A s \in Slot : SlotNamed(s) /\ SlotMarked(s) => SlotMarked(s)'
  BY DEF Marked, SlotMarked, NamesKept, SlotNamed
<1>6. Finds'
  BY <1>2, <1>3, <1>4 DEF Paths, Finds, Findable, HasName
<1>7. Doubles'
  BY <1>2, <1>3 DEF Paths, Doubles, HasName, NamesKept
<1>8. ClearsOwn'
  <2> SUFFICES ASSUME NEW y \in Conn, NEW s \in Slot, (Clears(y, s))', ~Trap'
      PROVE  /\ mine'[y] # None /\ slots'[s] = mine'[y] /\ IsMarked(y)'
             /\ \A t \in Conn : ~(Fills(t, s))'
             /\ LastStep(y)' => ~HasName(y)'
    BY DEF ClearsOwn
  <2>1. /\ mine[y] # None /\ slots[s] = mine[y] /\ IsMarked(y)
        /\ \A t \in Conn : ~Fills(t, s)
        /\ LastStep(y) => ~HasName(y)
    BY <1>2 DEF Paths, ClearsOwn
  <2> QED
    BY <2>1, <1>3, <1>4
<1>9. NamedMarked' /\ StoresFree' /\ FillsFree'
  BY <1>2, <1>3, <1>5 DEF Paths, NamedMarked, StoresFree, FillsFree, SlotNamed
<1>10. OneSlot' /\ LogoutNamed'
  BY <1>3 DEF Paths, OneSlot, LogoutNamed
<1> QED
  BY <1>6, <1>7, <1>8, <1>9, <1>10 DEF Paths

(* What a step of thread t leaves alone if it springs no trap.             *)
LEMMA TrapsStay ==
  ASSUME NEW t \in Conn, Others(t), \A q \in Slot : Snare(q) => (Snare(q))',
         \A q \in Slot : Ahead(t, q) => (Ahead(t, q))'
  PROVE  /\ Trap => Trap'
         /\ \A f \in Conn : Trapped(f) => Trapped(f)'
BY DEF Others, Stays, Trap, Trapped

(* Who is at a label of a mutex is there alone, and a thread that clears   *)
(* or marks has a CLIENT.                                                  *)
LEMMA Ground ==
  ASSUME TypeOK, Control, LLock
  PROVE  /\ \A y \in Conn, s \in Slot : Clears(y, s) => mine[y] # None
         /\ \A t, y \in Conn, s \in Slot : pc[t] \in UnderG /\ t # y => ~Stores(y, s)
         /\ \A t, y \in Conn, s \in Slot : pc[t] \in UnderL /\ t # y => ~Fills(y, s) /\ ~Marks(y, s)
         /\ \A t \in Conn : pc[t] = "logout" => mine[t] # None
<1>1. /\ None \notin Conn /\ None \notin Client /\ alloc \subseteq Client
  BY NoneFact DEF TypeOK
<1>2. \A t \in Conn : lockG = t <=> pc[t] \in UnderG
  BY DEF Control, GLock
<1>3. \A t \in Conn : lockL = t <=> pc[t] \in UnderL
  BY DEF LLock
<1>4. \A t \in Conn : pc[t] \notin {"off", "creg", "cregPut", "refused"} => mine[t] \in alloc
  BY DEF Control, Created
<1>5. \A y \in Conn, s \in Slot : Clears(y, s) => mine[y] # None
  BY <1>1, <1>4 DEF Clears
<1>6. \A y \in Conn, s \in Slot : Stores(y, s) => pc[y] \in UnderG
  BY DEF Stores, UnderG
<1>7. \A y \in Conn, s \in Slot : Fills(y, s) \/ Marks(y, s) => pc[y] \in UnderL
  BY DEF Fills, Marks, UnderL
<1>8. \A t \in Conn : pc[t] = "logout" => mine[t] # None
  BY <1>1, <1>4
<1> QED
  BY <1>2, <1>3, <1>5, <1>6, <1>7, <1>8

(* cr->clients[i] = new_client: a slot that a scan of client_login is on   *)
(* may get another CLIENT, and that is a trap.                             *)
LEMMA StoreKept ==
  ASSUME TypeOK, Control, LLock, Paths, NEW t \in Conn, creg_store(t)
  PROVE  Paths'
<1> DEFINE p == put[t]
           n == new[t]
<1>1. /\ pc[t] \in {"cregPut", "freePut"} /\ p \in Slot /\ slots \in [Slot -> Client \union {None}]
      /\ slots' = [slots EXCEPT ![p] = n] /\ UNCHANGED <<client, idx, put>>
      /\ n \in Client /\ n # None
      /\ \/ mine' = mine
         \/ mine' = [mine EXCEPT ![t] = n]
      /\ mine \in [Conn -> Client \union {None}]
  BY NoneFact DEF creg_store, At, TypeOK, Control, Created
<1>2. client[n].user = None /\ (\A s \in Slot : slots[s] # n) /\ (\A f \in Conn : mine[f] # n)
  BY <1>1 DEF Control, Unregistered, Own
<1>3. Others(t) /\ \E l \in {"idle", "freeSet"} : pc'[t] = l /\ (l = "idle" <=> pc[t] = "cregPut")
  <2>1. CASE pc[t] = "cregPut"
    <3>1. pc' = [pc EXCEPT ![t] = "idle"]
      BY <2>1 DEF creg_store, At, Goto
    <3> QED
      BY <1>1, <2>1, <3>1, OthersStay
  <2>2. CASE pc[t] = "freePut"
    <3>1. pc' = [pc EXCEPT ![t] = "freeSet"]
      BY <2>2 DEF creg_store, At, Goto
    <3> QED
      BY <1>1, <2>2, <3>1, OthersStay
  <2> QED
    BY <1>1, <2>1, <2>2
<1>4. /\ \A s \in Slot : /\ (Fills(t, s))' <=> Fills(t, s)
                         /\ ~Clears(t, s) /\ ~(Clears(t, s))' /\ ~Marks(t, s) /\ ~(Marks(t, s))'
                         /\ ~(Stores(t, s))' /\ (Stores(t, s) <=> s = p)
                         /\ (Ahead(t, s))'
      /\ ~LogsOut(t)' /\ ~LastStep(t)' /\ Stores(t, p)
  BY <1>1, <1>3 DEF Fills, Clears, Marks, Stores, Ahead, LogsOut, LastStep
<1>5. \A y \in Conn, s \in Slot : ~(Stores(y, s))' /\ (Stores(y, s) => y = t)
  BY <1>1, <1>3, <1>4, Ground DEF Others, Stays, Stands, UnderG
<1>6. /\ \A y \in Conn, s \in Slot : /\ (Fills(y, s))' <=> Fills(y, s)
                                     /\ (Clears(y, s))' <=> Clears(y, s)
                                     /\ (Marks(y, s))' <=> Marks(y, s)
      /\ \A y \in Conn : /\ LogsOut(y)' => LogsOut(y) /\ y # t
                         /\ LastStep(y)' => LastStep(y)
      /\ \A y \in Conn \ {t}, s \in Slot : (Ahead(y, s))' <=> Ahead(y, s)
      /\ \A y \in Conn, s \in Slot : Ahead(y, s) => (Ahead(y, s))'
  BY <1>3, <1>4 DEF Others, Stays, Stands
<1>7. \A s \in Slot : s # p => slots'[s] = slots[s]
  BY <1>1
<1>8. slots'[p] = n /\ \A f \in Conn : mine'[f] = mine[f] \/ (f = t /\ mine'[f] = n)
  BY <1>1
<1> HIDE DEF p, n
<1>9. \A q \in Slot : Snare(q) => q # p /\ (Snare(q))'
  BY <1>1, <1>4, <1>5, <1>6, <1>7 DEF Snare, Bare, SlotNamed
<1>10. /\ Trap => Trap'
       /\ \A f \in Conn : Trapped(f) => Trapped(f)'
  BY <1>3, <1>6, <1>9, TrapsStay
<1>11. \A f \in Conn : mine[f] # None => slots[p] # mine[f]
  BY <1>1, <1>4 DEF Paths, StoresFree
<1>12. \A f \in Conn : /\ HasName(f)' => HasName(f) /\ mine'[f] = mine[f]
                       /\ LogsOut(f)' /\ HasName(f) => HasName(f)'
  BY <1>1, <1>2, <1>6, <1>8 DEF HasName
<1>13. \A s \in Slot : SlotNamed(s)' => s # p /\ SlotNamed(s)
  BY <1>1, <1>2, <1>7, <1>8 DEF SlotNamed
<1>14. \A f \in Conn : mine[f] # None /\ mine'[f] = mine[f] /\ IsMarked(f) => IsMarked(f)'
  BY <1>1, <1>6, <1>7, <1>11 DEF IsMarked, Marked
<1>15. Finds'
  BY <1>6, <1>7, <1>10, <1>11, <1>12, <1>14 DEF Paths, Finds, Findable, HasName
<1>16. Doubles'
  BY <1>1, <1>10, <1>12 DEF Paths, Doubles
<1>17. ClearsOwn'
  <2> SUFFICES ASSUME NEW y \in Conn, NEW s \in Slot, (Clears(y, s))', ~Trap'
      PROVE  /\ mine'[y] # None /\ slots'[s] = mine'[y] /\ IsMarked(y)'
             /\ \A u \in Conn : ~(Fills(u, s))'
             /\ LastStep(y)' => ~HasName(y)'
    BY DEF ClearsOwn
  <2>1. /\ mine[y] # None /\ slots[s] = mine[y] /\ IsMarked(y)
        /\ \A u \in Conn : ~Fills(u, s)
        /\ LastStep(y) => ~HasName(y)
    BY <1>6, <1>10 DEF Paths, ClearsOwn
  <2>2. y # t /\ s # p
    BY <1>4, <1>11, <2>1
  <2> QED
    BY <1>6, <1>7, <1>8, <1>12, <1>14, <2>1, <2>2
<1>18. NamedMarked'
  <2> SUFFICES ASSUME NEW s \in Slot, SlotNamed(s)', ~Trap' PROVE SlotMarked(s)'
    BY DEF NamedMarked
  <2>1. SlotMarked(s) /\ s # p
    BY <1>10, <1>13 DEF Paths, NamedMarked
  <2>2. \A y \in Conn : ~Marks(y, p)
    <3> SUFFICES ASSUME NEW y \in Conn, Marks(y, p) PROVE Trap'
      OBVIOUS
    <3>1. CASE \E x \in Conn : Clears(x, p)
      <4>1. Trap
        BY <1>1, <1>11, <3>1 DEF Paths, ClearsOwn
      <4> QED
        BY <1>10, <4>1
    <3>2. CASE \A x \in Conn : ~Clears(x, p)
      <4>1. \A x \in Slot : x = p => (Snare(x))'
        BY <1>1, <1>2, <1>5, <1>6, <1>8, <3>2 DEF Snare, Bare, SlotNamed
      <4> QED
        BY <1>1, <4>1 DEF Trap
    <3> QED
      BY <3>1, <3>2
  <2> QED
    BY <1>1, <1>6, <1>7, <2>1, <2>2 DEF SlotMarked, Marked
<1>19. StoresFree' /\ FillsFree'
  BY <1>5, <1>6, <1>13 DEF Paths, StoresFree, FillsFree
<1>20. OneSlot'
  BY <1>2, <1>7, <1>8, <1>11 DEF Paths, OneSlot
<1>21. LogoutNamed'
  BY <1>6, <1>12 DEF Paths, LogoutNamed
<1> QED
  BY <1>15, <1>16, <1>17, <1>18, <1>19, <1>20, <1>21 DEF Paths

(* all_clients[i] = the new CLIENT: the slot holds no CLIENT of a thread   *)
(* that has a USER, although it may have been filled meanwhile.            *)
LEMMA FreeSetKept ==
  ASSUME TypeOK, Control, LLock, Reserved, Paths, NEW t \in Conn, FreeSet(t)
  PROVE  Paths'
<1> DEFINE p == idx[t]
           n == new[t]
<1>1. /\ pc[t] = "freeSet" /\ p \in Slot /\ slots \in [Slot -> Client \union {None}]
      /\ slots' = [slots EXCEPT ![p] = n] /\ UNCHANGED <<client, idx, put, mine>>
      /\ n \in Client /\ n # None /\ pc' = [pc EXCEPT ![t] = "setUser"]
  BY NoneFact DEF FreeSet, At, Goto, TypeOK, Control, Created, locals
<1>2. client[n].user = None /\ (\A f \in Conn : mine[f] # n)
  BY <1>1 DEF Control, Own, Reserved
<1>3. Others(t) /\ pc'[t] = "setUser"
  BY <1>1, OthersStay
<1>4. /\ \A s \in Slot : /\ ~(Fills(t, s))' /\ ~Clears(t, s) /\ ~(Clears(t, s))'
                         /\ ~Marks(t, s) /\ ~(Marks(t, s))' /\ ~Stores(t, s) /\ ~(Stores(t, s))'
                         /\ (Ahead(t, s))'
      /\ ~LogsOut(t)' /\ ~LastStep(t)' /\ Fills(t, p)
  BY <1>1, <1>3 DEF Fills, Clears, Marks, Stores, Ahead, LogsOut, LastStep
<1>5. \A y \in Conn, s \in Slot : /\ ~(Fills(y, s))' /\ (Fills(y, s) => y = t)
                                  /\ ~Marks(y, s) /\ ~(Marks(y, s))'
  BY <1>1, <1>3, <1>4, Ground DEF Others, Stays, Stands, UnderL
<1>6. /\ \A y \in Conn, s \in Slot : /\ (Stores(y, s))' <=> Stores(y, s)
                                     /\ (Clears(y, s))' <=> Clears(y, s)
      /\ \A y \in Conn : /\ LogsOut(y)' => LogsOut(y)
                         /\ LastStep(y)' => LastStep(y)
      /\ \A y \in Conn, s \in Slot : Ahead(y, s) => (Ahead(y, s))'
  BY <1>3, <1>4 DEF Others, Stays, Stands
<1>7. slots'[p] = n /\ \A s \in Slot : s # p => slots'[s] = slots[s]
  BY <1>1
<1> HIDE DEF p, n
<1>8. \A q \in Slot : Snare(q) => q # p /\ (Snare(q))'
  BY <1>1, <1>4, <1>5, <1>6, <1>7 DEF Snare, Bare, SlotNamed
<1>9. /\ Trap => Trap'
      /\ \A f \in Conn : Trapped(f) => Trapped(f)'
  BY <1>3, <1>6, <1>8, TrapsStay
<1>10. ~SlotNamed(p)
  BY <1>1, <1>4 DEF Paths, FillsFree
<1>11. \A f \in Conn : HasName(f) => slots[p] # mine[f]
  BY <1>1, <1>10 DEF HasName, SlotNamed
<1>12. \A f \in Conn : /\ HasName(f)' <=> HasName(f)
                       /\ IsMarked(f) => IsMarked(f)'
  BY <1>1, <1>5 DEF HasName, IsMarked, Marked
<1>13. \A s \in Slot : SlotNamed(s)' => /\ s # p /\ SlotNamed(s)
                                        /\ SlotMarked(s) => SlotMarked(s)'
  BY <1>1, <1>2, <1>5, <1>7 DEF SlotNamed, SlotMarked, Marked
<1>14. Finds'
  BY <1>1, <1>6, <1>7, <1>9, <1>11, <1>12 DEF Paths, Finds, Findable
<1>15. Doubles'
  BY <1>1, <1>9, <1>12 DEF Paths, Doubles
<1>16. ClearsOwn'
  <2> SUFFICES ASSUME NEW y \in Conn, NEW s \in Slot, (Clears(y, s))', ~Trap'
      PROVE  /\ mine'[y] # None /\ slots'[s] = mine'[y] /\ IsMarked(y)'
             /\ \A u \in Conn : ~(Fills(u, s))'
             /\ LastStep(y)' => ~HasName(y)'
    BY DEF ClearsOwn
  <2>1. /\ mine[y] # None /\ slots[s] = mine[y] /\ IsMarked(y)
        /\ \A u \in Conn : ~Fills(u, s)
        /\ LastStep(y) => ~HasName(y)
    BY <1>6, <1>9 DEF Paths, ClearsOwn
  <2>2. s # p
    BY <1>4, <2>1
  <2> QED
    BY <1>1, <1>5, <1>6, <1>7, <1>12, <2>1, <2>2
<1>17. NamedMarked' /\ FillsFree'
  BY <1>5, <1>9, <1>13 DEF Paths, NamedMarked, FillsFree
<1>18. StoresFree'
  BY <1>1, <1>2, <1>6, <1>7 DEF Paths, StoresFree
<1>19. OneSlot'
  BY <1>1, <1>2, <1>7 DEF Paths, OneSlot
<1>20. LogoutNamed'
  BY <1>6, <1>12 DEF Paths, LogoutNamed
<1> QED
  BY <1>14, <1>15, <1>16, <1>17, <1>18, <1>19, <1>20 DEF Paths

(* all_clients[i]'s user: the CLIENT is in its slot, is now about to be    *)
(* marked, and whoever has the same USER already is trapped.               *)
LEMMA SetUserKept ==
  ASSUME TypeOK, Control, Exclusion, Paths, NEW t \in Conn, SetUser(t), fault' = None
  PROVE  Paths'
<1> DEFINE p == idx[t]
           d == slots[idx[t]]
<1>0. d # None /\ pc[t] = "setUser" /\ fault = None
  BY NoneFact DEF SetUser, At, Crash, Faults
<1>1. /\ p \in Slot /\ slots \in [Slot -> Client \union {None}] /\ d \in Client /\ d = slots[p]
      /\ client \in [Client -> ClientRec]
      /\ UNCHANGED <<slots, idx, put, mine>> /\ pc' = [pc EXCEPT ![t] = "setMark"]
      /\ mine \in [Conn -> Client \union {None}] /\ want[t] \in Handle /\ want[t] # None
      /\ ~client[d].logged
  BY <1>0, NoneFact
  DEF SetUser, At, Goto, TypeOK, Control, Asking, UnderL, locals, Exclusion, Marking
<1>2. /\ \A c \in Client \ {d} : client'[c] = client[c]
      /\ client'[d].user = want[t] /\ ~client'[d].logged
  BY <1>0, <1>1, UserSet
<1>3. Others(t) /\ pc'[t] = "setMark"
  BY <1>1, OthersStay
<1>4. /\ \A s \in Slot : /\ ~Clears(t, s) /\ ~(Clears(t, s))' /\ ~(Fills(t, s))' /\ ~Fills(t, s)
                         /\ ~Marks(t, s) /\ ~Stores(t, s) /\ ~(Stores(t, s))'
                         /\ (Marks(t, s))' <=> s = p
                         /\ (Ahead(t, s))'
      /\ ~LogsOut(t)' /\ ~LastStep(t)'
  BY <1>0, <1>1, <1>3 DEF Fills, Clears, Marks, Stores, Ahead, LogsOut, LastStep
<1>5. /\ \A y \in Conn, s \in Slot : ~Marks(y, s) /\ ~Fills(y, s) /\ ~(Fills(y, s))'
      /\ \A f \in Conn : LogsOut(f) => mine[f] # None
  BY <1>0, <1>3, <1>4, Ground DEF Others, Stays, Stands, UnderL, Exclusion, LogsOut
<1>6. /\ \A y \in Conn, s \in Slot : /\ (Stores(y, s))' <=> Stores(y, s)
                                     /\ (Clears(y, s))' <=> Clears(y, s)
      /\ \A y \in Conn : /\ LogsOut(y)' => LogsOut(y)
                         /\ LastStep(y)' => LastStep(y)
      /\ \A y \in Conn, s \in Slot : Ahead(y, s) => (Ahead(y, s))'
  BY <1>3, <1>4 DEF Others, Stays, Stands
<1>7. \A h \in Handle, s \in Slot : h = want[t] => ~LoggedAs(s, h)
  BY <1>0 DEF Exclusion, NoConflict, Passed, UnderL
<1> HIDE DEF p, d
<1>8. /\ \A s \in Slot : slots[s] # None => client'[slots[s]].logged = client[slots[s]].logged
      /\ \A f \in Conn : mine[f] # None => client'[mine[f]].logged = client[mine[f]].logged
  <2>1. \A c \in Client : client'[c].logged = client[c].logged
    <3> SUFFICES ASSUME NEW c \in Client PROVE client'[c].logged = client[c].logged
      OBVIOUS
    <3>1. CASE c = d
      <4>1. client[d].logged = FALSE /\ client'[d].logged = client[d].logged
        BY <1>0, <1>1, UserSet DEF ClientRec, d
      <4> QED
        BY <3>1, <4>1
    <3>2. CASE c # d
      BY <1>2, <3>2
    <3> QED
      BY <3>1, <3>2
  <2> QED
    BY <1>1, <2>1
<1>9. \A q \in Slot : Snare(q) => (Snare(q))'
  BY <1>1, <1>2, <1>5, <1>6, <1>8 DEF Snare, Bare, SlotNamed
<1>10. /\ Trap => Trap'
       /\ \A f \in Conn : Trapped(f) => Trapped(f)'
  BY <1>3, <1>6, <1>9, TrapsStay
<1>11. \A f \in Conn : mine[f] # d => (HasName(f)' <=> HasName(f))
  BY <1>1, <1>2 DEF HasName
<1>12. \A f \in Conn : mine[f] # None /\ IsMarked(f) => mine[f] # d /\ IsMarked(f)'
  BY <1>1, <1>5, <1>8 DEF IsMarked, Marked
<1>13. \A f \in Conn : mine[f] = d => IsMarked(f)'
  BY <1>1, <1>4 DEF IsMarked, Marked
<1>14. ASSUME NEW f \in Conn, mine[f] = d
       PROVE  /\ HasName(f) => Trapped(f)
              /\ Trap => Trapped(f)
              /\ Findable(f)' \/ Trapped(f)'
  <2>1. HasName(f) => Trapped(f)
    BY <1>0, <1>12, <1>14 DEF Paths, Finds, Findable
  <2>2. ~HasName(f) => ~LogsOut(f)
    BY DEF Paths, LogoutNamed
  <2>3. Trap => Trapped(f)
    BY <2>1, <2>2 DEF Trap, Trapped, Ahead
  <2>4. CASE Trap \/ HasName(f)
    BY <1>10, <2>1, <2>3, <2>4
  <2>5. CASE ~Trap /\ ~HasName(f)
    <3>1. ASSUME NEW y \in Conn \ {f} PROVE ~Clears(y, p)
      <4>1. Clears(y, p) => mine[y] # None /\ mine[y] = d
        BY <1>1, <2>5 DEF Paths, ClearsOwn
      <4> QED
        BY <1>0, <1>14, <4>1 DEF Control, Own
    <3>2. slots'[p] = mine'[f] /\ p \in Slot /\ ~LogsOut(f)'
      BY <1>1, <1>6, <1>14, <2>2, <2>5
    <3>3. Findable(f)'
      <4>1. \A y \in Conn \ {f} : ~Clears(y, p)
        BY <3>1
      <4>2. \A r \in Slot : r = p => /\ \A y \in Conn \ {f} : ~(Clears(y, r))'
                                     /\ (Ahead(f, r))'
        BY <1>6, <3>2, <4>1 DEF Ahead
      <4> QED
        BY <1>13, <1>14, <3>2, <4>2 DEF Findable
    <3> QED
      BY <2>1, <2>3, <3>3
  <2> QED
    BY <2>1, <2>3, <2>4, <2>5
<1>15. Finds'
  <2> SUFFICES ASSUME NEW f \in Conn, HasName(f)', mine[f] # d PROVE Findable(f)' \/ Trapped(f)'
    BY <1>14 DEF Finds
  <2>1. HasName(f) /\ mine[f] # None
    BY <1>11 DEF HasName
  <2>2. Findable(f) \/ Trapped(f)
    BY <2>1 DEF Paths, Finds
  <2>3. Findable(f) => Findable(f)'
    BY <1>1, <1>6, <1>12, <2>1 DEF Findable
  <2> QED
    BY <1>10, <2>2, <2>3
<1>16. ASSUME NEW f \in Conn, HasName(f), mine[f] # d, client[mine[f]].user = want[t]
       PROVE  Trapped(f)
  <2>1. ASSUME Findable(f) PROVE FALSE
    <3>1. PICK r \in Slot : slots[r] = mine[f]
      BY <2>1 DEF Findable
    <3>2. client[mine[f]].logged /\ mine[f] # None
      BY <1>5, <1>16, <2>1 DEF Findable, IsMarked, Marked, HasName
    <3>3. \A h \in Handle : h = want[t] => LoggedAs(r, h)
      BY <1>16, <3>1, <3>2 DEF LoggedAs
    <3> QED
      BY <1>1, <1>7, <3>3
  <2> QED
    BY <1>16, <2>1 DEF Paths, Finds
<1>17. Doubles'
  <2> SUFFICES ASSUME NEW f \in Conn, NEW y \in Conn, f # y, HasName(f)', HasName(y)',
                      client'[mine[f]].user = client'[mine[y]].user
      PROVE  Trapped(f)'
    BY <1>1 DEF Doubles
  <2>0. mine[f] # None /\ mine[y] # None /\ mine[f] # mine[y]
    BY <1>1 DEF HasName, Control, Own
  <2>1. CASE mine[f] = d
    <3>1. HasName(y) /\ client[mine[y]].user = want[t] /\ mine[y] # d
      BY <1>1, <1>2, <1>11, <2>0, <2>1
    <3>2. Trap
      BY <1>16, <3>1 DEF Trap, Trapped
    <3> QED
      BY <1>10, <1>14, <2>1, <3>2
  <2>2. CASE mine[y] = d
    <3>1. HasName(f) /\ client[mine[f]].user = want[t] /\ mine[f] # d
      BY <1>1, <1>2, <1>11, <2>0, <2>2
    <3> QED
      BY <1>10, <1>16, <3>1
  <2>3. CASE mine[f] # d /\ mine[y] # d
    <3>1. HasName(f) /\ HasName(y) /\ client[mine[f]].user = client[mine[y]].user
      BY <1>1, <1>2, <1>11, <2>0, <2>3
    <3> QED
      BY <1>10, <3>1 DEF Paths, Doubles
  <2> QED
    BY <2>1, <2>2, <2>3
<1>18. ClearsOwn'
  <2> SUFFICES ASSUME NEW y \in Conn, NEW s \in Slot, (Clears(y, s))', ~Trap'
      PROVE  /\ mine'[y] # None /\ slots'[s] = mine'[y] /\ IsMarked(y)'
             /\ \A u \in Conn : ~(Fills(u, s))'
             /\ LastStep(y)' => ~HasName(y)'
    BY DEF ClearsOwn
  <2>1. /\ mine[y] # None /\ slots[s] = mine[y] /\ IsMarked(y)
        /\ LastStep(y) => ~HasName(y)
    BY <1>6, <1>10 DEF Paths, ClearsOwn
  <2> QED
    BY <1>1, <1>5, <1>6, <1>11, <1>12, <2>1
<1>19. NamedMarked'
  <2> SUFFICES ASSUME NEW s \in Slot, SlotNamed(s)', ~Trap' PROVE SlotMarked(s)'
    BY DEF NamedMarked
  <2>1. CASE slots[s] = d
    BY <1>1, <1>4, <2>1 DEF SlotMarked, Marked
  <2>2. CASE slots[s] # d
    <3>1. SlotNamed(s)
      BY <1>1, <1>2, <2>2 DEF SlotNamed
    <3>2. SlotMarked(s) /\ slots[s] # None
      BY <1>10, <3>1 DEF Paths, NamedMarked, SlotNamed
    <3> QED
      BY <1>1, <1>5, <1>8, <3>2 DEF SlotMarked, Marked
  <2> QED
    BY <2>1, <2>2
<1>20. StoresFree' /\ FillsFree' /\ OneSlot'
  BY <1>1, <1>5, <1>6 DEF Paths, StoresFree, FillsFree, OneSlot
<1>21. LogoutNamed'
  <2> SUFFICES ASSUME NEW f \in Conn, LogsOut(f)' PROVE HasName(f)'
    BY DEF LogoutNamed
  <2>1. HasName(f)
    BY <1>6 DEF Paths, LogoutNamed
  <2>2. CASE mine[f] = d
    BY <1>0, <1>1, <1>2, <2>2 DEF HasName
  <2> QED
    BY <1>11, <2>1, <2>2
<1> QED
  BY <1>15, <1>17, <1>18, <1>19, <1>20, <1>21 DEF Paths

(* logged = 1: who was about to be marked is marked.                       *)
LEMMA SetMarkKept ==
  ASSUME TypeOK, Control, Exclusion, Paths, NEW t \in Conn, SetMark(t), fault' = None
  PROVE  Paths'
<1> DEFINE p == idx[t]
           d == slots[idx[t]]
<1>0. d # None /\ pc[t] = "setMark"
  BY NoneFact DEF SetMark, At, Crash, Faults
<1>1. /\ p \in Slot /\ slots \in [Slot -> Client \union {None}] /\ d \in Client /\ d = slots[p]
      /\ client \in [Client -> ClientRec] /\ mine \in [Conn -> Client \union {None}]
      /\ UNCHANGED <<slots, idx, put, mine>> /\ pc' = [pc EXCEPT ![t] = "started"]
  BY <1>0, NoneFact DEF SetMark, At, Goto, TypeOK, locals
<1>2. /\ \A c \in Client : client'[c].user = client[c].user
      /\ \A c \in Client \ {d} : client'[c].logged = client[c].logged
      /\ client'[d].logged
  <2> DEFINE r == [client[d] EXCEPT !.logged = TRUE, !.mail = "open"]
  <2>1. client' = [client EXCEPT ![d] = r]
    BY <1>0 DEF SetMark
  <2>2. r.logged
    BY <1>1 DEF ClientRec
  <2> HIDE DEF r
  <2>3. client'[d].logged
    BY <1>1, <2>1, <2>2
  <2> QED
    BY <1>0, <1>1, <2>3, MarkSet
<1>3. Others(t) /\ pc'[t] = "started"
  BY <1>1, OthersStay
<1>4. /\ \A s \in Slot : /\ ~Clears(t, s) /\ ~(Clears(t, s))' /\ ~(Fills(t, s))' /\ ~Fills(t, s)
                         /\ ~(Marks(t, s))' /\ ~Stores(t, s) /\ ~(Stores(t, s))'
                         /\ Marks(t, s) <=> s = p
                         /\ (Ahead(t, s))'
      /\ ~LogsOut(t)' /\ ~LastStep(t)'
  BY <1>0, <1>1, <1>3 DEF Fills, Clears, Marks, Stores, Ahead, LogsOut, LastStep
<1>5. \A y \in Conn, s \in Slot : /\ Marks(y, s) => s = p
                                  /\ ~Fills(y, s) /\ ~(Fills(y, s))'
  BY <1>0, <1>3, <1>4, Ground DEF Others, Stays, Stands, UnderL, Exclusion
<1>6. /\ \A y \in Conn, s \in Slot : /\ (Stores(y, s))' <=> Stores(y, s)
                                     /\ (Clears(y, s))' <=> Clears(y, s)
      /\ \A y \in Conn : /\ LogsOut(y)' => LogsOut(y)
                         /\ LastStep(y)' => LastStep(y)
      /\ \A y \in Conn, s \in Slot : Ahead(y, s) => (Ahead(y, s))'
  BY <1>3, <1>4 DEF Others, Stays, Stands
<1> HIDE DEF p, d
<1>7. \A c \in Client : Marked(c) => client'[c].logged
  BY <1>1, <1>2, <1>5 DEF Marked
<1>8. \A q \in Slot : Snare(q) => (Snare(q))'
  <2> SUFFICES ASSUME NEW q \in Slot, Snare(q) PROVE (Snare(q))'
    OBVIOUS
  <2>1. Marked(slots[q]) /\ slots[q] \in Client
    BY <1>1 DEF Snare, Bare, Marked
  <2>2. client'[slots[q]].logged
    BY <1>7, <2>1
  <2> QED
    BY <1>1, <1>2, <1>5, <1>6, <2>1, <2>2 DEF Snare, Bare, SlotNamed
<1>9. /\ Trap => Trap'
      /\ \A f \in Conn : Trapped(f) => Trapped(f)'
  BY <1>3, <1>6, <1>8, TrapsStay
<1>10. \A f \in Conn : /\ HasName(f)' <=> HasName(f)
                       /\ mine[f] # None /\ IsMarked(f) => IsMarked(f)'
  BY <1>1, <1>2, <1>7 DEF HasName, IsMarked, Marked
<1>11. \A s \in Slot : /\ SlotNamed(s)' <=> SlotNamed(s)
                       /\ SlotNamed(s) /\ SlotMarked(s) => SlotMarked(s)'
  BY <1>1, <1>2, <1>7 DEF SlotNamed, SlotMarked, Marked
<1>12. Finds'
  BY <1>1, <1>6, <1>9, <1>10 DEF Paths, Finds, Findable, HasName
<1>13. Doubles'
  BY <1>1, <1>2, <1>9, <1>10 DEF Paths, Doubles, HasName
<1>14. ClearsOwn'
  BY <1>1, <1>5, <1>6, <1>9, <1>10 DEF Paths, ClearsOwn
<1>15. NamedMarked' /\ StoresFree' /\ FillsFree' /\ OneSlot' /\ LogoutNamed'
  BY <1>1, <1>5, <1>6, <1>9, <1>10, <1>11
  DEF Paths, NamedMarked, StoresFree, FillsFree, OneSlot, LogoutNamed
<1> QED
  BY <1>12, <1>13, <1>14, <1>15 DEF Paths

(* The scan of client_logout goes on: neither its own CLIENT nor a CLIENT  *)
(* without a USER is in the slot it leaves behind.                         *)
LEMMA ScanKept ==
  ASSUME TypeOK, Control, LLock, Paths, NEW t \in Conn, pc[t] = "logout",
         slots[idx[t]] # None,
         client[slots[idx[t]]].user \notin {client[mine[t]].user, None},
         idx[t] + 1 \in Slot, idx' = [idx EXCEPT ![t] = idx[t] + 1],
         UNCHANGED <<pc, slots, client, mine, put>>
  PROVE  Paths'
<1> DEFINE p == idx[t]
<1>1. p \in Slot /\ idx \in [Conn -> Slot] /\ Slot \subseteq Int /\ mine[t] # None
  BY Ground, SlotFacts DEF TypeOK
<1>2. idx'[t] = p + 1 /\ \A y \in Conn \ {t} : idx'[y] = idx[y]
  BY <1>1
<1>3. /\ \A y \in Conn, s \in Slot : /\ (Stores(y, s))' <=> Stores(y, s)
                                     /\ (Clears(y, s))' <=> Clears(y, s)
                                     /\ (Fills(y, s))' <=> Fills(y, s)
                                     /\ (Marks(y, s))' <=> Marks(y, s)
      /\ \A y \in Conn : /\ LogsOut(y)' <=> LogsOut(y)
                         /\ LastStep(y)' <=> LastStep(y)
  BY <1>2 DEF Stores, Clears, Fills, Marks, LogsOut, LastStep
<1>4. \A y \in Conn, s \in Slot : y # t \/ s # p => (Ahead(y, s) => (Ahead(y, s))')
  <2>1. \A s \in Slot : s # p /\ p <= s => p + 1 <= s
    <3>1. \A a, b \in Int : a # b /\ a <= b => a + 1 <= b
      OBVIOUS
    <3> HIDE DEF p
    <3> QED
      BY <1>1, <3>1
  <2>2. \A s \in Slot : s # p => (Ahead(t, s) => (Ahead(t, s))')
    BY <1>2, <1>3, <2>1 DEF Ahead
  <2>3. \A y \in Conn \ {t}, s \in Slot : Ahead(y, s) => (Ahead(y, s))'
    BY <1>2, <1>3 DEF Ahead
  <2> QED
    BY <2>2, <2>3
<1>5. \A q \in Slot : Snare(q) => q # p /\ (Snare(q))'
  BY <1>1, <1>3 DEF Snare, Bare, SlotNamed
<1>6. /\ Trap => Trap'
      /\ \A f \in Conn : Trapped(f) => Trapped(f)'
  BY <1>4, <1>5 DEF Trap, Trapped
<1>7. \A f \in Conn : HasName(f)' = HasName(f) /\ (IsMarked(f) => IsMarked(f)')
  BY <1>3 DEF HasName, IsMarked, Marked
<1>8. \A s \in Slot : SlotNamed(s)' = SlotNamed(s) /\ (SlotMarked(s) => SlotMarked(s)')
  BY <1>3 DEF SlotNamed, SlotMarked, Marked
<1>9. slots[p] # mine[t]
  OBVIOUS
<1>10. \A f \in Conn : Findable(f) => Findable(f)'
  BY <1>3, <1>4, <1>7, <1>9 DEF Findable
<1>11. Finds' /\ Doubles'
  BY <1>6, <1>7, <1>10 DEF Paths, Finds, Doubles
<1>12. ClearsOwn' /\ NamedMarked' /\ StoresFree' /\ FillsFree' /\ OneSlot' /\ LogoutNamed'
  BY <1>3, <1>6, <1>7, <1>8
  DEF Paths, ClearsOwn, NamedMarked, StoresFree, FillsFree, OneSlot, LogoutNamed
<1> QED
  BY <1>11, <1>12 DEF Paths

(* The scan stops at a slot whose CLIENT has the same USER: that is the    *)
(* thread's own CLIENT, unless the thread is trapped.                      *)
LEMMA MatchOwn ==
  ASSUME TypeOK, Control, Exclusion, Paths, NEW t \in Conn, NEW p \in Slot, HasName(t),
         slots[p] # None, client[slots[p]].user = client[mine[t]].user, ~Trap
  PROVE  slots[p] = mine[t] /\ IsMarked(t)
<1> DEFINE u == client[mine[t]].user
<1>1. /\ slots \in [Slot -> Client \union {None}] /\ client \in [Client -> ClientRec]
      /\ mine[t] \in Client /\ idx \in [Conn -> Slot]
      /\ \A y \in Conn : pc[y] = "setMark" => want[y] \in Handle
  BY NoneFact DEF TypeOK, HasName, Control, Asking, UnderL
<1>2. u \in Handle /\ u # None
  BY <1>1 DEF HasName, ClientRec
<1>3. Findable(t)
  BY DEF Paths, Finds, Trapped, Trap
<1>4. PICK r \in Slot : slots[r] = mine[t]
  BY <1>3 DEF Findable
<1>5. Marked(mine[t]) /\ IsMarked(t)
  BY <1>3 DEF Findable, IsMarked
<1>6. Marked(slots[p])
  BY <1>2 DEF Paths, NamedMarked, SlotNamed, SlotMarked
<1>7. ASSUME NEW y \in Conn, NEW s \in Slot, Marks(y, s), slots[s] # None, client[slots[s]].user = u
      PROVE  \A x \in Slot : ~LoggedAs(x, u)
  <2>1. pc[y] = "setMark" /\ idx[y] = s
    BY <1>7 DEF Marks
  <2>2. u = want[y]
    BY <1>2, <1>7, <2>1 DEF Exclusion, Marking
  <2>3. Passed(y) = Slot
    BY <2>1 DEF Passed, UnderL
  <2> QED
    BY <2>2, <2>3 DEF Exclusion, NoConflict
<1>8. CASE client[mine[t]].logged /\ client[slots[p]].logged
  <2>1. LoggedAs(p, u) /\ LoggedAs(r, u)
    BY <1>4, <1>8 DEF LoggedAs, HasName
  <2> QED
    BY <1>2, <1>4, <1>5, <2>1 DEF Exclusion, OneSessionPerHandle
<1>9. CASE client[mine[t]].logged /\ ~client[slots[p]].logged
  <2>1. LoggedAs(r, u)
    BY <1>4, <1>9 DEF LoggedAs, HasName
  <2> QED
    BY <1>6, <1>7, <1>9, <2>1 DEF Marked
<1>10. CASE ~client[mine[t]].logged /\ client[slots[p]].logged
  <2>1. LoggedAs(p, u)
    BY <1>10 DEF LoggedAs
  <2> QED
    BY <1>5, <1>7, <1>10, <2>1 DEF Marked, HasName
<1>11. CASE ~client[mine[t]].logged /\ ~client[slots[p]].logged
  <2>1. PICK y \in Conn, s \in Slot : Marks(y, s) /\ slots[s] = mine[t]
    BY <1>5, <1>11 DEF Marked
  <2>2. PICK x \in Conn, q \in Slot : Marks(x, q) /\ slots[q] = slots[p]
    BY <1>6, <1>11 DEF Marked
  <2>3. pc[y] \in UnderL
    BY <2>1 DEF Marks, UnderL
  <2>4. x = y
    BY <2>2, <2>3, Ground DEF Exclusion
  <2> QED
    BY <1>5, <2>1, <2>2, <2>4 DEF Marks
<1> QED
  BY <1>8, <1>9, <1>10, <1>11

(* It clears that slot next.                                               *)
LEMMA MatchKept ==
  ASSUME TypeOK, Control, Exclusion, Paths, NEW t \in Conn, pc[t] = "logout",
         slots[idx[t]] # None, client[slots[idx[t]]].user = client[mine[t]].user,
         client[mine[t]].user # None, pc' = [pc EXCEPT ![t] = "userUnref"],
         UNCHANGED <<slots, client, mine, idx, put>>
  PROVE  Paths'
<1> DEFINE p == idx[t]
<1>1. p \in Slot /\ mine[t] # None /\ HasName(t)
  BY Ground DEF TypeOK, Exclusion, HasName
<1>2. Others(t) /\ pc'[t] = "userUnref"
  BY OthersStay
<1>3. /\ \A s \in Slot : /\ ~Clears(t, s) /\ ~(Fills(t, s))' /\ ~Fills(t, s)
                         /\ ~Marks(t, s) /\ ~(Marks(t, s))' /\ ~Stores(t, s) /\ ~(Stores(t, s))'
                         /\ (Clears(t, s))' <=> s = p
                         /\ (Ahead(t, s))'
      /\ ~LogsOut(t)' /\ ~LastStep(t)'
  BY <1>1, <1>2 DEF Fills, Clears, Marks, Stores, Ahead, LogsOut, LastStep
<1>4. /\ \A y \in Conn, s \in Slot : /\ (Stores(y, s))' <=> Stores(y, s)
                                     /\ (Clears(y, s))' <=> Clears(y, s) \/ (y = t /\ s = p)
                                     /\ (Fills(y, s))' <=> Fills(y, s)
                                     /\ (Marks(y, s))' <=> Marks(y, s)
      /\ \A y \in Conn : /\ LogsOut(y)' => LogsOut(y)
                         /\ LastStep(y)' => LastStep(y)
      /\ \A y \in Conn, s \in Slot : Ahead(y, s) => (Ahead(y, s))'
  BY <1>2, <1>3 DEF Others, Stays, Stands
<1>5. \A q \in Slot : Snare(q) => (Snare(q))'
  BY <1>4 DEF Snare, Bare, SlotNamed
<1>6. /\ Trap => Trap'
      /\ \A f \in Conn : Trapped(f) => Trapped(f)'
  BY <1>2, <1>4, <1>5, TrapsStay
<1>7. \A f \in Conn : HasName(f)' = HasName(f) /\ (IsMarked(f) => IsMarked(f)')
  BY <1>4 DEF HasName, IsMarked, Marked
<1>8. \A s \in Slot : SlotNamed(s)' = SlotNamed(s) /\ (SlotMarked(s) => SlotMarked(s)')
  BY <1>4 DEF SlotNamed, SlotMarked, Marked
<1>9. Finds'
  <2> SUFFICES ASSUME NEW f \in Conn, HasName(f)' PROVE Findable(f)' \/ Trapped(f)'
    BY DEF Finds
  <2>1. CASE f # t /\ slots[p] = mine[f]
    <3>1. Trapped(f)
      BY <1>1, <1>7, <2>1 DEF Paths, Doubles
    <3> QED
      BY <1>6, <3>1
  <2>2. CASE f = t \/ slots[p] # mine[f]
    <3>1. Findable(f) => Findable(f)'
      BY <1>4, <1>7, <2>2 DEF Findable
    <3> QED
      BY <1>6, <1>7, <3>1 DEF Paths, Finds
  <2> QED
    BY <2>1, <2>2
<1>10. Doubles'
  BY <1>6, <1>7 DEF Paths, Doubles
<1>11. ClearsOwn'
  <2> SUFFICES ASSUME NEW y \in Conn, NEW s \in Slot, (Clears(y, s))', ~Trap'
      PROVE  /\ mine'[y] # None /\ slots'[s] = mine'[y] /\ IsMarked(y)'
             /\ \A u \in Conn : ~(Fills(u, s))'
             /\ LastStep(y)' => ~HasName(y)'
    BY DEF ClearsOwn
  <2>1. CASE Clears(y, s)
    BY <1>4, <1>6, <1>7, <2>1 DEF Paths, ClearsOwn
  <2>2. CASE y = t /\ s = p
    <3>1. slots[p] = mine[t] /\ IsMarked(t)
      BY <1>1, <1>6, MatchOwn
    <3>2. \A u \in Conn : ~(Fills(u, p))'
      BY <1>1, <1>4 DEF Paths, FillsFree, SlotNamed
    <3> QED
      BY <1>1, <1>3, <1>7, <2>2, <3>1, <3>2
  <2> QED
    BY <1>4, <2>1, <2>2
<1>12. NamedMarked' /\ StoresFree' /\ FillsFree' /\ OneSlot' /\ LogoutNamed'
  BY <1>4, <1>6, <1>7, <1>8
  DEF Paths, NamedMarked, StoresFree, FillsFree, OneSlot, LogoutNamed
<1> QED
  BY <1>9, <1>10, <1>11, <1>12 DEF Paths

(* A logout takes the USER of its own CLIENT only.                         *)
LEMMA ClearUserKept ==
  ASSUME TypeOK, Control, LLock, Paths, NEW t \in Conn, ClearUser(t)
  PROVE  Paths'
<1> DEFINE p == idx[t]
           d == mine[t]
<1>1. /\ pc[t] = "clearUser" /\ p \in Slot /\ client \in [Client -> ClientRec]
      /\ slots \in [Slot -> Client \union {None}] /\ mine \in [Conn -> Client \union {None}]
      /\ UNCHANGED <<slots, mine, idx, put>> /\ pc' = [pc EXCEPT ![t] = "clearSlot"]
  BY DEF ClearUser, At, Goto, TypeOK, locals
<1>2. Clears(t, p) /\ d # None /\ d \in Client
  BY <1>1, Ground DEF Clears
<1>3. /\ \A c \in Client : /\ client'[c].user \in {client[c].user, None}
                           /\ client'[c].logged = client[c].logged
      /\ client'[d].user = None
      /\ \A c \in Client \ {d} : client'[c] = client[c]
  <2>1. client' = [client EXCEPT ![d].user = None]
    BY DEF ClearUser
  <2>2. client'[d].user = None /\ \A c \in Client \ {d} : client'[c] = client[c]
    BY <1>1, <1>2, <2>1 DEF ClientRec
  <2> QED
    BY <1>1, <2>2, UserCleared
<1>4. Others(t) /\ pc'[t] = "clearSlot"
  BY <1>1, OthersStay
<1>5. /\ \A s \in Slot : /\ (Clears(t, s))' <=> Clears(t, s)
                         /\ ~(Fills(t, s))' /\ ~Fills(t, s) /\ ~Marks(t, s) /\ ~(Marks(t, s))'
                         /\ ~Stores(t, s) /\ ~(Stores(t, s))'
                         /\ (Ahead(t, s))'
      /\ ~LogsOut(t)'
  BY <1>1, <1>4 DEF Fills, Clears, Marks, Stores, Ahead, LogsOut, LastStep
<1>6. /\ \A y \in Conn, s \in Slot : /\ (Stores(y, s))' <=> Stores(y, s)
                                     /\ (Clears(y, s))' <=> Clears(y, s)
                                     /\ (Fills(y, s))' <=> Fills(y, s)
                                     /\ (Marks(y, s))' <=> Marks(y, s)
      /\ \A y \in Conn : /\ LogsOut(y)' => LogsOut(y) /\ y # t
                         /\ LastStep(y)' => LastStep(y) \/ y = t
      /\ \A y \in Conn, s \in Slot : Ahead(y, s) => (Ahead(y, s))'
  BY <1>4, <1>5 DEF Others, Stays, Stands
<1> HIDE DEF p, d
<1>7. /\ \A f \in Conn : /\ HasName(f)' => HasName(f)
                         /\ mine[f] # None /\ IsMarked(f) => IsMarked(f)'
                         /\ f # t /\ HasName(f) => HasName(f)' /\ client'[mine[f]] = client[mine[f]]
      /\ ~HasName(t)'
  <2>1. \A f \in Conn : f # t /\ mine[f] # None => mine[f] # d
    BY <1>2 DEF Control, Own, d
  <2>2. \A f \in Conn : mine[f] = d => ~HasName(f)'
    BY <1>1, <1>3 DEF HasName
  <2>3. \A f \in Conn : HasName(f)' => HasName(f)
    BY <1>1, <1>3 DEF HasName
  <2>4. \A f \in Conn : mine[f] # None /\ IsMarked(f) => IsMarked(f)'
    BY <1>1, <1>3, <1>6 DEF IsMarked, Marked
  <2>5. \A f \in Conn : f # t /\ HasName(f) => HasName(f)' /\ client'[mine[f]] = client[mine[f]]
    BY <1>1, <1>3, <2>1 DEF HasName
  <2> QED
    BY <2>2, <2>3, <2>4, <2>5 DEF d
<1>8. \A s \in Slot : /\ SlotNamed(s)' => SlotNamed(s)
                      /\ SlotNamed(s) /\ SlotMarked(s) => SlotMarked(s)'
  BY <1>1, <1>3, <1>6 DEF SlotNamed, SlotMarked, Marked
<1>9. \A q \in Slot : Snare(q) => (Snare(q))'
  BY <1>1, <1>3, <1>6, <1>8 DEF Snare, Bare
<1>10. /\ Trap => Trap'
       /\ \A f \in Conn : Trapped(f) => Trapped(f)'
  BY <1>4, <1>6, <1>9, TrapsStay
<1>11. Finds'
  BY <1>1, <1>6, <1>7, <1>10 DEF Paths, Finds, Findable, HasName
<1>12. Doubles'
  BY <1>1, <1>7, <1>10 DEF Paths, Doubles
<1>13. ClearsOwn'
  <2> SUFFICES ASSUME NEW y \in Conn, NEW s \in Slot, (Clears(y, s))', ~Trap'
      PROVE  /\ mine'[y] # None /\ slots'[s] = mine'[y] /\ IsMarked(y)'
             /\ \A u \in Conn : ~(Fills(u, s))'
             /\ LastStep(y)' => ~HasName(y)'
    BY DEF ClearsOwn
  <2>1. /\ mine[y] # None /\ slots[s] = mine[y] /\ IsMarked(y)
        /\ \A u \in Conn : ~Fills(u, s)
        /\ LastStep(y) => ~HasName(y)
    BY <1>6, <1>10 DEF Paths, ClearsOwn
  <2> QED
    BY <1>1, <1>6, <1>7, <2>1
<1>14. NamedMarked' /\ StoresFree' /\ FillsFree' /\ OneSlot' /\ LogoutNamed'
  BY <1>1, <1>6, <1>7, <1>8, <1>10
  DEF Paths, NamedMarked, StoresFree, FillsFree, OneSlot, LogoutNamed
<1> QED
  BY <1>11, <1>12, <1>13, <1>14 DEF Paths

(* all_clients[i] = NULL: the slot was its own CLIENT's.                   *)
LEMMA ClearSlotKept ==
  ASSUME TypeOK, Control, LLock, Paths, NEW t \in Conn, ClearSlot(t), fault' = None
  PROVE  Paths'
<1> DEFINE p == idx[t]
<1>0. /\ pc[t] = "clearSlot" /\ slots' = [slots EXCEPT ![p] = None]
      /\ UNCHANGED <<mine, idx, put>>
      /\ \E l \in {"unref", "idle"} : pc' = [pc EXCEPT ![t] = l]
  BY NoneFact DEF ClearSlot, At, Goto, Crash, Faults, locals, AfterLogout
<1>1. /\ p \in Slot /\ slots \in [Slot -> Client \union {None}]
      /\ mine \in [Conn -> Client \union {None}]
      /\ \A c \in Client : client'[c].user = client[c].user /\ client'[c].logged = client[c].logged
  BY FieldsKept DEF TypeOK
<1>2. Clears(t, p) /\ LastStep(t) /\ mine[t] # None
  BY <1>0, <1>1, Ground DEF Clears, LastStep
<1>3. Others(t) /\ pc'[t] \in {"unref", "idle"}
  BY <1>0, OthersStay
<1>4. /\ \A s \in Slot : /\ ~(Clears(t, s))'
                         /\ ~(Fills(t, s))' /\ ~Fills(t, s) /\ ~Marks(t, s) /\ ~(Marks(t, s))'
                         /\ ~Stores(t, s) /\ ~(Stores(t, s))'
                         /\ (Ahead(t, s))'
      /\ ~LogsOut(t)' /\ ~LastStep(t)'
  BY <1>0, <1>3 DEF Fills, Clears, Marks, Stores, Ahead, LogsOut, LastStep
<1>5. /\ \A y \in Conn, s \in Slot : /\ (Stores(y, s))' <=> Stores(y, s)
                                     /\ (Clears(y, s))' <=> Clears(y, s) /\ y # t
                                     /\ (Fills(y, s))' <=> Fills(y, s)
                                     /\ (Marks(y, s))' <=> Marks(y, s)
      /\ \A y \in Conn : /\ LogsOut(y)' => LogsOut(y) /\ y # t
                         /\ LastStep(y)' => LastStep(y)
      /\ \A y \in Conn, s \in Slot : Ahead(y, s) => (Ahead(y, s))'
  BY <1>3, <1>4 DEF Others, Stays, Stands
<1>6. slots'[p] = None /\ \A s \in Slot : s # p => slots'[s] = slots[s]
  BY <1>0, <1>1
<1> HIDE DEF p
<1>7. \A q \in Slot : Snare(q) => (Snare(q))'
  <2> SUFFICES ASSUME NEW q \in Slot, Snare(q) PROVE (Snare(q))'
    OBVIOUS
  <2>1. q # p
    BY <1>2 DEF Snare, Bare
  <2> QED
    BY <1>1, <1>5, <1>6, <2>1 DEF Snare, Bare, SlotNamed
<1>8. /\ Trap => Trap'
      /\ \A f \in Conn : Trapped(f) => Trapped(f)'
  BY <1>3, <1>5, <1>7, TrapsStay
<1>9. ~Trap => slots[p] = mine[t] /\ ~HasName(t)
  BY <1>1, <1>2 DEF Paths, ClearsOwn
<1>10. \A f \in Conn : HasName(f)' <=> HasName(f)
  BY <1>0, <1>1 DEF HasName
<1>11. ASSUME NEW f \in Conn, mine[f] # None, IsMarked(f), slots[p] # mine[f] PROVE IsMarked(f)'
  BY <1>0, <1>1, <1>5, <1>6, <1>11 DEF IsMarked, Marked
<1>12. HasName(t) => Trapped(t)'
  <2>1. HasName(t) => Trap'
    BY <1>8, <1>9
  <2> QED
    BY <1>4, <2>1 DEF Trap, Trapped
<1>13. Finds'
  <2> SUFFICES ASSUME NEW f \in Conn, HasName(f), f # t PROVE Findable(f)' \/ Trapped(f)'
    BY <1>10, <1>12 DEF Finds
  <2>1. mine[f] # None
    BY DEF HasName
  <2>2. ASSUME Findable(f) PROVE Findable(f)'
    <3>1. PICK r \in Slot : /\ slots[r] = mine[f] /\ Ahead(f, r)
                            /\ \A y \in Conn \ {f} : ~Clears(y, r)
      BY <2>2 DEF Findable
    <3>2. r # p
      BY <1>2, <3>1
    <3>3. slots[p] # mine[f]
      BY <1>1, <2>1, <3>1, <3>2 DEF Paths, OneSlot
    <3>4. IsMarked(f)'
      BY <1>11, <2>1, <2>2, <3>3 DEF Findable
    <3> QED
      BY <1>0, <1>5, <1>6, <3>1, <3>2, <3>4 DEF Findable
  <2> QED
    BY <1>8, <2>2 DEF Paths, Finds
<1>14. Doubles'
  <2> SUFFICES ASSUME NEW f \in Conn, NEW y \in Conn, f # y, HasName(f), HasName(y),
                      client'[mine[f]].user = client'[mine[y]].user
      PROVE  Trapped(f)'
    BY <1>0, <1>10 DEF Doubles
  <2>1. client[mine[f]].user = client[mine[y]].user
    BY <1>1 DEF HasName
  <2> QED
    BY <1>8, <2>1 DEF Paths, Doubles
<1>15. ClearsOwn'
  <2> SUFFICES ASSUME NEW y \in Conn, NEW s \in Slot, (Clears(y, s))', ~Trap'
      PROVE  /\ mine'[y] # None /\ slots'[s] = mine'[y] /\ IsMarked(y)'
             /\ \A u \in Conn : ~(Fills(u, s))'
             /\ LastStep(y)' => ~HasName(y)'
    BY DEF ClearsOwn
  <2>1. /\ mine[y] # None /\ slots[s] = mine[y] /\ IsMarked(y)
        /\ \A u \in Conn : ~Fills(u, s)
        /\ LastStep(y) => ~HasName(y)
    BY <1>5, <1>8 DEF Paths, ClearsOwn
  <2>2. y # t /\ slots[p] = mine[t]
    BY <1>5, <1>8, <1>9
  <2>3. slots[p] # mine[y] /\ s # p
    BY <1>2, <2>1, <2>2 DEF Control, Own
  <2> QED
    BY <1>0, <1>5, <1>6, <1>10, <1>11, <2>1, <2>3
<1>16. NamedMarked'
  <2> SUFFICES ASSUME NEW s \in Slot, SlotNamed(s)', ~Trap' PROVE SlotMarked(s)'
    BY DEF NamedMarked
  <2>1. s # p /\ SlotNamed(s)
    BY <1>1, <1>6 DEF SlotNamed
  <2>2. SlotMarked(s) /\ slots[s] # None
    BY <1>8, <2>1 DEF Paths, NamedMarked, SlotNamed
  <2>3. slots[p] # slots[s]
    BY <1>1, <1>2, <1>8, <1>9, <2>1 DEF Paths, OneSlot
  <2> QED
    BY <1>1, <1>5, <1>6, <2>1, <2>2, <2>3 DEF SlotMarked, Marked
<1>17. StoresFree' /\ FillsFree'
  BY <1>0, <1>1, <1>5, <1>6 DEF Paths, StoresFree, FillsFree, SlotNamed
<1>18. OneSlot' /\ LogoutNamed'
  BY <1>0, <1>5, <1>6, <1>10 DEF Paths, OneSlot, LogoutNamed
<1> QED
  BY <1>13, <1>14, <1>15, <1>16, <1>17, <1>18 DEF Paths

(* A logout either finds its slot or crashes.                              *)
LEMMA LogoutKept ==
  ASSUME TypeOK, Control, Exclusion, Paths, NEW t \in Conn, Logout(t), fault' = None
  PROVE  Paths' /\ lockL' = lockL
<1> DEFINE p == idx[t]
           c == slots[idx[t]]
           u == client[mine[t]].user
<1>0. c # None /\ {client[c].user, u} \cap (freed \union {None}) = {}
  BY NoneFact DEF Logout, Crash, Faults
<1>1. /\ pc[t] = "logout" /\ mine[t] # None /\ p \in Slot /\ pc \in [Conn -> Labels]
      /\ client[c].user # None /\ u # None /\ HasName(t)
  BY <1>0, Ground DEF Logout, At, TypeOK, Exclusion, HasName
<1>2. CASE client[c].user = u
  <2>1. /\ pc' = [pc EXCEPT ![t] = "userUnref"] /\ lockL' = lockL
        /\ UNCHANGED <<slots, client, mine, idx, put>>
    BY <1>0, <1>2 DEF Logout, Goto, registry, locks
  <2> QED
    BY <1>0, <1>1, <1>2, <2>1, MatchKept
<1>3. CASE client[c].user # u /\ p + 1 \in Slot
  <2>1. /\ idx' = [idx EXCEPT ![t] = p + 1] /\ pc' = [pc EXCEPT ![t] = "logout"] /\ lockL' = lockL
        /\ UNCHANGED <<slots, client, mine, put>>
    BY <1>0, <1>3 DEF Logout, NextSlot, Goto, LoopStep, registry, locks
  <2>2. pc' = pc
    BY <1>1, <2>1
  <2> QED
    BY <1>0, <1>1, <1>3, <2>1, <2>2, ScanKept DEF Exclusion
<1>4. CASE client[c].user # u /\ p + 1 \notin Slot
  <2>1. \A r \in Slot : p <= r => r = p
    <3>1. \A a, b, m \in Int : b \in 0 .. m - 1 /\ a \in 0 .. m - 1 /\ a + 1 \notin 0 .. m - 1 /\ a <= b
                               => b = a
      OBVIOUS
    <3>2. Slot = 0 .. MaxClients - 1 /\ MaxClients \in Int /\ Slot \subseteq Int
      BY CharlaAssumption, SlotFacts DEF Slot
    <3> HIDE DEF p
    <3> QED
      BY <1>1, <1>4, <3>1, <3>2
  <2>2. ASSUME Findable(t) PROVE FALSE
    <3>1. PICK r \in Slot : slots[r] = mine[t] /\ Ahead(t, r)
      BY <2>2 DEF Findable
    <3>2. r = p
      BY <1>1, <2>1, <3>1 DEF Ahead, LogsOut
    <3> QED
      BY <1>4, <3>1, <3>2
  <2>3. ASSUME Trapped(t) PROVE FALSE
    <3>1. PICK q \in Slot : Snare(q) /\ Ahead(t, q)
      BY <2>3 DEF Trapped
    <3>2. q = p
      BY <1>1, <2>1, <3>1 DEF Ahead, LogsOut
    <3> QED
      BY <1>0, <1>1, <3>1, <3>2 DEF Snare, Bare, SlotNamed
  <2> QED
    BY <1>1, <2>2, <2>3 DEF Paths, Finds
<1> QED
  BY <1>2, <1>3, <1>4

(* The steps after which everything about the traps is as it was.          *)
LEMMA CalmKept ==
  ASSUME TypeOK, Paths, NEW t \in Conn, NEW l, pc' = [pc EXCEPT ![t] = l],
         \A y \in Conn \ {t} : idx'[y] = idx[y] /\ put'[y] = put[y],
         UNCHANGED <<slots, mine>>, NamesKept,
         \A s \in Slot : /\ (Clears(t, s))' <=> Clears(t, s)
                         /\ (Marks(t, s))' <=> Marks(t, s)
                         /\ (Stores(t, s))' => Stores(t, s) \/ slots[s] = None
                         /\ (Fills(t, s))' => Fills(t, s) \/ slots[s] = None
                         /\ Ahead(t, s) => (Ahead(t, s))',
         LogsOut(t)' => HasName(t), LastStep(t)' => LastStep(t)
  PROVE  Paths'
<1>1. Others(t)
  BY OthersStay
<1>2. /\ \A y \in Conn, s \in Slot : /\ (Clears(y, s))' <=> Clears(y, s)
                                     /\ (Marks(y, s))' <=> Marks(y, s)
                                     /\ (Stores(y, s))' => Stores(y, s) \/ slots[s] = None
                                     /\ (Fills(y, s))' => Fills(y, s) \/ slots[s] = None
      /\ \A y \in Conn, s \in Slot : Ahead(y, s) => (Ahead(y, s))'
  BY <1>1 DEF Others, Stays, Stands
<1>3. \A y \in Conn : /\ LogsOut(y)' => HasName(y)
                      /\ LastStep(y)' => LastStep(y)
  BY <1>1 DEF Others, Stays, Paths, LogoutNamed
<1> QED
  BY <1>2, <1>3, SameKept

(* Labels that have to do with the traps.                                  *)
Acting == {"userUnref", "userTest", "clearUser", "clearSlot", "cregPut", "freePut", "freeReg",
           "freeSet", "setMark", "logout"}

(* A step from one label to another that have nothing to do with them.     *)
LEMMA PlainKept ==
  ASSUME TypeOK, Paths, NEW t \in Conn, NEW l, pc' = [pc EXCEPT ![t] = l],
         \A y \in Conn \ {t} : idx'[y] = idx[y] /\ put'[y] = put[y],
         UNCHANGED <<slots, mine>>, NamesKept, pc[t] \notin Acting, l \notin Acting
  PROVE  Paths'
<1>1. pc'[t] = l
  BY DEF TypeOK
<1>2. /\ \A s \in Slot : /\ ~(Clears(t, s))' /\ ~Clears(t, s) /\ ~(Marks(t, s))' /\ ~Marks(t, s)
                         /\ ~(Stores(t, s))' /\ ~(Fills(t, s))' /\ (Ahead(t, s))'
      /\ ~LogsOut(t)' /\ ~LastStep(t)'
  BY <1>1 DEF Clears, Marks, Stores, Fills, Ahead, LogsOut, LastStep, Acting
<1> QED
  BY <1>2, CalmKept

(* malloc returns none of the registry's or the threads' CLIENTs.          *)
LEMMA FreshKept ==
  ASSUME TypeOK, Control, alloc # Client, NEW t \in Conn,
         client' = [client EXCEPT ![NewClient] = [Fresh EXCEPT !.fd = fd[t]]]
  PROVE  NamesKept
<1>1. NewClient \in Client /\ NewClient \notin alloc /\ client \in [Client -> ClientRec]
      /\ alloc \subseteq Client
  BY FreshClient DEF TypeOK
<1>2. \A d \in alloc : client'[d] = client[d]
  BY <1>1
<1> QED
  BY <1>2 DEF NamesKept, Control, Created

(* creg_register chooses an empty slot.                                    *)
LEMMA RegisterKept ==
  ASSUME TypeOK, Control, Paths, NEW t \in Conn,
         \/ creg_register(t, "creg", "cregPut")
         \/ creg_register(t, "freeReg", "freePut")
  PROVE  Paths'
<1>1. /\ UNCHANGED <<slots, mine, idx>> /\ NamesKept
      /\ \E s \in Slot : slots[s] = None /\ put' = [put EXCEPT ![t] = s]
      /\ pc \in [Conn -> Labels] /\ put \in [Conn -> Slot]
  BY FreshKept DEF creg_register, FreeSlots, TypeOK
<1>2. ASSUME NEW from, NEW to, pc[t] = from, pc' = [pc EXCEPT ![t] = to],
             <<from, to>> \in {<<"creg", "cregPut">>, <<"freeReg", "freePut">>}
      PROVE  Paths'
  <2>1. pc'[t] = to
    BY <1>1, <1>2
  <2>2. /\ \A s \in Slot : /\ ~(Clears(t, s))' /\ ~Clears(t, s) /\ ~(Marks(t, s))' /\ ~Marks(t, s)
                           /\ (Stores(t, s))' => slots[s] = None
                           /\ (Fills(t, s))' => Fills(t, s)
                           /\ (Ahead(t, s))'
        /\ ~LogsOut(t)' /\ ~LastStep(t)'
    BY <1>1, <1>2, <2>1 DEF Clears, Marks, Stores, Fills, Ahead, LogsOut, LastStep
  <2> QED
    BY <1>1, <1>2, <2>2, CalmKept
<1>3. CASE creg_register(t, "creg", "cregPut")
  BY <1>2, <1>3 DEF creg_register, At, Goto
<1>4. CASE creg_register(t, "freeReg", "freePut")
  BY <1>2, <1>4 DEF creg_register, At, Goto
<1> QED
  BY <1>3, <1>4

(* The third loop finds an empty slot.                                     *)
LEMMA FreeKept ==
  ASSUME TypeOK, Paths, NEW t \in Conn, Free(t)
  PROVE  Paths'
<1>1. pc[t] = "free" /\ UNCHANGED <<slots, client, mine, put>> /\ NamesKept
      /\ pc \in [Conn -> Labels] /\ idx \in [Conn -> Slot]
  BY DEF Free, At, LoopStep, registry, locals, NamesKept, TypeOK
<1>2. CASE slots[idx[t]] = None
  <2>1. pc' = [pc EXCEPT ![t] = "freeReg"] /\ idx' = idx
    BY <1>2 DEF Free, Goto
  <2>2. pc'[t] = "freeReg"
    BY <1>1, <2>1
  <2>3. /\ \A s \in Slot : /\ ~(Clears(t, s))' /\ ~Clears(t, s) /\ ~(Marks(t, s))' /\ ~Marks(t, s)
                           /\ ~(Stores(t, s))'
                           /\ (Fills(t, s))' => slots[s] = None
                           /\ (Ahead(t, s))'
        /\ ~LogsOut(t)' /\ ~LastStep(t)'
    BY <1>1, <1>2, <2>1, <2>2 DEF Clears, Marks, Stores, Fills, Ahead, LogsOut, LastStep
  <2> QED
    BY <1>1, <2>1, <2>3, CalmKept
<1>3. CASE slots[idx[t]] # None
  <2>1. /\ \E l \in {"free", "idle"} : pc' = [pc EXCEPT ![t] = l]
        /\ \A y \in Conn \ {t} : idx'[y] = idx[y]
    BY <1>1, <1>3 DEF Free, NextSlot, Goto, locals
  <2> QED
    BY <1>1, <2>1, PlainKept DEF Acting
<1> QED
  BY <1>2, <1>3

(* user_unref.                                                             *)
LEMMA LeavesKept ==
  ASSUME TypeOK, Control, LLock, Paths, NEW t \in Conn, user_unref(t) \/ user_free(t)
  PROVE  Paths'
<1>1. /\ UNCHANGED <<slots, client, mine, put, idx>> /\ NamesKept /\ pc \in [Conn -> Labels]
      /\ \/ pc[t] = "userUnref" /\ pc' = [pc EXCEPT ![t] = "userTest"]
         \/ pc[t] = "userTest" /\ pc' = [pc EXCEPT ![t] = "clearUser"]
  BY DEF user_unref, user_free, At, Goto, registry, locals, NamesKept, TypeOK
<1>2. PICK l \in {"userTest", "clearUser"} : pc' = [pc EXCEPT ![t] = l]
  BY <1>1
<1>3. pc'[t] = l
  BY <1>1, <1>2
<1>4. /\ \A s \in Slot : /\ (Clears(t, s))' <=> Clears(t, s)
                         /\ ~(Marks(t, s))' /\ ~Marks(t, s)
                         /\ ~(Stores(t, s))' /\ ~(Fills(t, s))' /\ (Ahead(t, s))'
      /\ ~LogsOut(t)' /\ ~LastStep(t)'
  BY <1>1, <1>3 DEF Clears, Marks, Stores, Fills, Ahead, LogsOut, LastStep
<1> QED
  BY <1>1, <1>2, <1>4, CalmKept

(* A logout starts at the first slot, and only if there is a USER.         *)
LEMMA StartKept ==
  ASSUME TypeOK, Control, LLock, Paths, NEW t \in Conn, LogoutRequest(t) \/ EofLogout(t)
  PROVE  Paths'
<1>1. /\ UNCHANGED <<slots, client, mine, put>> /\ NamesKept /\ pc \in [Conn -> Labels]
      /\ pc[t] \in {"idle", "eof"} /\ idx' = [idx EXCEPT ![t] = 0] /\ idx \in [Conn -> Slot]
  BY DEF LogoutRequest, EofLogout, Receive, At, registry, NamesKept, TypeOK
<1>2. mine[t] # None
  BY <1>1, NoneFact DEF Control, Created, TypeOK
<1>3. \E l \in {"idle", "unref", "logout"} :
        pc' = [pc EXCEPT ![t] = l] /\ (l = "logout" => client[mine[t]].user # None)
  BY DEF LogoutRequest, EofLogout, Receive, Goto
<1>4. CASE pc' = [pc EXCEPT ![t] = "logout"] /\ client[mine[t]].user # None
  <2>1. pc'[t] = "logout" /\ idx'[t] = 0
    BY <1>1, <1>4
  <2>2. \A s \in Slot : 0 <= s
    BY CharlaAssumption DEF Slot
  <2>3. /\ \A s \in Slot : /\ ~(Clears(t, s))' /\ ~Clears(t, s) /\ ~(Marks(t, s))' /\ ~Marks(t, s)
                           /\ ~(Stores(t, s))' /\ ~(Fills(t, s))' /\ (Ahead(t, s))'
        /\ HasName(t) /\ ~LastStep(t)'
    BY <1>1, <1>2, <1>4, <2>1, <2>2
    DEF Clears, Marks, Stores, Fills, Ahead, LogsOut, LastStep, HasName
  <2> QED
    BY <1>1, <1>4, <2>3, CalmKept
<1>5. CASE \E l \in {"idle", "unref"} : pc' = [pc EXCEPT ![t] = l]
  BY <1>1, <1>5, PlainKept DEF Acting
<1> QED
  BY <1>3, <1>4, <1>5

(* Steps that have nothing to do with the traps.                           *)
Passive(t) == \/ Accept(t) \/ LoginRequest(t) \/ Eof(t) \/ ureg_register(t) \/ user_ref(t)
              \/ user_create(t) \/ LoginLock(t) \/ Held(t) \/ HeldUser(t) \/ HeldCmp(t)
              \/ Mine(t) \/ MineFd(t) \/ Started(t)

(* These steps keep Paths.                                                 *)
LEMMA PassiveKept ==
  ASSUME TypeOK, Paths, NEW t \in Conn, Passive(t), fault' = None
  PROVE  Paths'
<1>a. None \notin Faults /\ idx \in [Conn -> Slot]
  BY NoneFact DEF TypeOK
<1>b. ASSUME NEW l, pc' = [pc EXCEPT ![t] = l], l \notin Acting, pc[t] \notin Acting,
             UNCHANGED <<slots, client, mine, put>>,
             \A y \in Conn \ {t} : idx'[y] = idx[y]
      PROVE  Paths'
  BY <1>b, PlainKept DEF NamesKept
<1> USE <1>a DEF registry, userdb, locks, locals, At, Goto, Crash, LoopStep, Receive, NextSlot, Faults
<1>1. CASE ureg_register(t)
  <2>1. /\ UNCHANGED <<slots, client, mine, put>> /\ pc[t] \notin Acting
        /\ \A y \in Conn \ {t} : idx'[y] = idx[y]
    BY <1>1 DEF ureg_register, Acting
  <2>2. PICK l \in {"userRef", "userNew"} : pc' = [pc EXCEPT ![t] = l]
    BY <1>1 DEF ureg_register
  <2> QED
    BY <1>b, <2>1, <2>2 DEF Acting
<1>2. CASE user_ref(t)
  <2>1. /\ UNCHANGED <<slots, client, mine, put>> /\ pc[t] \notin Acting
        /\ \A y \in Conn \ {t} : idx'[y] = idx[y]
    BY <1>2 DEF user_ref, Acting
  <2>2. PICK l \in {"lockL"} : pc' = [pc EXCEPT ![t] = l]
    BY <1>2 DEF user_ref
  <2> QED
    BY <1>b, <2>1, <2>2 DEF Acting
<1>3. CASE user_create(t)
  <2>1. /\ UNCHANGED <<slots, client, mine, put>> /\ pc[t] \notin Acting
        /\ \A y \in Conn \ {t} : idx'[y] = idx[y]
    BY <1>3 DEF user_create, Acting
  <2>2. PICK l \in {"lockL"} : pc' = [pc EXCEPT ![t] = l]
    BY <1>3 DEF user_create
  <2> QED
    BY <1>b, <2>1, <2>2 DEF Acting
<1>4. CASE LoginLock(t)
  <2>1. /\ UNCHANGED <<slots, client, mine, put>> /\ pc[t] \notin Acting
        /\ \A y \in Conn \ {t} : idx'[y] = idx[y]
    BY <1>4 DEF LoginLock, Acting
  <2>2. PICK l \in {"held"} : pc' = [pc EXCEPT ![t] = l]
    BY <1>4 DEF LoginLock
  <2> QED
    BY <1>b, <2>1, <2>2 DEF Acting
<1>5. CASE Held(t)
  <2>1. /\ UNCHANGED <<slots, client, mine, put>> /\ pc[t] \notin Acting
        /\ \A y \in Conn \ {t} : idx'[y] = idx[y]
    BY <1>5 DEF Held, Acting
  <2>2. PICK l \in {"held", "mine", "heldUser"} : pc' = [pc EXCEPT ![t] = l]
    BY <1>5 DEF Held
  <2> QED
    BY <1>b, <2>1, <2>2 DEF Acting
<1>6. CASE HeldUser(t)
  <2>1. /\ UNCHANGED <<slots, client, mine, put>> /\ pc[t] \notin Acting
        /\ \A y \in Conn \ {t} : idx'[y] = idx[y]
    BY <1>6 DEF HeldUser, Acting
  <2>2. PICK l \in {"held", "mine", "heldCmp"} : pc' = [pc EXCEPT ![t] = l]
    BY <1>6 DEF HeldUser
  <2> QED
    BY <1>b, <2>1, <2>2 DEF Acting
<1>7. CASE HeldCmp(t)
  <2>1. /\ UNCHANGED <<slots, client, mine, put>> /\ pc[t] \notin Acting
        /\ \A y \in Conn \ {t} : idx'[y] = idx[y]
    BY <1>7 DEF HeldCmp, Acting
  <2>2. PICK l \in {"idle", "held", "mine"} : pc' = [pc EXCEPT ![t] = l]
    BY <1>7 DEF HeldCmp
  <2> QED
    BY <1>b, <2>1, <2>2 DEF Acting
<1>8. CASE Mine(t)
  <2>1. /\ UNCHANGED <<slots, client, mine, put>> /\ pc[t] \notin Acting
        /\ \A y \in Conn \ {t} : idx'[y] = idx[y]
    BY <1>8 DEF Mine, Acting
  <2>2. PICK l \in {"mine", "free", "mineFd"} : pc' = [pc EXCEPT ![t] = l]
    BY <1>8 DEF Mine
  <2> QED
    BY <1>b, <2>1, <2>2 DEF Acting
<1>9. CASE MineFd(t)
  <2>1. /\ UNCHANGED <<slots, client, mine, put>> /\ pc[t] \notin Acting
        /\ \A y \in Conn \ {t} : idx'[y] = idx[y]
    BY <1>9 DEF MineFd, Acting
  <2>2. PICK l \in {"setUser", "mine", "free"} : pc' = [pc EXCEPT ![t] = l]
    BY <1>9 DEF MineFd
  <2> QED
    BY <1>b, <2>1, <2>2 DEF Acting
<1>10. CASE Started(t)
  <2>1. /\ UNCHANGED <<slots, client, mine, put>> /\ pc[t] \notin Acting
        /\ \A y \in Conn \ {t} : idx'[y] = idx[y]
    BY <1>10 DEF Started, Acting
  <2>2. PICK l \in {"idle"} : pc' = [pc EXCEPT ![t] = l]
    BY <1>10 DEF Started
  <2> QED
    BY <1>b, <2>1, <2>2 DEF Acting
<1>11. CASE Accept(t)
  <2>1. /\ UNCHANGED <<slots, client, mine, put>> /\ pc[t] \notin Acting
        /\ \A y \in Conn \ {t} : idx'[y] = idx[y]
    BY <1>11 DEF Accept, Acting
  <2>2. PICK l \in {"creg"} : pc' = [pc EXCEPT ![t] = l]
    BY <1>11 DEF Accept
  <2> QED
    BY <1>b, <2>1, <2>2 DEF Acting
<1>12. CASE LoginRequest(t)
  <2>1. /\ UNCHANGED <<slots, client, mine, put>> /\ pc[t] \notin Acting
        /\ \A y \in Conn \ {t} : idx'[y] = idx[y]
    BY <1>12 DEF LoginRequest, Acting
  <2>2. PICK l \in {"ureg", "idle"} : pc' = [pc EXCEPT ![t] = l]
    BY <1>12 DEF LoginRequest
  <2> QED
    BY <1>b, <2>1, <2>2 DEF Acting
<1>13. CASE Eof(t)
  <2>1. /\ UNCHANGED <<slots, client, mine, put>> /\ pc[t] \notin Acting
        /\ \A y \in Conn \ {t} : idx'[y] = idx[y]
    BY <1>13 DEF Eof, Acting
  <2>2. PICK l \in {"eof"} : pc' = [pc EXCEPT ![t] = l]
    BY <1>13 DEF Eof
  <2> QED
    BY <1>b, <2>1, <2>2 DEF Acting
<1> QED
  BY <1>1, <1>2, <1>3, <1>4, <1>5, <1>6, <1>7, <1>8, <1>9, <1>10, <1>11, <1>12, <1>13 DEF Passive

(* Every step that does not crash keeps Paths.                             *)
LEMMA PathsStep ==
  ASSUME TypeOK, Control, Exclusion, Paths, [Next]_vars, fault' = None
  PROVE  Paths'
<1>1. CASE UNCHANGED vars
  <2>1. UNCHANGED <<slots, client, mine, idx, put, pc>>
    BY <1>1 DEF vars, registry, locals
  <2> QED
    BY <2>1, SameKept DEF NamesKept, Clears, Stores, Fills, Marks, Ahead, LogsOut, LastStep, Paths,
      LogoutNamed
<1>2. ASSUME NEW t \in Conn, Passive(t) PROVE Paths'
  BY <1>2, PassiveKept
<1>3. ASSUME NEW t \in Conn, client_logout(t) PROVE Paths'
  BY <1>3, LogoutKept, LeavesKept, ClearUserKept, ClearSlotKept DEF client_logout, Exclusion
<1>4. ASSUME NEW t \in Conn, Free(t) \/ FreeSet(t) \/ SetUser(t) \/ SetMark(t) PROVE Paths'
  BY <1>4, FreeKept, FreeSetKept, SetUserKept, SetMarkKept DEF Exclusion
<1>5. ASSUME NEW t \in Conn, \/ creg_register(t, "creg", "cregPut")
                             \/ creg_register(t, "freeReg", "freePut")
                             \/ creg_store(t)
      PROVE  Paths'
  BY <1>5, RegisterKept, StoreKept DEF Exclusion
<1>6. ASSUME NEW t \in Conn, creg_register_full(t) PROVE Paths'
  <2>1. /\ pc[t] = "creg" /\ pc' = [pc EXCEPT ![t] = "refused"]
        /\ UNCHANGED <<slots, mine, idx, put>> /\ NamesKept
    BY <1>6, FreshKept, NoneFact DEF creg_register_full, At, Goto, Faults
  <2> QED
    BY <2>1, PlainKept DEF Acting
<1>7. ASSUME NEW t \in Conn, LogoutRequest(t) \/ EofLogout(t) PROVE Paths'
  BY <1>7, StartKept DEF Exclusion
<1>8. ASSUME NEW t \in Conn, client_unref(t) PROVE Paths'
  <2>1. /\ pc[t] = "unref" /\ pc' = [pc EXCEPT ![t] = "done"]
        /\ UNCHANGED <<slots, mine, idx, put>>
        /\ slots \in [Slot -> Client \union {None}] /\ mine \in [Conn -> Client \union {None}]
    BY <1>8 DEF client_unref, creg_unregister, At, Goto, locals, TypeOK
  <2>2. \A c \in Client : client'[c].user = client[c].user /\ client'[c].logged = client[c].logged
    BY <1>8, FieldsKept DEF TypeOK
  <2>3. NamesKept
    BY <2>1, <2>2 DEF NamesKept
  <2> QED
    BY <2>1, <2>3, PlainKept DEF Acting
<1>9. ASSUME NEW t \in Conn, creg_all_clients_freed(t) PROVE FALSE
  BY <1>9, NoneFact DEF creg_all_clients_freed, Crash, Faults
<1> QED
  BY <1>1, <1>2, <1>3, <1>4, <1>5, <1>6, <1>7, <1>8, <1>9
  DEF Next, Halted, Environment, Step, Connect, Login, Disconnect, Passive

(* Nobody but its holder releases the mutex of client.c.                   *)
LEMMA ReleaseStep ==
  ASSUME TypeOK, Control, Exclusion, fault = None => Paths, [Next]_vars
  PROVE  ReleasedByHolder
<1> SUFFICES ASSUME NEW u \in Conn, lockL = u, lockL' # u PROVE pc'[u] # pc[u]
  BY DEF ReleasedByHolder
<1>a. pc \in [Conn -> Labels] /\ None \notin Conn /\ (\A t \in Conn : lockL = t <=> pc[t] \in UnderL)
  BY NoneFact DEF TypeOK, Exclusion, LLock
<1> USE <1>a DEF registry, userdb, locks, locals, At, Goto, Crash, LoopStep, Receive, NextSlot, UnderL
<1>1. ASSUME NEW t \in Conn, Registers(t) \/ creg_register(t, "freeReg", "freePut")
      PROVE  lockL' = lockL
  BY <1>1 DEF Registers, Accept, creg_register, creg_register_full, creg_store
<1>2. ASSUME NEW t \in Conn, LogsIn(t) PROVE lockL' = u \/ pc'[u] # pc[u]
  <2>1. CASE HeldCmp(t)
    BY <2>1 DEF HeldCmp
  <2>2. CASE ~HeldCmp(t)
    BY <1>2, <2>2 DEF LogsIn, ureg_register, user_ref, user_create, LoginLock, Held, HeldUser
  <2> QED
    BY <2>1, <2>2
<1>3. ASSUME NEW t \in Conn, Mine(t) \/ MineFd(t) \/ FreeSet(t) PROVE lockL' = lockL
  BY <1>3 DEF Mine, MineFd, FreeSet
<1>4. ASSUME NEW t \in Conn, Free(t) \/ SetUser(t) \/ SetMark(t) PROVE lockL' = u \/ pc'[u] # pc[u]
  BY <1>4 DEF Free, SetUser, SetMark
<1>5. ASSUME NEW t \in Conn, Asks(t) \/ Eof(t) \/ Disconnect(t) PROVE lockL' = lockL
  BY <1>5 DEF Asks, Started, LoginRequest, LogoutRequest, creg_all_clients_freed, Eof, Disconnect,
    EofLogout, client_unref
<1>6. ASSUME NEW t \in Conn, Logout(t) PROVE lockL' = lockL
  <2>1. CASE fault' = None
    BY <1>6, <2>1, LogoutKept DEF Logout
  <2>2. CASE fault' # None
    BY <1>6, <2>2 DEF Logout
  <2> QED
    BY <2>1, <2>2
<1>7. ASSUME NEW t \in Conn, client_logout(t), ~Logout(t) PROVE lockL' = lockL
  BY <1>7 DEF client_logout, user_unref, user_free, ClearUser, ClearSlot
<1>8. CASE UNCHANGED vars
  BY <1>8 DEF vars
<1> QED
  BY <1>1, <1>2, <1>3, <1>4, <1>5, <1>6, <1>7, <1>8
  DEF Next, Halted, Environment, Step, Connect, Login, Disconnect, Registers, LogsIn, Asks

(* A fault is the last thing that happens.                                 *)
LEMMA FaultStep == [Next]_vars /\ fault # None => UNCHANGED vars
<1> SUFFICES ASSUME Next, fault # None PROVE UNCHANGED vars
  OBVIOUS
<1>1. ASSUME NEW t \in Conn PROVE ~Environment(t)
  BY DEF Environment, Accept, LoginRequest, LogoutRequest, Receive, Eof, creg_all_clients_freed, At
<1>2. ASSUME NEW t \in Conn, NEW l, NEW m PROVE ~creg_register(t, l, m)
  BY DEF creg_register, At
<1>3. ASSUME NEW t \in Conn PROVE ~Connect(t)
  BY <1>2 DEF Connect, creg_register_full, creg_store, At
<1>4. ASSUME NEW t \in Conn PROVE ~client_logout(t)
  BY DEF client_logout, Logout, user_unref, user_free, ClearUser, ClearSlot, At
<1>5. ASSUME NEW t \in Conn PROVE ~Disconnect(t)
  BY DEF Disconnect, EofLogout, client_unref, At
<1>6. ASSUME NEW t \in Conn PROVE ~Login(t)
  <2>1. ~ureg_register(t) /\ ~user_ref(t) /\ ~user_create(t) /\ ~LoginLock(t)
    BY DEF ureg_register, user_ref, user_create, LoginLock, At
  <2>2. ~Held(t) /\ ~HeldUser(t) /\ ~HeldCmp(t)
    BY DEF Held, HeldUser, HeldCmp, At
  <2>3. ~Mine(t) /\ ~MineFd(t) /\ ~Free(t) /\ ~FreeSet(t)
    BY DEF Mine, MineFd, Free, FreeSet, At
  <2>4. ~SetUser(t) /\ ~SetMark(t) /\ ~Started(t)
    BY DEF SetUser, SetMark, Started, At
  <2> QED
    BY <1>2, <2>1, <2>2, <2>3, <2>4 DEF Login
<1> QED
  BY <1>1, <1>3, <1>4, <1>5, <1>6 DEF Next, Halted, Step

(* Nobody has a USER when the server starts.                               *)
LEMMA PathsInit == Init => Paths
BY NoneFact DEF Init, Paths, Finds, Doubles, ClearsOwn, NamedMarked, StoresFree, FillsFree, OneSlot,
   LogoutNamed, HasName, SlotNamed, Clears, Stores, Fills, LogsOut

(* What holds of the server, and of every step.                            *)
Server == TypeOK /\ Control /\ Exclusion /\ (fault = None => Paths)

(* It is inductive, and only the holder unlocks.                           *)
LEMMA ServerStep == Server /\ [Next]_vars => Server' /\ ReleasedByHolder
<1> SUFFICES ASSUME Server, [Next]_vars PROVE Server' /\ ReleasedByHolder
  OBVIOUS
<1>1. ReleasedByHolder
  BY ReleaseStep DEF Server
<1>2. TypeOK' /\ Control' /\ Exclusion'
  BY <1>1, ControlStep, ExclusionStep DEF Server
<1>3. ASSUME fault' = None PROVE Paths'
  <2>1. fault = None
    BY <1>3, FaultStep DEF vars
  <2> QED
    BY <1>3, <2>1, PathsStep DEF Server
<1> QED
  BY <1>1, <1>2, <1>3 DEF Server

(* So it holds in every behaviour.                                         *)
LEMMA ServerAlways == Spec => []Server /\ [][ReleasedByHolder]_vars
<1>1. Init => Server
  BY InitTypeOK, InitControl, InitExclusion, PathsInit DEF Server
<1> QED
  BY <1>1, ServerStep, PTL DEF Spec

(* Only the thread that holds the mutex of client.c ever releases it,      *)
(* whatever logins, logouts and disconnections meet: the unlock at the end *)
(* of client_logout (client.c:114) is never reached.                       *)
THEOREM OnlyHolderUnlocks == Spec => UnlockByOwner
BY ServerAlways, PTL DEF UnlockByOwner

(* client_login's first loop suffices: no two CLIENTs of the registry are  *)
(* logged in under the same handle, although registrations, logouts and    *)
(* disconnections change the registry during the loop without the mutex.   *)
THEOREM SessionsUnique == Spec => []OneSessionPerHandle
<1>1. Server => OneSessionPerHandle
  BY DEF Server, Exclusion
<1> QED
  BY <1>1, ServerAlways, PTL
-----------------------------------------------------------------------------
(* A CLIENT that does not exist yet has not been logged in.                *)
Unborn == \A c \in Client \ alloc : ~client[c].logged

(* All a step may take away is the session of one CLIENT; no CLIENT loses  *)
(* its mark, and none gets one.                                            *)
LosesOnly(c) ==
  /\ alloc \subseteq alloc'
  /\ \A d \in Client : client'[d].logged = client[d].logged
  /\ \A s \in Slot, h \in Handle :
       LoggedAs(s, h) /\ slots[s] # c => (LoggedAs(s, h))' /\ slots'[s] = slots[s]
Loses == LosesOnly(None) \/ \E c \in Client : LosesOnly(c)

(* client_create changes no CLIENT that exists, and its own has no mark.   *)
LEMMA FreshMade ==
  ASSUME TypeOK, Unborn, alloc # Client, NEW t \in Conn,
         client' = [client EXCEPT ![NewClient] = [Fresh EXCEPT !.fd = fd[t]]]
  PROVE  /\ \A d \in Client : client'[d].logged = client[d].logged
         /\ \A d \in alloc : client'[d] = client[d]
<1>1. NewClient \in Client /\ NewClient \notin alloc /\ client \in [Client -> ClientRec]
      /\ alloc \subseteq Client
  BY FreshClient DEF TypeOK
<1>2. client[NewClient].logged = FALSE
  BY <1>1 DEF Unborn, ClientRec
<1>3. [Fresh EXCEPT !.fd = fd[t]].logged = FALSE
  BY DEF Fresh
<1> QED
  BY <1>1, <1>2, <1>3

(* Every step but the mark ends one session at most.                       *)
LEMMA LosesStep ==
  TypeOK /\ Created /\ Unregistered /\ Reserved /\ Marking /\ Unborn /\ [Next]_vars
  => Loses \/ \E u \in Conn : SetMark(u)
<1> SUFFICES ASSUME TypeOK, Created, Unregistered, Reserved, Marking, Unborn, [Next]_vars
             PROVE  Loses \/ \E u \in Conn : SetMark(u)
  OBVIOUS
<1>a. /\ pc \in [Conn -> Labels] /\ None \notin Conn
      /\ mine \in [Conn -> Client \union {None}] /\ want \in [Conn -> Handle \union {None}]
      /\ new \in [Conn -> Client \union {None}] /\ slots \in [Slot -> Client \union {None}]
      /\ idx \in [Conn -> Slot] /\ put \in [Conn -> Slot] /\ alloc \subseteq Client
      /\ (alloc # Client => NewClient \in Client /\ NewClient \notin alloc)
      /\ client \in [Client -> ClientRec] /\ None \notin Client /\ None \notin Handle
  BY NoneFact, FreshClient DEF TypeOK
<1> USE <1>a DEF registry, userdb, locks, locals, At, Goto, Crash, LoopStep, Receive,
   NextSlot, AfterLogout, LoggedAs, Loses, LosesOnly, Marking, Unregistered, Reserved, Created,
   Unborn
<1>0. CASE UNCHANGED vars
  BY <1>0 DEF vars
<1>1. ASSUME NEW t \in Conn, ureg_register(t) PROVE Loses \/ \E u \in Conn : SetMark(u)
  BY <1>1 DEF ureg_register
<1>2. ASSUME NEW t \in Conn, user_ref(t) PROVE Loses \/ \E u \in Conn : SetMark(u)
  BY <1>2 DEF user_ref
<1>3. ASSUME NEW t \in Conn, user_create(t) PROVE Loses \/ \E u \in Conn : SetMark(u)
  BY <1>3 DEF user_create
<1>4. ASSUME NEW t \in Conn, LoginLock(t) PROVE Loses \/ \E u \in Conn : SetMark(u)
  BY <1>4 DEF LoginLock
<1>5. ASSUME NEW t \in Conn, Held(t) PROVE Loses \/ \E u \in Conn : SetMark(u)
  BY <1>5 DEF Held
<1>6. ASSUME NEW t \in Conn, HeldUser(t) PROVE Loses \/ \E u \in Conn : SetMark(u)
  BY <1>6 DEF HeldUser
<1>7. ASSUME NEW t \in Conn, HeldCmp(t) PROVE Loses \/ \E u \in Conn : SetMark(u)
  BY <1>7 DEF HeldCmp
<1>8. ASSUME NEW t \in Conn, Mine(t) PROVE Loses \/ \E u \in Conn : SetMark(u)
  BY <1>8 DEF Mine
<1>9. ASSUME NEW t \in Conn, MineFd(t) PROVE Loses \/ \E u \in Conn : SetMark(u)
  BY <1>9 DEF MineFd
<1>10. ASSUME NEW t \in Conn, Free(t) PROVE Loses \/ \E u \in Conn : SetMark(u)
  BY <1>10 DEF Free
<1>11. ASSUME NEW t \in Conn, FreeSet(t) PROVE Loses \/ \E u \in Conn : SetMark(u)
  <2>1. LosesOnly(slots[idx[t]])
    BY <1>11 DEF FreeSet
  <2> QED
    BY <2>1
<1>12. ASSUME NEW t \in Conn, SetUser(t) PROVE Loses \/ \E u \in Conn : SetMark(u)
  <2>1. CASE slots[idx[t]] = None
    BY <1>12, <2>1 DEF SetUser
  <2>2. CASE slots[idx[t]] # None
    <3>1. slots[idx[t]] \in Client /\ ~client[slots[idx[t]]].logged
      BY <1>12, <2>2 DEF SetUser
    <3>2. /\ ~client'[slots[idx[t]]].logged
          /\ \A c \in Client \ {slots[idx[t]]} : client'[c] = client[c]
      BY <1>12, <2>2, <3>1, UserSet
    <3>3. UNCHANGED <<slots, alloc>>
      BY <1>12, <2>2 DEF SetUser
    <3>4. \A c \in Client : client'[c].logged = client[c].logged
      BY <3>1, <1>12, UserSet
    <3>5. LosesOnly(None)
      BY <3>1, <3>2, <3>3, <3>4
    <3> QED
      BY <3>5
  <2> QED
    BY <2>1, <2>2
<1>13. ASSUME NEW t \in Conn, SetMark(t) PROVE Loses \/ \E u \in Conn : SetMark(u)
  BY <1>13
<1>14. ASSUME NEW t \in Conn, Started(t) PROVE Loses \/ \E u \in Conn : SetMark(u)
  BY <1>14 DEF Started
<1>15. ASSUME NEW t \in Conn, Logout(t) PROVE Loses \/ \E u \in Conn : SetMark(u)
  BY <1>15, LogoutMoves
<1>16. ASSUME NEW t \in Conn, user_unref(t) PROVE Loses \/ \E u \in Conn : SetMark(u)
  BY <1>16 DEF user_unref
<1>17. ASSUME NEW t \in Conn, user_free(t) PROVE Loses \/ \E u \in Conn : SetMark(u)
  BY <1>17 DEF user_free
<1>18. ASSUME NEW t \in Conn, ClearUser(t) PROVE Loses \/ \E u \in Conn : SetMark(u)
  <2>1. /\ \A c \in Client : client'[c].logged = client[c].logged
        /\ \A c \in Client \ {mine[t]} : client'[c] = client[c]
    BY <1>18, UserCleared DEF ClearUser
  <2>2. LosesOnly(mine[t])
    BY <1>18, <2>1 DEF ClearUser
  <2> QED
    BY <2>2
<1>19. ASSUME NEW t \in Conn, ClearSlot(t) PROVE Loses \/ \E u \in Conn : SetMark(u)
  <2>1. \A c \in Client : client'[c].user = client[c].user /\ client'[c].logged = client[c].logged
    BY <1>19, FieldsKept
  <2>2. LosesOnly(slots[idx[t]])
    BY <1>19, <2>1 DEF ClearSlot
  <2> QED
    BY <2>2
<1>20. ASSUME NEW t \in Conn, creg_register_full(t) PROVE Loses \/ \E u \in Conn : SetMark(u)
  <2>1. /\ \A d \in Client : client'[d].logged = client[d].logged
        /\ \A d \in alloc : client'[d] = client[d]
    BY <1>20, FreshMade DEF creg_register_full
  <2>2. \A s \in Slot \ {idx[t]} : slots'[s] = slots[s]
    BY <1>20 DEF creg_register_full
  <2>3. LosesOnly(slots[idx[t]])
    BY <1>20, <2>1, <2>2 DEF creg_register_full
  <2> QED
    BY <2>3
<1>21. ASSUME NEW t \in Conn, creg_store(t) PROVE Loses \/ \E u \in Conn : SetMark(u)
  <2>1. LosesOnly(slots[put[t]])
    BY <1>21 DEF creg_store
  <2> QED
    BY <2>1
<1>22. ASSUME NEW t \in Conn, EofLogout(t) PROVE Loses \/ \E u \in Conn : SetMark(u)
  BY <1>22 DEF EofLogout
<1>23. ASSUME NEW t \in Conn, client_unref(t) PROVE Loses \/ \E u \in Conn : SetMark(u)
  <2>1. \A c \in Client : client'[c].user = client[c].user /\ client'[c].logged = client[c].logged
    BY <1>23, FieldsKept
  <2>2. LosesOnly(None)
    BY <1>23, <2>1 DEF client_unref, creg_unregister
  <2> QED
    BY <2>2
<1>24. ASSUME NEW t \in Conn, Accept(t) PROVE Loses \/ \E u \in Conn : SetMark(u)
  BY <1>24 DEF Accept
<1>25. ASSUME NEW t \in Conn, LoginRequest(t) PROVE Loses \/ \E u \in Conn : SetMark(u)
  BY <1>25 DEF LoginRequest
<1>26. ASSUME NEW t \in Conn, LogoutRequest(t) PROVE Loses \/ \E u \in Conn : SetMark(u)
  BY <1>26 DEF LogoutRequest
<1>27. ASSUME NEW t \in Conn, Eof(t) PROVE Loses \/ \E u \in Conn : SetMark(u)
  BY <1>27 DEF Eof
<1>28. ASSUME NEW t \in Conn, creg_all_clients_freed(t) PROVE Loses \/ \E u \in Conn : SetMark(u)
  BY <1>28 DEF creg_all_clients_freed
<1>29. ASSUME NEW t \in Conn, creg_register(t, "creg", "cregPut")
       PROVE  Loses \/ \E u \in Conn : SetMark(u)
  <2>1. /\ \A d \in Client : client'[d].logged = client[d].logged
        /\ \A d \in alloc : client'[d] = client[d]
    BY <1>29, FreshMade DEF creg_register
  <2>2. LosesOnly(None)
    BY <1>29, <2>1 DEF creg_register
  <2> QED
    BY <2>2
<1>30. ASSUME NEW t \in Conn, creg_register(t, "freeReg", "freePut")
       PROVE  Loses \/ \E u \in Conn : SetMark(u)
  <2>1. /\ \A d \in Client : client'[d].logged = client[d].logged
        /\ \A d \in alloc : client'[d] = client[d]
    BY <1>30, FreshMade DEF creg_register
  <2>2. LosesOnly(None)
    BY <1>30, <2>1 DEF creg_register
  <2> QED
    BY <2>2
<1> QED
  BY <1>0, <1>1, <1>2, <1>3, <1>4, <1>5, <1>6, <1>7, <1>8, <1>9, <1>10, <1>11, <1>12, <1>13,
     <1>14, <1>15, <1>16, <1>17, <1>18, <1>19, <1>20, <1>21, <1>22, <1>23, <1>24, <1>25,
     <1>26, <1>27, <1>28, <1>29, <1>30
  DEF Next, Halted, Environment, Step, Connect, Login, client_logout, Disconnect
(* Only CLIENTs that exist are marked.                                     *)
LEMMA UnbornStep ==
  ASSUME TypeOK, TypeOK', Control, Exclusion, Unborn, [Next]_vars
  PROVE  Unborn'
<1>1. ASSUME Loses PROVE Unborn'
  BY <1>1 DEF Loses, LosesOnly, Unborn
<1>2. ASSUME NEW t \in Conn, SetMark(t) PROVE Unborn'
  <2>1. CASE slots[idx[t]] = None
    BY <1>2, <2>1 DEF SetMark, Crash, registry, Unborn
  <2>2. CASE slots[idx[t]] # None
    <3>1. slots[idx[t]] \in alloc /\ slots[idx[t]] \in Client
      BY <2>2 DEF Control, Created, TypeOK
    <3>2. UNCHANGED alloc /\ \A c \in Client \ {slots[idx[t]]} : client'[c] = client[c]
      BY <1>2, <2>2, <3>1, MarkSet DEF SetMark, TypeOK
    <3> QED
      BY <3>1, <3>2 DEF Unborn
  <2> QED
    BY <2>1, <2>2
<1> QED
  BY <1>1, <1>2, LosesStep DEF Control, Exclusion

(* With one session per handle, the owner of a handle is who is logged in. *)
SessionHeld ==
  \A h \in Handle :
    /\ \A s \in Slot : LoggedAs(s, h) => Session[h] = slots[s]
    /\ Session[h] # None => \E s \in Slot : LoggedAs(s, h) /\ Session[h] = slots[s]

(* One session per handle: Session is a function of the registry.          *)
LEMMA SessionIs == OneSessionPerHandle => SessionHeld
<1> SUFFICES ASSUME OneSessionPerHandle, NEW h \in Handle
    PROVE  /\ \A s \in Slot : LoggedAs(s, h) => Session[h] = slots[s]
           /\ Session[h] # None => \E s \in Slot : LoggedAs(s, h) /\ Session[h] = slots[s]
  BY DEF SessionHeld
<1>1. CASE Owners(h) = {}
  <2>1. Session[h] = None /\ \A s \in Slot : ~LoggedAs(s, h)
    BY <1>1 DEF Session, Owners
  <2> QED
    BY <2>1
<1>2. CASE Owners(h) # {}
  <2>1. Session[h] \in Owners(h)
    BY <1>2 DEF Session
  <2>2. PICK r \in Slot : LoggedAs(r, h) /\ Session[h] = slots[r]
    BY <2>1 DEF Owners
  <2> QED
    BY <2>2 DEF OneSessionPerHandle
<1> QED
  BY <1>1, <1>2

(* The same after a step.                                                  *)
LEMMA SessionIsNext == OneSessionPerHandle' => SessionHeld'
BY SessionIs, PTL

(* The handle whose session the step ends, if any, is given up; the others *)
(* are still with their CLIENTs.                                           *)
LEMMA GivenUp ==
  ASSUME SessionHeld, SessionHeld', Kept, NEW c, LosesOnly(c)
  PROVE  [Promise!Next]_Promise!vars
<1>1. Used' = Used
  BY DEF Used, LosesOnly
<1>2. \A h \in Handle : Session'[h] \in {Session[h], None}
  <2> SUFFICES ASSUME NEW h \in Handle, Session'[h] # None PROVE Session'[h] = Session[h]
    OBVIOUS
  <2>1. PICK s \in Slot : (LoggedAs(s, h))' /\ Session'[h] = slots'[s]
    BY DEF SessionHeld
  <2>2. LoggedAs(s, h) /\ slots'[s] = slots[s]
    BY <2>1 DEF Kept
  <2> QED
    BY <2>1, <2>2 DEF SessionHeld
<1>3. ASSUME NEW h \in Handle, Session[h] # None, Session[h] # c PROVE Session'[h] = Session[h]
  <2>1. PICK s \in Slot : LoggedAs(s, h) /\ Session[h] = slots[s]
    BY <1>3 DEF SessionHeld
  <2>2. (LoggedAs(s, h))' /\ slots'[s] = slots[s]
    BY <1>3, <2>1 DEF LosesOnly
  <2> QED
    BY <2>1, <2>2 DEF SessionHeld
<1>4. Session \in [Handle -> {Session[h] : h \in Handle}] /\ Session' = [h \in Handle |-> Session'[h]]
  BY DEF Session
<1>5. CASE Session' = Session
  BY <1>1, <1>5 DEF Promise!vars
<1>6. CASE Session' # Session
  <2>1. PICK h \in Handle : Session'[h] # Session[h]
    BY <1>4, <1>6
  <2>2. Session'[h] = None /\ Session[h] = c /\ Session[h] # None
    BY <1>2, <1>3, <2>1
  <2>3. ASSUME NEW g \in Handle, g # h PROVE Session'[g] = Session[g]
    <3>1. CASE Session[g] = None
      BY <1>2, <3>1
    <3>2. CASE Session[g] # None
      <4>1. PICK r \in Slot : LoggedAs(r, g) /\ Session[g] = slots[r]
        BY <3>2 DEF SessionHeld
      <4>2. PICK s \in Slot : LoggedAs(s, h) /\ Session[h] = slots[s]
        BY <2>2 DEF SessionHeld
      <4>3. Session[g] # c
        BY <2>2, <2>3, <4>1, <4>2 DEF LoggedAs
      <4> QED
        BY <1>3, <3>2, <4>3
    <3> QED
      BY <3>1, <3>2
  <2>4. Session' = [Session EXCEPT ![h] = None]
    BY <1>4, <2>2, <2>3
  <2>5. Promise!Logout(h)
    BY <1>1, <2>2, <2>4 DEF Promise!Logout
  <2> QED
    BY <2>5 DEF Promise!Next
<1> QED
  BY <1>5, <1>6

(* The mark gives the handle that was asked for to the CLIENT, or spends a *)
(* CLIENT that has no user any more.                                       *)
LEMMA MarkGives ==
  ASSUME TypeOK, Control, Exclusion, SessionHeld, SessionHeld', NEW t \in Conn, SetMark(t)
  PROVE  [Promise!Next]_Promise!vars
<1> DEFINE d == slots[idx[t]]
<1>0. /\ pc[t] = "setMark" /\ idx[t] \in Slot /\ want[t] \in Handle
      /\ slots \in [Slot -> Client \union {None}] /\ client \in [Client -> ClientRec]
  BY SlotFacts DEF SetMark, At, TypeOK, Control, Asking, UnderL
<1>4. Session = [h \in Handle |-> Session[h]] /\ Session' = [h \in Handle |-> Session'[h]]
  BY DEF Session
<1>1. CASE d = None
  <2>1. UNCHANGED <<slots, client>>
    BY <1>1 DEF SetMark, Crash, registry
  <2>2. Session' = Session /\ Used' = Used
    BY <2>1 DEF Session, Used, Owners, LoggedAs
  <2> QED
    BY <2>2 DEF Promise!vars
<1>2. CASE d # None
  <2>1. /\ ~client[d].logged /\ client[d].user \in {want[t], None} /\ d \in Client
        /\ UNCHANGED slots
    BY <1>0, <1>2 DEF Exclusion, Marking, SetMark
  <2>2. /\ client'[d].user = client[d].user /\ (\A c \in Client \ {d} : client'[c] = client[c])
        /\ client'[d].logged
    <3> DEFINE r == [client[d] EXCEPT !.logged = TRUE, !.mail = "open"]
    <3>1. client' = [client EXCEPT ![d] = r]
      BY <1>2 DEF SetMark
    <3>2. r.logged
      BY <1>0, <2>1 DEF ClientRec
    <3> HIDE DEF r
    <3>3. client'[d].logged
      BY <1>0, <2>1, <3>1, <3>2
    <3> QED
      BY <1>0, <2>1, <3>3, MarkSet
  <2>3. d \notin Used /\ Used' = Used \union {d}
    BY <2>1, <2>2 DEF Used
  <2>4. \A s \in Slot : ~LoggedAs(s, want[t])
    BY <1>0 DEF Exclusion, NoConflict, Passed, UnderL
  <2>5. ASSUME NEW h \in Handle, h # client[d].user PROVE Session'[h] = Session[h]
    <3>1. \A s \in Slot : LoggedAs(s, h) <=> (LoggedAs(s, h))'
      BY <1>0, <2>1, <2>2, <2>5 DEF LoggedAs
    <3>2. CASE \E s \in Slot : LoggedAs(s, h)
      BY <2>1, <3>1, <3>2 DEF SessionHeld
    <3>3. CASE \A s \in Slot : ~LoggedAs(s, h)
      BY <3>1, <3>3 DEF SessionHeld
    <3> QED
      BY <3>2, <3>3
  <2>6. CASE client[d].user = None
    <3>1. Session' = Session
      BY <1>4, <2>5, <2>6, NoneFact
    <3>2. Promise!Spend(d)
      BY <2>3, <3>1 DEF Promise!Spend
    <3> QED
      BY <2>1, <3>2 DEF Promise!Next
  <2>7. CASE client[d].user = want[t]
    <3>1. Session[want[t]] = None
      BY <1>0, <2>4 DEF SessionHeld
    <3>2. PICK s \in Slot, h \in Handle : s = idx[t] /\ h = want[t]
      BY <1>0
    <3>3. Session'[want[t]] = d
      <4>1. (LoggedAs(s, h))'
        BY <1>2, <2>1, <2>2, <2>7, <3>2 DEF LoggedAs
      <4> QED
        BY <2>1, <3>2, <4>1 DEF SessionHeld
    <3>4. Session' = [Session EXCEPT ![want[t]] = d]
      BY <1>0, <1>4, <2>5, <2>7, <3>3
    <3>5. Promise!Login(d, want[t])
      BY <2>3, <3>1, <3>4 DEF Promise!Login
    <3> QED
      BY <1>0, <2>1, <3>5 DEF Promise!Next
  <2> QED
    BY <2>1, <2>6, <2>7
<1> QED
  BY <1>1, <1>2

(* The registries, the locks and the threads implement Sessions: a handle  *)
(* belongs to one CLIENT at a time, is given up before another has it, and *)
(* a CLIENT is logged in once.                                             *)
THEOREM SessionsImplemented == Spec => ImplementsSessions
<1> DEFINE I == TypeOK /\ Control /\ Exclusion /\ Unborn
<1>1. Init => I /\ Promise!Init
  <2> SUFFICES ASSUME Init PROVE I /\ Promise!Init
    OBVIOUS
  <2>1. TypeOK /\ Control /\ Exclusion
    BY InitTypeOK, InitControl, InitExclusion
  <2>2. Unborn
    BY DEF Init, Unborn, Fresh
  <2>3. Used = {}
    BY DEF Init, Used, Fresh
  <2>4. \A h \in Handle : Owners(h) = {}
    BY DEF Init, Owners, LoggedAs
  <2>5. Session = [h \in Handle |-> None]
    BY <2>4 DEF Session
  <2> QED
    BY <2>1, <2>2, <2>3, <2>5 DEF Promise!Init
<1>2. I /\ [Next]_vars /\ [ReleasedByHolder]_vars => I'
  BY ControlStep, ExclusionStep, UnbornStep
<1>3. I /\ I' /\ [Next]_vars => [Promise!Next]_Promise!vars
  <2> SUFFICES ASSUME I, I', [Next]_vars PROVE [Promise!Next]_Promise!vars
    OBVIOUS
  <2>1. SessionHeld /\ SessionHeld'
    BY SessionIs, SessionIsNext DEF Exclusion
  <2>2. CASE \E t \in Conn : SetMark(t)
    BY <2>1, <2>2, MarkGives
  <2>3. CASE ~\E t \in Conn : SetMark(t)
    <3>1. Loses /\ Kept
      BY <2>3, LosesStep, KeptStep DEF Control, Exclusion
    <3> QED
      BY <2>1, <3>1, GivenUp DEF Loses
  <2> QED
    BY <2>2, <2>3
<1> HIDE DEF I
<1> QED
  BY <1>1, <1>2, <1>3, ServerAlways, PTL DEF Spec, ImplementsSessions, Promise!Spec
=============================================================================

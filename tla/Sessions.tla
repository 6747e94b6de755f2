------------------------------ MODULE Sessions ------------------------------
(***************************************************************************)
(* What the Charla server promises about login sessions, without threads,  *)
(* locks, slots or reference counts: a handle belongs to at most one       *)
(* CLIENT at a time, it passes from one CLIENT to the next only by being   *)
(* given up in between, and a CLIENT object carries at most one session in *)
(* its lifetime (hw5/include/client.h, client_login and client_logout).    *)
(***************************************************************************)
CONSTANTS Handle,     \* the handles users log in under
          Client,     \* the CLIENT objects
          NoClient    \* the owner of a handle nobody is logged in under

VARIABLES session,    \* session[h]: the CLIENT logged in under h
          used        \* the CLIENTs that have been logged in at some time

vars == <<session, used>>

Init == /\ session = [h \in Handle |-> NoClient]
        /\ used = {}

Login(c, h) == /\ session[h] = NoClient
               /\ c \notin used
               /\ session' = [session EXCEPT ![h] = c]
               /\ used' = used \union {c}

(* Marks a CLIENT as used although its session ended while it was logged   *)
(* in: the login completes for a CLIENT that no longer has a user.         *)
Spend(c) == /\ c \notin used
            /\ used' = used \union {c}
            /\ UNCHANGED session

Logout(h) == /\ session[h] # NoClient
             /\ session' = [session EXCEPT ![h] = NoClient]
             /\ UNCHANGED used

Next == \/ \E c \in Client, h \in Handle : Login(c, h)
        \/ \E c \in Client : Spend(c)
        \/ \E h \in Handle : Logout(h)

Spec == Init /\ [][Next]_vars
=============================================================================

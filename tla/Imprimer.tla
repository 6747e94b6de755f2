------------------------------ MODULE Imprimer ------------------------------
(***************************************************************************)
(* hw4's print spooler: run_cli reads commands, keeps the table of printers *)
(* and the table of jobs, and forks a child for every job it hands to a     *)
(* printer.  The child works on its own copies of both tables, by itself or *)
(* through the processes of a conversion pipeline, while the parent reads   *)
(* the next command.                                                        *)
(*                                                                          *)
(* Names and types are values, and a file is known by its type.  The        *)
(* conversion library (conversions.h) is external: it keeps the types and   *)
(* conversions declared so far and finds a shortest path between two types. *)
(***************************************************************************)
EXTENDS Naturals, FiniteSets, SequencesExt

CONSTANTS
    Names,         \* printer names the user may write
    Types,         \* file types the user may write
    Edges,         \* conversions the user may declare
    MAX_PRINTERS,
    MAX_JOBS,
    MaxChildren,   \* bound: children alive at once
    MaxLapses      \* bound: commands that break the contract below

ASSUME BoundAssumption == /\ {MAX_PRINTERS, MAX_JOBS, MaxChildren} \subseteq Nat \ {0}
                          /\ MaxLapses \in Nat
ASSUME TypeAssumption == IsFiniteSet(Types) /\ Edges \subseteq Types \X Types

VARIABLES
    types, conversions,   \* what has been declared
    printers,             \* PRINTER_LIST up to print_list_index
    jobs,                 \* JOB_LIST up to job_list_index
    children,             \* child processes, each with its copies
    handed,               \* history: <<job, printer>> a child was forked for
    printed,              \* history: <<job, printer>> whose file was printed last
    reply,                \* sf_cmd_ok and sf_cmd_error calls of the last command
    lapses,               \* history: commands the code cannot be sure to take
    status                \* "running", "quit", or "fault": no such memory

tables == <<types, conversions, printers, jobs>>
forks == <<children, handed, printed>>
vars == <<tables, forks, reply, lapses, status>>

None == 0
NoChild == [len |-> None]

Job(type, eligible, named) ==
    [type |-> type, status |-> "created", eligible |-> eligible, named |-> named]
\* A slot that job_list_index has passed and where nothing was stored.
Hole == Job("null", FALSE, {})
Waiting(j) == j.type # "null" /\ j.status = "created"

\* The length of a shortest conversion path; NoPath when find_conversion_path
\* returns NULL.
NoPath == Cardinality(Types)
Reaches(n, from, to) ==
    \E path \in [0..n -> Types] :
        /\ path[0] = from /\ path[n] = to
        /\ \A i \in 1..n : <<path[i - 1], path[i]>> \in conversions
PathLength(from, to) == Min({n \in 0..NoPath - 1 : Reaches(n, from, to)} \cup {NoPath})
Converts(from, to) == PathLength(from, to) < NoPath

Init ==
    /\ types = {} /\ conversions = {} /\ printers = <<>> /\ jobs = <<>>
    /\ children = [c \in 1..MaxChildren |-> NoChild]
    /\ handed = {} /\ printed = <<>>
    /\ reply = <<>> /\ lapses = 0 /\ status = "running"

\* How a command ends: with these replies, or in memory that is not there.
Answer(r) == reply' = r /\ status' = "running"
Fault == status' = "fault" /\ UNCHANGED reply
\* What the user has to respect from this command on.
Contract(kept) ==
    /\ lapses' = IF kept THEN lapses ELSE lapses + 1
    /\ lapses' <= MaxLapses

(***************************************************************************)
(* The loops over the tables: the index where one stops, or None.  A loop   *)
(* reads the path of all it looks at, through a null pointer if there is    *)
(* none.                                                                    *)
(***************************************************************************)
name_def(name) == SelectInSeq(printers, LAMBDA p : p.name = name)

\* The loop forgets to ask whether the printer is idle.
find_print_any(j) ==
    SelectInSeq(printers, LAMBDA p : Converts(j.type, p.type) => j.eligible)

find_print(j) ==
    SelectInSeq(printers, LAMBDA p : /\ p.status = "idle"
                                     /\ Converts(j.type, p.type) => j.eligible)

\* The loop goes on to the last job that matches.
find_job_last(p) ==
    SelectLastInSeq(jobs, LAMBDA j :
        /\ j.type # "null"
        /\ Converts(j.type, p.type) =>
               PathLength(j.type, p.type) > 0 /\ Waiting(j) /\ j.eligible)

\* The loop does not skip the slots where nothing was stored.
find_job_holes(p) ==
    SelectInSeq(jobs, LAMBDA j :
        Converts(j.type, p.type) =>
            PathLength(j.type, p.type) > 0 /\ Waiting(j) /\ j.eligible)

\* A job of the printer's own type has an empty path and is passed over.
find_job(p) ==
    SelectInSeq(jobs, LAMBDA j :
        /\ j.type # "null"
        /\ Converts(j.type, p.type) =>
               PathLength(j.type, p.type) > 0 /\ Waiting(j) /\ j.eligible)

(***************************************************************************)
(* Handing a job over.  The child has copies of both tables as they are  *)
(* now, of which it uses a job and a printer; the parent goes on reading,   *)
(* or returns when it cannot fork.                                          *)
(***************************************************************************)
Child(j, job, printer) ==
    [id |-> j, printer |-> printer.name, len |-> PathLength(job.type, printer.type)]

Fork(j, job, printer, replies) ==
    \/ \E c \in 1..MaxChildren :
           /\ children[c] = NoChild /\ \A d \in 1..c - 1 : children[d] # NoChild
           /\ children' = [children EXCEPT ![c] = Child(j, job, printer)]
           /\ handed' = handed \cup {<<j, printer.name>>}
           /\ Answer(replies) /\ UNCHANGED printed
    \/ /\ reply' = Append(Front(replies), "error") /\ status' = "quit"
       /\ UNCHANGED forks

(***************************************************************************)
(* The commands.                                                            *)
(***************************************************************************)
Type(t) ==
    /\ types' = types \cup {t}
    /\ Contract(printers = <<>>)
    /\ Answer(<<"ok">>)
    /\ UNCHANGED <<conversions, printers, jobs, forks>>

Conversion(from, to) ==
    /\ conversions' = IF {from, to} \subseteq types THEN conversions \cup {<<from, to>>}
                      ELSE conversions
    /\ Contract(printers = <<>>)
    /\ Answer(<<"ok">>)
    /\ UNCHANGED <<types, printers, jobs, forks>>

\* The printer is stored before its name is compared with the others.
Printer_first(name, type) ==
    /\ Contract(Len(printers) < MAX_PRINTERS /\ \A t \in types : Converts(t, type))
    /\ IF type \notin types THEN Answer(<<"error">>) /\ UNCHANGED printers
       ELSE IF Len(printers) = MAX_PRINTERS THEN Fault /\ UNCHANGED printers
       ELSE /\ printers' = Append(printers, [name |-> name, type |-> type, status |-> "disabled"])
            /\ Answer(IF name_def(name) # None THEN <<"error">> ELSE <<"ok">>)
    /\ UNCHANGED <<types, conversions, jobs, forks>>

\* print_list_index has no limit.
Printer(name, type) ==
    /\ Contract(/\ \A t \in types : type \in types => Converts(t, type)
                /\ Len(printers) < MAX_PRINTERS)
    /\ IF type \notin types \/ name_def(name) # None
       THEN Answer(<<"error">>) /\ UNCHANGED printers
       ELSE IF Len(printers) = MAX_PRINTERS THEN Fault /\ UNCHANGED printers
       ELSE /\ printers' = Append(printers, [name |-> name, type |-> type, status |-> "disabled"])
            /\ Answer(<<"ok">>)
    /\ UNCHANGED <<types, conversions, jobs, forks>>

\* A job that names a printer is eligible for none.  One that names more, or one
\* printer more than once, takes its number and is dropped without a reply.
PrintFile(type, named) ==
    /\ Len(jobs) <= MAX_JOBS
    /\ Contract(Len(jobs) < MAX_JOBS)
    /\ UNCHANGED <<types, conversions, printers>>
    /\ \/ /\ type \notin types
          /\ Answer(<<"error", "error">>) /\ UNCHANGED <<jobs, forks>>
       \/ /\ type \in types /\ named # {}
          /\ jobs' = Append(jobs, Hole)
          /\ Answer(<<>>) /\ UNCHANGED forks
       \/ /\ type \in types /\ Cardinality(named) <= 1
          /\ LET job == Job(type, named = {}, named)
                 p == find_print(job)
             IN  IF Len(jobs) = MAX_JOBS \/ (p # None /\ ~Converts(type, printers[p].type))
                 THEN Fault /\ UNCHANGED <<jobs, forks>>
                 ELSE /\ jobs' = Append(jobs, job)
                      /\ IF p = None THEN Answer(<<>>) /\ UNCHANGED forks
                         ELSE Fork(Len(jobs), job, printers[p], <<"ok">>)

\* cancel, pause and resume: to is the new status of a job that is in from.
\* The number may lie outside JOB_LIST; a slot not yet used reads as created.
Signal(id, from, to) ==
    /\ Contract(id < MAX_JOBS)
    /\ UNCHANGED <<types, conversions, printers, forks>>
    /\ IF id >= MAX_JOBS THEN Fault /\ UNCHANGED jobs
       ELSE IF id < Len(jobs) /\ jobs[id + 1].status = from
       THEN jobs' = [jobs EXCEPT ![id + 1].status = to] /\ Answer(<<"ok">>)
       ELSE Answer(<<"error">>) /\ UNCHANGED jobs

\* The search for the name reads a null name unless the table is full, or full
\* but for its last slot.
Disable(name) ==
    LET p == name_def(name)
    IN  /\ Contract(p # None)
        /\ UNCHANGED <<types, conversions, jobs, forks>>
        /\ IF p # None
           THEN printers' = [printers EXCEPT ![p].status = "disabled"] /\ Answer(<<"ok">>)
           ELSE /\ UNCHANGED printers
                /\ IF Len(printers) < MAX_PRINTERS - 1 THEN Fault
                   ELSE Answer(IF Len(printers) < MAX_PRINTERS THEN <<"error">> ELSE <<>>)

\* One waiting job is handed over.  Without one, JOB_LIST[-1] is.
Enable(name) ==
    LET p == name_def(name)
        printer == [printers[p] EXCEPT !.status = "idle"]
        j == find_job(printer)
    IN  /\ Contract(p # None /\ \E i \in DOMAIN jobs :
                        Waiting(jobs[i]) /\ jobs[i].eligible /\ jobs[i].type # printers[p].type)
        /\ UNCHANGED <<types, conversions, jobs>>
        /\ IF p = None THEN Fault /\ UNCHANGED <<printers, forks>>
           ELSE /\ printers' = [printers EXCEPT ![p] = printer]
                /\ IF j = None THEN Fault /\ UNCHANGED forks
                   ELSE IF ~Converts(jobs[j].type, printer.type) THEN Fault /\ UNCHANGED forks
                   ELSE Fork(j - 1, jobs[j], printer, <<"ok", "ok">>)

\* help, printers and jobs.  The listing of jobs prints the times of their
\* creation through pointers to a variable of a block that was left: text that
\* may be anything, and no property reads it.
Listing ==
    /\ Answer(<<"ok">>)
    /\ UNCHANGED <<tables, forks, lapses>>

\* The wrong number of arguments, or a word that is no command, which is an
\* error once more if it has arguments.
count_affirm ==
    /\ Answer(<<"error">>) \/ Answer(<<"error", "error">>)
    /\ UNCHANGED <<tables, forks, lapses>>

\* A line without a word.
Blank ==
    /\ Contract(FALSE)
    /\ Fault /\ UNCHANGED <<tables, forks>>

\* The command, or the end of the input.
Quit ==
    /\ status' = "quit" /\ reply' \in {<<"ok">>, <<>>}
    /\ UNCHANGED <<tables, forks, lapses>>

Command ==
    /\ status = "running"
    /\ \/ \E t \in Types : Type(t)
       \/ \E e \in Edges : Conversion(e[1], e[2])
       \/ \E name \in Names, t \in Types : Printer(name, t)
       \/ \E t \in Types, named \in SUBSET Names : PrintFile(t, named)
       \/ \E id \in 0..MAX_JOBS : \/ Signal(id, "running", "aborted")
                                  \/ Signal(id, "running", "paused")
                                  \/ Signal(id, "paused", "running")
       \/ \E name \in Names : Disable(name) \/ Enable(name)
       \/ Listing \/ count_affirm \/ Blank \/ Quit

(***************************************************************************)
(* The children.                                                            *)
(***************************************************************************)
\* Without a conversion the child runs cat and notes in its own copies alone,
\* which end with it, what becomes of the job.
single_fork(c) ==
    LET ch == children[c]
    IN  /\ ch # NoChild /\ ch.len = 0
        /\ children' = [children EXCEPT ![c] = NoChild]
        /\ printed' = <<ch.id, ch.printer>>
        /\ UNCHANGED <<tables, handed, reply, lapses, status>>

\* The output of a conversion that stands alone goes to its pipe.
seek_p_lost(c) ==
    /\ children[c] # NoChild /\ children[c].len > 0
    /\ children' = [children EXCEPT ![c] = NoChild]
    /\ UNCHANGED <<tables, handed, printed, reply, lapses, status>>

\* With conversions it starts them and leaves.  All but the first read from the
\* end of a pipe that is for writing, so that only one alone prints anything.
seek_p(c) ==
    LET ch == children[c]
    IN  /\ ch # NoChild /\ ch.len > 0
        /\ children' = [children EXCEPT ![c] = NoChild]
        /\ printed' = IF ch.len = 1 THEN <<ch.id, ch.printer>> ELSE printed
        /\ UNCHANGED <<tables, handed, reply, lapses, status>>

Process(c) == single_fork(c) \/ seek_p(c)

Next == Command \/ \E c \in 1..MaxChildren : Process(c)

Spec == Init /\ [][Next]_vars /\ \A c \in 1..MaxChildren : WF_vars(Process(c))

(***************************************************************************)
(* Properties.                                                              *)
(***************************************************************************)
\* run_cli never reads or writes where there is nothing (a null path, a null
\* name, JOB_LIST[-1]) for a user who declares types and conversions first, a
\* printer only when every type converts to its own, no more printers and jobs
\* than there are slots, writes only names and numbers that exist, and enables a
\* printer only while a job of another type waits.
NoFault == status = "fault" => lapses > 0

\* A job is handed only to a printer that is enabled, that the command which
\* made the job named if it named any, and that its type converts to.
ServedJustly ==
    [][\A h \in handed' \ handed :
           LET job == jobs'[h[1] + 1]
               here == {i \in DOMAIN printers' : printers'[i].name = h[2]}
           IN  /\ job.named = {} \/ h[2] \in job.named
               /\ \E i \in here : /\ printers'[i].status = "idle"
                                  /\ PathLength(job.type, printers'[i].type) < NoPath]_vars

\* A job nobody was given waits beside an idle printer of another type only
\* behind a job that this printer has been given: enable hands over one job,
\* print finds the idle printer there is.
HeadOfLine ==
    lapses = 0 /\ status = "running" =>
        \A j \in DOMAIN jobs, p \in DOMAIN printers :
            LET name == printers[p].name
            IN  (/\ printers[p].status = "idle" /\ jobs[j].type # printers[p].type
                 /\ Waiting(jobs[j]) /\ jobs[j].eligible
                 /\ \A other \in Names : <<j - 1, other>> \notin handed)
                => \E k \in 1..j - 1 : <<k - 1, name>> \in handed

\* A command that reports an error and does not end the program has changed
\* no table.
Refused == [][Contains(reply', "error") /\ status' = "running" => UNCHANGED tables]_vars

\* Enabling a printer for which an eligible job of its own type waits does not
\* take the spooler outside its tables.
OwnTypeServed ==
    [][\A p \in DOMAIN printers, j \in DOMAIN jobs :
           /\ printers[p].status = "disabled" /\ printers'[p].status = "idle"
           /\ Waiting(jobs[j]) /\ jobs[j].eligible /\ jobs[j].type = printers[p].type
           => status' # "fault"]_vars

\* A child whose job needs one conversion or none prints it in the end, whatever
\* is typed meanwhile, if its own fork, its file and the printer do not fail.
Printout ==
    \A c \in 1..MaxChildren, j \in 0..MAX_JOBS, name \in Names :
        (children[c] # NoChild /\ children[c].len <= 1 /\ children[c].id = j
             /\ children[c].printer = name)
        ~> printed = <<j, name>>
==============================================================================

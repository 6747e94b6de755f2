-------------------------- MODULE Imprimer_proofs --------------------------
(***************************************************************************)
(* What holds of hw4's spooler for any names, types and conversions, and    *)
(* for tables of any size: a user who keeps the contract brings run_cli to  *)
(* no memory that is not there, jobs go only where they may, the first job   *)
(* that fits is the one handed over, and an error changes no table.         *)
(***************************************************************************)
EXTENDS Imprimer, FiniteSetTheorems, WellFoundedInduction, TLAPS

Statuses == {"created", "running", "paused", "aborted"}
PrinterRec == [name : Names, type : Types, status : {"disabled", "idle"}]
JobRec == [type : Types \cup {"null"}, status : Statuses, eligible : BOOLEAN, named : SUBSET Names]

Typed ==
    /\ types \subseteq Types
    /\ printers \in Seq(PrinterRec)
    /\ jobs \in Seq(JobRec)
    /\ lapses \in Nat

\* What the tables refer to has been declared; a job is eligible for any
\* printer when it names none.
Declared ==
    /\ \A p \in 1..Len(printers) : printers[p].type \in types
    /\ \A j \in 1..Len(jobs) :
          /\ jobs[j].type \in types \cup {"null"}
          /\ jobs[j].eligible => jobs[j].named = {}

\* What the contract is for: every type declared converts to the type of every
\* printer, and goes on to do so, because nothing is declared after a printer.
Connected ==
    lapses = 0 => \A p \in 1..Len(printers) : \A t \in types : Converts(t, printers[p].type)

Inv == Typed /\ Declared /\ Connected /\ NoFault
-----------------------------------------------------------------------------
(* Induction on numbers: a set of them has a least element. *)
LEMMA LeastElement ==
    ASSUME NEW S \in SUBSET Nat, S # {}
    PROVE  \E m \in S : \A k \in S : m <= k
  <1> DEFINE R == {ss \in Nat \X Nat : ss[1] < ss[2]}
  <1>1. IsWellFoundedOn(R, Nat)
    BY NatLessThanWellFounded DEF OpToRel
  <1>2. \E x \in S : \A y \in S : ~(<<y, x>> \in R)
    <2> HIDE DEF R
    <2>1. S \subseteq Nat
      OBVIOUS
    <2> QED
      BY <1>1, <2>1, WFMin, Zenon
  <1>3. PICK x \in S : \A y \in S : ~(<<y, x>> \in R)
    BY <1>2
  <1>4. ASSUME NEW y \in S PROVE x <= y
    <2>1. <<y, x>> \in Nat \X Nat => ~(y < x)
      BY <1>3
    <2> QED
      BY <2>1
  <1> QED
    BY <1>4

LEMMA MinFacts ==
    ASSUME NEW S \in SUBSET Nat, S # {}
    PROVE  Min(S) \in S /\ \A k \in S : Min(S) <= k
  BY LeastElement DEF Min

LEMMA FirstIndex ==
    ASSUME NEW n \in Nat, NEW I, I \subseteq 1..n, I # {}
    PROVE  Min(I) \in I /\ \A k \in I : Min(I) <= k
  <1>1. I \in SUBSET Nat
    OBVIOUS
  <1> QED
    BY <1>1, MinFacts

(* A conversion path is shorter than any other, and empty only from a type  *)
(* to itself.                                                               *)
LEMMA PathFacts ==
    ASSUME NEW from, NEW to
    PROVE  /\ NoPath \in Nat /\ PathLength(from, to) \in Nat
           /\ PathLength(from, to) <= NoPath
           /\ from # to /\ Converts(from, to) => PathLength(from, to) > 0
  <1> DEFINE S == {n \in 0..NoPath - 1 : Reaches(n, from, to)} \cup {NoPath}
  <1>1. NoPath \in Nat
    BY TypeAssumption, FS_CardinalityType DEF NoPath
  <1>2. S \in SUBSET Nat /\ S # {} /\ NoPath \in S /\ \A k \in S : k <= NoPath
    BY <1>1
  <1>3. PathLength(from, to) = Min(S)
    BY DEF PathLength
  <1>4. Min(S) \in S
    BY <1>2, MinFacts
  <1>5. ASSUME from # to, Min(S) < NoPath, Min(S) = 0 PROVE FALSE
    <2>1. Reaches(0, from, to)
      BY <1>1, <1>4, <1>5
    <2> QED
      BY <1>5, <2>1 DEF Reaches
  <1>6. Min(S) \in Nat /\ Min(S) <= NoPath
    BY <1>2, <1>4
  <1> HIDE DEF S
  <1> QED
    BY <1>1, <1>3, <1>5, <1>6 DEF Converts
-----------------------------------------------------------------------------
(* The loops over the tables. *)
LEMMA NameFound ==
    ASSUME Typed, NEW name
    PROVE  /\ name_def(name) \in 0..Len(printers)
           /\ name_def(name) # None => printers[name_def(name)].name = name
  <1> DEFINE I == {i \in 1..Len(printers) : printers[i].name = name}
  <1>1. name_def(name) = IF I # {} THEN Min(I) ELSE 0
    BY DEF name_def, SelectInSeq
  <1>2. Len(printers) \in Nat
    BY DEF Typed
  <1>3. CASE I = {}
    BY <1>1, <1>2, <1>3 DEF None
  <1>4. CASE I # {}
    <2>1. name_def(name) \in I
      <3>1. I \subseteq 1..Len(printers)
        OBVIOUS
      <3> HIDE DEF I
      <3> QED
        BY <1>1, <1>2, <1>4, <3>1, FirstIndex
    <2> QED
      BY <1>2, <2>1 DEF None
  <1> QED
    BY <1>3, <1>4

LEMMA PrinterFound ==
    ASSUME Typed, NEW j
    PROVE  /\ find_print(j) \in 0..Len(printers)
           /\ find_print(j) # None =>
                 /\ printers[find_print(j)].status = "idle"
                 /\ Converts(j.type, printers[find_print(j)].type) => j.eligible
           /\ find_print(j) = None /\ j.eligible =>
                 \A i \in 1..Len(printers) : printers[i].status # "idle"
  <1> DEFINE I == {i \in 1..Len(printers) :
                      /\ printers[i].status = "idle"
                      /\ Converts(j.type, printers[i].type) => j.eligible}
  <1>1. find_print(j) = IF I # {} THEN Min(I) ELSE 0
    BY DEF find_print, SelectInSeq
  <1>2. Len(printers) \in Nat
    BY DEF Typed
  <1>3. CASE I = {}
    BY <1>1, <1>2, <1>3 DEF None
  <1>4. CASE I # {}
    <2>1. find_print(j) \in I
      <3>1. I \subseteq 1..Len(printers)
        OBVIOUS
      <3> HIDE DEF I
      <3> QED
        BY <1>1, <1>2, <1>4, <3>1, FirstIndex
    <2> QED
      BY <1>2, <2>1 DEF None
  <1> QED
    BY <1>3, <1>4

\* find_job stops at the first job that it takes.
Takes(p, i) ==
    /\ jobs[i].type # "null"
    /\ Converts(jobs[i].type, p.type) =>
          PathLength(jobs[i].type, p.type) > 0 /\ Waiting(jobs[i]) /\ jobs[i].eligible

LEMMA JobFound ==
    ASSUME Typed, NEW p
    PROVE  /\ find_job(p) \in 0..Len(jobs)
           /\ find_job(p) # None => Takes(p, find_job(p))
           /\ \A i \in 1..Len(jobs) : Takes(p, i) => find_job(p) # None /\ find_job(p) <= i
  <1> DEFINE I == {i \in 1..Len(jobs) : Takes(p, i)}
  <1>1. find_job(p) = IF I # {} THEN Min(I) ELSE 0
    BY DEF find_job, SelectInSeq, Takes
  <1>2. Len(jobs) \in Nat
    BY DEF Typed
  <1>3. CASE I = {}
    BY <1>1, <1>2, <1>3 DEF None
  <1>4. CASE I # {}
    <2>1. find_job(p) \in I /\ \A k \in I : find_job(p) <= k
      <3>1. I \subseteq 1..Len(jobs)
        OBVIOUS
      <3> HIDE DEF I
      <3> QED
        BY <1>1, <1>2, <1>4, <3>1, FirstIndex
    <2> QED
      BY <1>2, <2>1 DEF None
  <1> QED
    BY <1>3, <1>4

(* What waits and may be taken is taken. *)
LEMMA WaitingTaken ==
    ASSUME NEW p, NEW i, Waiting(jobs[i]), jobs[i].eligible, jobs[i].type # p.type
    PROVE  Takes(p, i)
  BY PathFacts DEF Takes, Waiting
-----------------------------------------------------------------------------
(* A command that leaves the tables alone and faults only outside the        *)
(* contract keeps the invariant.                                             *)
LEMMA TablesKept ==
    ASSUME Inv, UNCHANGED tables, lapses' \in Nat, lapses <= lapses',
           status' = "fault" => lapses' > 0
    PROVE  Inv'
  <1>1. types' = types /\ conversions' = conversions /\ printers' = printers /\ jobs' = jobs
    BY DEF tables
  <1>2. Typed' /\ Declared' /\ NoFault'
    BY <1>1 DEF Inv, Typed, Declared, NoFault
  <1>3. Connected'
    <2>1. lapses' = 0 => lapses = 0
      BY DEF Inv, Typed
    <2>2. ASSUME lapses' = 0, NEW p \in 1..Len(printers), NEW t \in types
          PROVE  Converts(t, printers[p].type)'
      <3>1. Converts(t, printers[p].type)
        BY <2>1, <2>2 DEF Inv, Connected
      <3>2. Converts(t, printers[p].type)' = Converts(t, printers[p].type)
        BY <1>1 DEF Converts, PathLength, Reaches, NoPath
      <3> QED
        BY <3>1, <3>2
    <2> QED
      BY <1>1, <2>2 DEF Connected
  <1> QED
    BY <1>2, <1>3 DEF Inv

LEMMA InvInit == Init => Inv
  <1> SUFFICES ASSUME Init PROVE Inv
    OBVIOUS
  <1>1. printers = <<>> /\ jobs = <<>> /\ types = {} /\ lapses = 0 /\ status = "running"
    BY DEF Init
  <1> QED
    BY <1>1 DEF Inv, Typed, Declared, Connected, NoFault

LEMMA InvDeclaring ==
    ASSUME Inv, \/ \E t \in Types : Type(t)
                \/ \E e \in Edges : Conversion(e[1], e[2])
    PROVE  Inv'
  <1>1. /\ types' \subseteq Types /\ types \subseteq types'
        /\ printers' = printers /\ jobs' = jobs
        /\ lapses' \in Nat /\ status' = "running"
        /\ lapses' = 0 => printers = <<>>
    BY DEF Inv, Typed, Type, Conversion, Contract, Answer
  <1>2. Typed' /\ Declared' /\ NoFault'
    BY <1>1 DEF Inv, Typed, Declared, NoFault
  <1>3. Connected'
    BY <1>1 DEF Connected
  <1> QED
    BY <1>2, <1>3 DEF Inv

LEMMA InvPrinter ==
    ASSUME Inv, NEW name \in Names, NEW type \in Types, Printer(name, type)
    PROVE  Inv'
  <1>1. /\ lapses' \in Nat /\ lapses <= lapses'
        /\ lapses' = 0 => /\ lapses = 0 /\ Len(printers) < MAX_PRINTERS
                          /\ type \in types => \A t \in types : Converts(t, type)
        /\ types' = types /\ conversions' = conversions /\ jobs' = jobs
    BY DEF Inv, Typed, Printer, Contract
  <1>2. CASE printers' = printers
    <2>1. status' = "fault" => lapses' > 0
      BY <1>1, <1>2, BoundAssumption DEF Printer, Answer, Fault
    <2> QED
      BY <1>1, <1>2, <2>1, TablesKept DEF tables
  <1>3. CASE printers' # printers
    <2> DEFINE new == [name |-> name, type |-> type, status |-> "disabled"]
    <2>1. type \in types /\ printers' = Append(printers, new) /\ status' = "running"
      BY <1>3 DEF Printer, Answer
    <2>2. new \in PrinterRec /\ new.type = type
      BY DEF PrinterRec
    <2> HIDE DEF new
    <2>3. printers \in Seq(PrinterRec)
      BY DEF Inv, Typed
    <2>4. /\ printers' \in Seq(PrinterRec) /\ Len(printers') = Len(printers) + 1
          /\ \A p \in 1..Len(printers') :
                printers'[p] = IF p = Len(printers) + 1 THEN new ELSE printers[p]
      BY <2>1, <2>2, <2>3
    <2>5. Typed' /\ Declared' /\ NoFault'
      <3>1. Typed' /\ NoFault'
        BY <1>1, <2>1, <2>4 DEF Inv, Typed, NoFault
      <3>2. ASSUME NEW p \in 1..Len(printers') PROVE printers'[p].type \in types
        <4>1. p # Len(printers) + 1 => p \in 1..Len(printers)
          BY <2>3, <2>4
        <4> QED
          BY <2>1, <2>2, <2>4, <4>1 DEF Inv, Declared
      <3>3. Declared'
        BY <1>1, <3>2 DEF Inv, Declared
      <3> QED
        BY <3>1, <3>3
    <2>6. ASSUME lapses' = 0, NEW p \in 1..Len(printers'), NEW t \in types
          PROVE  Converts(t, printers'[p].type)
      <3>1. p # Len(printers) + 1 => p \in 1..Len(printers)
        BY <2>3, <2>4
      <3> QED
        BY <1>1, <2>1, <2>2, <2>4, <2>6, <3>1 DEF Inv, Connected
    <2>7. Connected'
      <3>1. ASSUME lapses' = 0, NEW p \in 1..Len(printers'), NEW t \in types
            PROVE  Converts(t, printers[p].type)'
        <4>1. Converts(t, printers[p].type)' = Converts(t, printers'[p].type)
          BY <1>1 DEF Converts, PathLength, Reaches, NoPath
        <4> QED
          BY <2>6, <3>1, <4>1
      <3> QED
        BY <1>1, <3>1 DEF Connected
    <2> QED
      BY <2>5, <2>7 DEF Inv
  <1> QED
    BY <1>2, <1>3

(* Connected speaks of the printers' types and what has been declared.      *)
LEMMA ConnectedKept ==
    ASSUME Inv, types' = types, conversions' = conversions, lapses' = 0 => lapses = 0,
           Len(printers') = Len(printers),
           \A p \in 1..Len(printers) : printers'[p].type = printers[p].type
    PROVE  Connected'
  <1>1. ASSUME lapses' = 0, NEW p \in 1..Len(printers), NEW t \in types
        PROVE  Converts(t, printers[p].type)'
    <2>1. Converts(t, printers[p].type)
      BY <1>1 DEF Inv, Connected
    <2>2. Converts(t, printers[p].type)' = Converts(t, printers[p].type)
      BY DEF Converts, PathLength, Reaches, NoPath
    <2> QED
      BY <2>1, <2>2
  <1> QED
    BY <1>1 DEF Connected

LEMMA ForkFacts ==
    ASSUME NEW j, NEW job, NEW printer, NEW replies, Fork(j, job, printer, replies)
    PROVE  \/ status' = "running" /\ handed' = handed \cup {<<j, printer.name>>}
           \/ status' = "quit" /\ handed' = handed
  BY DEF Fork, Answer, forks

(* What print does. *)
LEMMA PrintFileFacts ==
    ASSUME Inv, NEW type \in Types, NEW named \in SUBSET Names, PrintFile(type, named)
    PROVE  /\ types' = types /\ conversions' = conversions /\ printers' = printers
           /\ lapses' \in Nat /\ lapses <= lapses' /\ (status' = "fault" => lapses' > 0)
           /\ \/ jobs' = jobs /\ handed' = handed
              \/ /\ type \in types /\ named # {}
                 /\ jobs' = Append(jobs, Hole) /\ handed' = handed
              \/ LET job == Job(type, named = {}, named)  p == find_print(job)
                 IN  /\ type \in types
                     /\ jobs' = Append(jobs, job)
                     /\ \/ p = None /\ handed' = handed
                        \/ p # None /\ status' = "quit" /\ handed' = handed
                        \/ /\ p # None /\ Converts(type, printers[p].type)
                           /\ handed' = handed \cup {<<Len(jobs), printers[p].name>>}
  <1> DEFINE job == Job(type, named = {}, named)
             p == find_print(job)
  <1>1. /\ types' = types /\ conversions' = conversions /\ printers' = printers
        /\ lapses' \in Nat /\ lapses <= lapses'
        /\ lapses' = 0 => lapses = 0 /\ Len(jobs) < MAX_JOBS
    BY DEF PrintFile, Contract, Inv, Typed
  <1>2. \/ jobs' = jobs /\ handed' = handed /\ status' = "running"
        \/ /\ type \in types /\ named # {}
           /\ jobs' = Append(jobs, Hole) /\ handed' = handed /\ status' = "running"
        \/ /\ type \in types
           /\ IF Len(jobs) = MAX_JOBS \/ (p # None /\ ~Converts(type, printers[p].type))
              THEN Fault /\ UNCHANGED <<jobs, forks>>
              ELSE /\ jobs' = Append(jobs, job)
                   /\ IF p = None THEN Answer(<<>>) /\ UNCHANGED forks
                      ELSE Fork(Len(jobs), job, printers[p], <<"ok">>)
    BY DEF PrintFile, Answer, forks
  <1>3. ASSUME type \in types,
               IF Len(jobs) = MAX_JOBS \/ (p # None /\ ~Converts(type, printers[p].type))
               THEN Fault /\ UNCHANGED <<jobs, forks>>
               ELSE /\ jobs' = Append(jobs, job)
                    /\ IF p = None THEN Answer(<<>>) /\ UNCHANGED forks
                       ELSE Fork(Len(jobs), job, printers[p], <<"ok">>)
        PROVE  /\ status' = "fault" => lapses' > 0
               /\ \/ jobs' = jobs /\ handed' = handed
                  \/ /\ jobs' = Append(jobs, job)
                     /\ \/ p = None /\ handed' = handed
                        \/ p # None /\ status' = "quit" /\ handed' = handed
                        \/ /\ p # None /\ Converts(type, printers[p].type)
                           /\ handed' = handed \cup {<<Len(jobs), printers[p].name>>}
    <2>2. p # None => p \in 1..Len(printers)
      BY PrinterFound DEF Inv, None
    <2>3. lapses' = 0 /\ p # None => Converts(type, printers[p].type)
      BY <1>1, <1>3, <2>2 DEF Inv, Connected
    <2> HIDE DEF p, job
    <2>4. CASE Len(jobs) = MAX_JOBS \/ (p # None /\ ~Converts(type, printers[p].type))
      BY <1>1, <1>3, <2>3, <2>4, BoundAssumption DEF Fault, forks
    <2>5. CASE ~(Len(jobs) = MAX_JOBS \/ (p # None /\ ~Converts(type, printers[p].type)))
      <3>1. CASE p = None
        BY <1>3, <2>5, <3>1 DEF Answer, forks
      <3>2. CASE p # None
        BY <1>3, <2>5, <3>2, ForkFacts
      <3> QED
        BY <3>1, <3>2
    <2> QED
      BY <2>4, <2>5
  <1> QED
    BY <1>1, <1>2, <1>3

LEMMA InvPrintFile ==
    ASSUME Inv, NEW type \in Types, NEW named \in SUBSET Names, PrintFile(type, named)
    PROVE  Inv'
  <1>1. /\ types' = types /\ conversions' = conversions /\ printers' = printers
        /\ lapses' \in Nat /\ lapses <= lapses' /\ (status' = "fault" => lapses' > 0)
    BY PrintFileFacts
  <1>2. lapses' = 0 => lapses = 0
    BY <1>1 DEF Inv, Typed
  <1>3. CASE jobs' = jobs
    BY <1>1, <1>3, TablesKept DEF tables
  <1>4. ASSUME NEW job \in JobRec, jobs' = Append(jobs, job),
               job.type \in types \cup {"null"}, job.eligible => job.named = {}
        PROVE  Inv'
    <2>1. jobs \in Seq(JobRec)
      BY DEF Inv, Typed
    <2>2. /\ jobs' \in Seq(JobRec) /\ Len(jobs') = Len(jobs) + 1
          /\ \A j \in 1..Len(jobs') : jobs'[j] = IF j = Len(jobs) + 1 THEN job ELSE jobs[j]
      BY <1>4, <2>1
    <2>3. \A j \in 1..Len(jobs') : j # Len(jobs) + 1 => j \in 1..Len(jobs)
      BY <2>1, <2>2
    <2>4. Typed' /\ Declared' /\ NoFault'
      BY <1>1, <1>4, <2>2, <2>3 DEF Inv, Typed, Declared, NoFault
    <2>5. Connected'
      BY <1>1, <1>2, ConnectedKept
    <2> QED
      BY <2>4, <2>5 DEF Inv
  <1>5. CASE jobs' # jobs
    <2>1. type \in types /\ \/ jobs' = Append(jobs, Hole) /\ named # {}
                            \/ jobs' = Append(jobs, Job(type, named = {}, named))
      BY <1>5, PrintFileFacts
    <2>2. CASE jobs' = Append(jobs, Job(type, named = {}, named))
      <3> DEFINE job == Job(type, named = {}, named)
      <3>1. job \in JobRec /\ job.type = type /\ (job.eligible => job.named = {})
        BY DEF Job, JobRec, Statuses
      <3> QED
        BY <1>4, <2>1, <2>2, <3>1
    <2>3. CASE jobs' = Append(jobs, Hole) /\ named # {}
      <3>1. Hole \in JobRec /\ Hole.type = "null" /\ Hole.named = {}
        BY <2>3 DEF Hole, Job, JobRec, Statuses
      <3> QED
        BY <1>4, <2>3, <3>1
    <2> QED
      BY <2>1, <2>2, <2>3
  <1> QED
    BY <1>3, <1>5

LEMMA InvSignal ==
    ASSUME Inv, NEW id \in 0..MAX_JOBS, NEW from, NEW to \in Statuses, Signal(id, from, to)
    PROVE  Inv'
  <1>1. /\ types' = types /\ conversions' = conversions /\ printers' = printers
        /\ lapses' \in Nat /\ lapses <= lapses' /\ (lapses' = 0 => lapses = 0 /\ id < MAX_JOBS)
    BY DEF Signal, Contract, Inv, Typed
  <1>2. CASE jobs' = jobs
    <2>1. status' = "fault" => lapses' > 0
      BY <1>1, BoundAssumption DEF Signal, Fault, Answer
    <2> QED
      BY <1>1, <1>2, <2>1, TablesKept DEF tables
  <1>3. CASE jobs' # jobs
    <2>1. id < Len(jobs) /\ jobs' = [jobs EXCEPT ![id + 1].status = to] /\ status' = "running"
      BY <1>3 DEF Signal, Fault, Answer
    <2>2. id + 1 \in 1..Len(jobs) /\ jobs \in Seq(JobRec)
      BY <2>1, BoundAssumption DEF Inv, Typed
    <2>3. jobs[id + 1] \in JobRec
      BY <2>2
    <2>4. [jobs[id + 1] EXCEPT !.status = to] \in JobRec
      BY <2>3 DEF JobRec
    <2>5. /\ jobs' \in Seq(JobRec) /\ Len(jobs') = Len(jobs)
          /\ \A j \in 1..Len(jobs) : jobs'[j] = IF j = id + 1 THEN [jobs[j] EXCEPT !.status = to] ELSE jobs[j]
      BY <2>1, <2>2, <2>4
    <2>6. \A j \in 1..Len(jobs) : /\ jobs'[j].type = jobs[j].type /\ jobs'[j].named = jobs[j].named
                                  /\ jobs'[j].eligible = jobs[j].eligible
      <3>1. \A j \in 1..Len(jobs) : jobs[j] \in JobRec
        BY <2>2
      <3> QED
        BY <2>5, <3>1 DEF JobRec
    <2>7. Typed' /\ Declared' /\ NoFault'
      BY <1>1, <2>1, <2>5, <2>6 DEF Inv, Typed, Declared, NoFault
    <2>8. Connected'
      BY <1>1, ConnectedKept
    <2> QED
      BY <2>7, <2>8 DEF Inv
  <1> QED
    BY <1>2, <1>3

(* A printer is enabled or disabled, and nothing else changes. *)
LEMMA InvTurned ==
    ASSUME Inv, NEW p \in 1..Len(printers), NEW to \in {"disabled", "idle"},
           printers' = [printers EXCEPT ![p].status = to],
           types' = types, conversions' = conversions, jobs' = jobs,
           lapses' \in Nat, lapses <= lapses', status' = "fault" => lapses' > 0
    PROVE  /\ Inv'
           /\ Len(printers') = Len(printers)
           /\ \A q \in 1..Len(printers) :
                 /\ printers'[q].type = printers[q].type /\ printers'[q].name = printers[q].name
                 /\ printers'[q].status = IF q = p THEN to ELSE printers[q].status
  <1>1. printers \in Seq(PrinterRec)
    BY DEF Inv, Typed
  <1>2. \A q \in 1..Len(printers) : printers[q] \in PrinterRec
    BY <1>1
  <1>3. [printers[p] EXCEPT !.status = to] \in PrinterRec
    BY <1>2 DEF PrinterRec
  <1>4. /\ printers' \in Seq(PrinterRec) /\ Len(printers') = Len(printers)
        /\ \A q \in 1..Len(printers) :
              printers'[q] = IF q = p THEN [printers[p] EXCEPT !.status = to] ELSE printers[q]
    BY <1>1, <1>3
  <1>5. \A q \in 1..Len(printers) :
           /\ printers'[q].type = printers[q].type /\ printers'[q].name = printers[q].name
           /\ printers'[q].status = IF q = p THEN to ELSE printers[q].status
    BY <1>2, <1>4 DEF PrinterRec
  <1>6. Typed' /\ Declared' /\ NoFault'
    BY <1>4, <1>5 DEF Inv, Typed, Declared, NoFault
  <1>7. lapses' = 0 => lapses = 0
    BY DEF Inv, Typed
  <1>8. Connected'
    BY <1>4, <1>5, <1>7, ConnectedKept
  <1> QED
    BY <1>4, <1>5, <1>6, <1>8 DEF Inv

LEMMA InvDisable ==
    ASSUME Inv, NEW name \in Names, Disable(name)
    PROVE  Inv'
  <1> DEFINE p == name_def(name)
  <1>1. /\ types' = types /\ conversions' = conversions /\ jobs' = jobs
        /\ lapses' \in Nat /\ lapses <= lapses' /\ (lapses' = 0 => p # None)
    BY DEF Disable, Contract, Inv, Typed
  <1>2. CASE p = None
    <2>1. printers' = printers
      BY <1>2 DEF Disable
    <2> QED
      BY <1>1, <1>2, <2>1, TablesKept DEF tables
  <1>3. CASE p # None
    <2>1. p \in 1..Len(printers)
      BY <1>3, NameFound DEF Inv, None
    <2>2. printers' = [printers EXCEPT ![p].status = "disabled"] /\ status' = "running"
      BY <1>3 DEF Disable, Answer
    <2> QED
      BY <1>1, <2>1, <2>2, InvTurned
  <1> QED
    BY <1>2, <1>3

(* What enable does. *)
Enabled(p) == [printers[p] EXCEPT !.status = "idle"]

LEMMA EnableFacts ==
    ASSUME Inv, NEW name \in Names, Enable(name)
    PROVE  LET p == name_def(name)  j == find_job(Enabled(p))
           IN  /\ types' = types /\ conversions' = conversions /\ jobs' = jobs
               /\ lapses' \in Nat /\ lapses <= lapses' /\ (status' = "fault" => lapses' > 0)
               /\ \/ p = None /\ printers' = printers /\ handed' = handed
                  \/ /\ p \in 1..Len(printers) /\ printers' = [printers EXCEPT ![p].status = "idle"]
                     /\ \/ status' # "running" /\ handed' = handed
                        \/ /\ j \in 1..Len(jobs) /\ Takes(Enabled(p), j)
                           /\ Converts(jobs[j].type, printers[p].type)
                           /\ handed' = handed \cup {<<j - 1, printers[p].name>>}
  <1> DEFINE p == name_def(name)
             j == find_job(Enabled(p))
  <1>1. /\ types' = types /\ conversions' = conversions /\ jobs' = jobs
        /\ lapses' \in Nat /\ lapses <= lapses'
        /\ lapses' = 0 => /\ lapses = 0 /\ p # None
                          /\ \E i \in 1..Len(jobs) : /\ Waiting(jobs[i]) /\ jobs[i].eligible
                                                     /\ jobs[i].type # printers[p].type
    BY DEF Enable, Contract, Inv, Typed
  <1>2. IF p = None THEN Fault /\ UNCHANGED <<printers, forks>>
        ELSE /\ printers' = [printers EXCEPT ![p] = Enabled(p)]
             /\ IF j = None THEN Fault /\ UNCHANGED forks
                ELSE IF ~Converts(jobs[j].type, Enabled(p).type) THEN Fault /\ UNCHANGED forks
                ELSE Fork(j - 1, jobs[j], Enabled(p), <<"ok", "ok">>)
    BY DEF Enable, Enabled
  <1>3. p \in 0..Len(printers) /\ j \in 0..Len(jobs) /\ (j # None => Takes(Enabled(p), j))
        /\ \A i \in 1..Len(jobs) : Takes(Enabled(p), i) => j # None
    BY NameFound, JobFound DEF Inv
  <1>4. Len(printers) \in Nat /\ Len(jobs) \in Nat
    BY DEF Inv, Typed
  <1>5. p # None => /\ Enabled(p).type = printers[p].type /\ Enabled(p).name = printers[p].name
                    /\ printers[p] \in PrinterRec
    <2>1. ASSUME p # None PROVE printers[p] \in PrinterRec
      <3>1. p \in 1..Len(printers) /\ printers \in Seq(PrinterRec)
        BY <1>3, <1>4, <2>1 DEF Inv, Typed, None
      <3> HIDE DEF p
      <3> QED
        BY <3>1
    <2> QED
      BY <2>1 DEF Enabled, PrinterRec
  <1>6. ASSUME lapses' = 0, p # None
        PROVE  j # None /\ Converts(jobs[j].type, printers[p].type)
    <2>1. PICK i \in 1..Len(jobs) : /\ Waiting(jobs[i]) /\ jobs[i].eligible
                                    /\ jobs[i].type # printers[p].type
      BY <1>1, <1>6
    <2>2. Takes(Enabled(p), i)
      BY <1>5, <1>6, <2>1, WaitingTaken
    <2>3. j # None
      BY <1>3, <2>2
    <2>4. j \in 1..Len(jobs) /\ jobs[j].type # "null"
      BY <1>3, <1>4, <2>3 DEF Takes, None
    <2>5. jobs[j].type \in types
      BY <2>4 DEF Inv, Declared
    <2>6. p \in 1..Len(printers)
      BY <1>3, <1>4, <1>6 DEF None
    <2> QED
      BY <1>1, <1>6, <2>3, <2>5, <2>6 DEF Inv, Connected
  <1> SUFFICES
          /\ status' = "fault" => lapses' > 0
          /\ \/ p = None /\ printers' = printers /\ handed' = handed
             \/ /\ p \in 1..Len(printers) /\ printers' = [printers EXCEPT ![p].status = "idle"]
                /\ \/ status' # "running" /\ handed' = handed
                   \/ /\ j \in 1..Len(jobs) /\ Takes(Enabled(p), j)
                      /\ Converts(jobs[j].type, printers[p].type)
                      /\ handed' = handed \cup {<<j - 1, printers[p].name>>}
    BY <1>1
  <1> HIDE DEF p, j
  <1>7. CASE p = None
    BY <1>1, <1>2, <1>7 DEF Fault, forks
  <1>8. CASE p # None
    <2>1. p \in 1..Len(printers) /\ printers' = [printers EXCEPT ![p].status = "idle"]
      BY <1>2, <1>3, <1>4, <1>8 DEF Enabled, None
    <2>2. CASE j = None \/ ~Converts(jobs[j].type, printers[p].type)
      BY <1>1, <1>2, <1>5, <1>6, <1>8, <2>1, <2>2 DEF Fault, forks
    <2>3. CASE ~(j = None \/ ~Converts(jobs[j].type, printers[p].type))
      <3>1. Fork(j - 1, jobs[j], Enabled(p), <<"ok", "ok">>)
        BY <1>2, <1>5, <1>8, <2>3
      <3>2. \/ status' = "running" /\ handed' = handed \cup {<<j - 1, printers[p].name>>}
            \/ status' = "quit" /\ handed' = handed
        BY <1>5, <1>8, <3>1, ForkFacts
      <3>3. j \in 1..Len(jobs) /\ Takes(Enabled(p), j)
        BY <1>3, <1>4, <2>3 DEF None
      <3> QED
        BY <1>1, <2>1, <2>3, <3>2, <3>3
    <2> QED
      BY <2>2, <2>3
  <1> QED
    BY <1>7, <1>8

LEMMA InvEnable ==
    ASSUME Inv, NEW name \in Names, Enable(name)
    PROVE  Inv'
  <1>1. CASE printers' = printers
    BY <1>1, EnableFacts, TablesKept DEF tables
  <1>2. CASE printers' # printers
    <2> DEFINE p == name_def(name)
    <2>1. /\ p \in 1..Len(printers) /\ printers' = [printers EXCEPT ![p].status = "idle"]
          /\ types' = types /\ conversions' = conversions /\ jobs' = jobs
          /\ lapses' \in Nat /\ lapses <= lapses' /\ (status' = "fault" => lapses' > 0)
      BY <1>2, EnableFacts
    <2> HIDE DEF p
    <2> QED
      BY <2>1, InvTurned
  <1> QED
    BY <1>1, <1>2

(* Everything else leaves the tables alone. *)
LEMMA OthersKeep ==
    ASSUME Inv, \/ Listing \/ count_affirm \/ Blank \/ Quit
                \/ \E c \in 1..MaxChildren : Process(c)
                \/ UNCHANGED vars
    PROVE  /\ UNCHANGED <<tables, handed>>
           /\ lapses' \in Nat /\ lapses <= lapses' /\ (status' = "fault" => lapses' > 0)
  <1>1. lapses \in Nat /\ (status = "fault" => lapses > 0)
    BY DEF Inv, Typed, NoFault
  <1>2. CASE Listing \/ count_affirm \/ Quit
    BY <1>1, <1>2 DEF Listing, count_affirm, Quit, Answer, forks
  <1>3. CASE Blank
    BY <1>1, <1>3 DEF Blank, Contract, forks
  <1>4. CASE \E c \in 1..MaxChildren : Process(c)
    BY <1>1, <1>4 DEF Process, single_fork, seek_p
  <1>5. CASE UNCHANGED vars
    BY <1>1, <1>5 DEF vars, forks
  <1> QED
    BY <1>2, <1>3, <1>4, <1>5

LEMMA InvNext == Inv /\ [Next]_vars => Inv'
  <1> SUFFICES ASSUME Inv, [Next]_vars PROVE Inv'
    OBVIOUS
  <1>1. ASSUME NEW t \in Types, Type(t) PROVE Inv'
    BY <1>1, InvDeclaring
  <1>2. ASSUME NEW e \in Edges, Conversion(e[1], e[2]) PROVE Inv'
    BY <1>2, InvDeclaring
  <1>3. ASSUME NEW name \in Names, NEW t \in Types, Printer(name, t) PROVE Inv'
    BY <1>3, InvPrinter
  <1>4. ASSUME NEW t \in Types, NEW named \in SUBSET Names, PrintFile(t, named) PROVE Inv'
    BY <1>4, InvPrintFile
  <1>5. ASSUME NEW id \in 0..MAX_JOBS, \/ Signal(id, "running", "aborted")
                                       \/ Signal(id, "running", "paused")
                                       \/ Signal(id, "paused", "running")
        PROVE  Inv'
    BY <1>5, InvSignal DEF Statuses
  <1>6. ASSUME NEW name \in Names, Disable(name) PROVE Inv'
    BY <1>6, InvDisable
  <1>7. ASSUME NEW name \in Names, Enable(name) PROVE Inv'
    BY <1>7, InvEnable
  <1>8. CASE \/ Listing \/ count_affirm \/ Blank \/ Quit
             \/ \E c \in 1..MaxChildren : Process(c)
             \/ UNCHANGED vars
    <2>1. /\ UNCHANGED <<tables, handed>>
          /\ lapses' \in Nat /\ lapses <= lapses' /\ (status' = "fault" => lapses' > 0)
      BY <1>8, OthersKeep
    <2> QED
      BY <2>1, TablesKept
  <1> QED
    BY <1>1, <1>2, <1>3, <1>4, <1>5, <1>6, <1>7, <1>8 DEF Next, Command

LEMMA InvAlways == Spec => []Inv
  <1> QED
    BY InvInit, InvNext, PTL DEF Spec

(* A user who keeps the contract brings run_cli to no null path, no null    *)
(* name and no slot that is not there: NoFault, for any tables.             *)
THEOREM NeverFaults == Spec => []NoFault
  <1>1. Inv => NoFault
    BY DEF Inv
  <1> QED
    BY <1>1, InvAlways, PTL
-----------------------------------------------------------------------------
(* Only print and enable hand a job over. *)
LEMMA HandedBy ==
    ASSUME Inv, [Next]_vars, handed' # handed
    PROVE  \/ \E t \in Types, named \in SUBSET Names : PrintFile(t, named)
           \/ \E name \in Names : Enable(name)
  <1>1. \A t \in Types : Type(t) => handed' = handed
    BY DEF Type, forks
  <1>2. \A e \in Edges : Conversion(e[1], e[2]) => handed' = handed
    BY DEF Conversion, forks
  <1>3. \A name \in Names, t \in Types : Printer(name, t) => handed' = handed
    BY DEF Printer, forks
  <1>4. \A id \in 0..MAX_JOBS, from, to \in Statuses : Signal(id, from, to) => handed' = handed
    BY DEF Signal, forks
  <1>5. \A name \in Names : Disable(name) => handed' = handed
    BY DEF Disable, forks
  <1>6. (\/ Listing \/ count_affirm \/ Blank \/ Quit
         \/ \E c \in 1..MaxChildren : Process(c)
         \/ UNCHANGED vars) => handed' = handed
    BY OthersKeep
  <1> QED
    BY <1>1, <1>2, <1>3, <1>4, <1>5, <1>6 DEF Next, Command, Statuses

(* A job is handed only to a printer that is enabled, that its type converts *)
(* to and that the command named if it named any: ServedJustly, for any      *)
(* tables and conversions, contract or not.                                  *)
Justly ==
    \A h \in handed' \ handed :
        LET job == jobs'[h[1] + 1]
            here == {i \in DOMAIN printers' : printers'[i].name = h[2]}
        IN  /\ job.named = {} \/ h[2] \in job.named
            /\ \E i \in here : /\ printers'[i].status = "idle"
                               /\ PathLength(job.type, printers'[i].type) < NoPath

LEMMA JustlyFrom ==
    ASSUME Inv, NEW j \in 1..Len(jobs'), NEW p \in DOMAIN printers',
           handed' = handed \cup {<<j - 1, printers'[p].name>>},
           jobs'[j].named = {}, printers'[p].status = "idle",
           Converts(jobs'[j].type, printers'[p].type)
    PROVE  Justly
  <1> SUFFICES ASSUME NEW h \in handed' \ handed
      PROVE  LET job == jobs'[h[1] + 1]
                 here == {i \in DOMAIN printers' : printers'[i].name = h[2]}
             IN  /\ job.named = {} \/ h[2] \in job.named
                 /\ \E i \in here : /\ printers'[i].status = "idle"
                                    /\ PathLength(job.type, printers'[i].type) < NoPath
    BY DEF Justly
  <1>1. h = <<j - 1, printers'[p].name>>
    OBVIOUS
  <1>2. h[1] + 1 = j /\ h[2] = printers'[p].name
    BY <1>1
  <1> QED
    BY <1>2 DEF Converts

LEMMA JustlyStep == Inv /\ Inv' /\ [Next]_vars => Justly
  <1> SUFFICES ASSUME Inv, Inv', [Next]_vars, handed' # handed PROVE Justly
    BY DEF Justly
  <1>1. ASSUME NEW type \in Types, NEW named \in SUBSET Names, PrintFile(type, named)
        PROVE  Justly
    <2> DEFINE job == Job(type, named = {}, named)
               p == find_print(job)
    <2>1. /\ jobs' = Append(jobs, job) /\ printers' = printers
          /\ p # None /\ Converts(type, printers[p].type)
          /\ handed' = handed \cup {<<Len(jobs), printers[p].name>>}
      BY <1>1, PrintFileFacts
    <2>2. /\ job.type = type /\ (job.eligible => named = {}) /\ job.named = named
      BY DEF Job
    <2>3. /\ p \in 1..Len(printers) /\ printers[p].status = "idle"
          /\ (Converts(job.type, printers[p].type) => job.eligible)
      BY <2>1, PrinterFound DEF Inv, None
    <2> HIDE DEF p, job
    <2>4. jobs \in Seq(JobRec) /\ printers \in Seq(PrinterRec)
      BY DEF Inv, Typed
    <2>5. Len(jobs) + 1 \in 1..Len(jobs') /\ jobs'[Len(jobs) + 1] = job /\ Len(jobs) \in Nat
      BY <2>1, <2>4
    <2>6. p \in DOMAIN printers' /\ handed' = handed \cup {<<(Len(jobs) + 1) - 1, printers'[p].name>>}
      BY <2>1, <2>3, <2>4, <2>5
    <2> QED
      BY <2>1, <2>2, <2>3, <2>5, <2>6, JustlyFrom
  <1>2. ASSUME NEW name \in Names, Enable(name) PROVE Justly
    <2> DEFINE p == name_def(name)
               j == find_job(Enabled(p))
    <2>1. /\ types' = types /\ conversions' = conversions /\ jobs' = jobs
          /\ lapses' \in Nat /\ lapses <= lapses' /\ (status' = "fault" => lapses' > 0)
          /\ p \in 1..Len(printers) /\ printers' = [printers EXCEPT ![p].status = "idle"]
          /\ j \in 1..Len(jobs) /\ Takes(Enabled(p), j)
          /\ Converts(jobs[j].type, printers[p].type)
          /\ handed' = handed \cup {<<j - 1, printers[p].name>>}
      BY <1>2, EnableFacts
    <2>2. p # None => printers[p] \in PrinterRec
      <3>1. printers \in Seq(PrinterRec) /\ p \in 1..Len(printers)
        BY <2>1 DEF Inv, Typed
      <3> HIDE DEF p
      <3> QED
        BY <3>1
    <2>3. Enabled(p).type = printers[p].type
      BY <2>1, <2>2 DEF Enabled, PrinterRec, None
    <2> HIDE DEF p, j
    <2>4. jobs[j].eligible
      BY <2>1, <2>3 DEF Takes
    <2>5. jobs[j].named = {}
      BY <2>1, <2>4 DEF Inv, Declared
    <2>6. /\ printers'[p].status = "idle" /\ printers'[p].type = printers[p].type
          /\ printers'[p].name = printers[p].name /\ Len(printers') = Len(printers)
      BY <2>1, InvTurned
    <2>7. p \in DOMAIN printers'
      BY <2>1, <2>6 DEF Inv, Typed
    <2> QED
      BY <2>1, <2>5, <2>6, <2>7, JustlyFrom
  <1> QED
    BY <1>1, <1>2, HandedBy

THEOREM JobsServedJustly == Spec => ServedJustly
  <1>1. Inv /\ Inv' /\ [Next]_vars => [Justly]_vars
    BY JustlyStep
  <1>2. Spec => [][Justly]_vars
    BY <1>1, InvAlways, PTL DEF Spec
  <1> QED
    BY <1>2, PTL DEF ServedJustly, Justly
-----------------------------------------------------------------------------
(* HeadOfLine, job by job and printer by printer. *)
Unserved(j, p) ==
    /\ printers[p].status = "idle" /\ jobs[j].type # printers[p].type
    /\ Waiting(jobs[j]) /\ jobs[j].eligible
    /\ \A other \in Names : <<j - 1, other>> \notin handed
Ahead(j, p) == \E k \in 1..j - 1 : <<k - 1, printers[p].name>> \in handed
Line == lapses = 0 /\ status = "running" =>
            \A j \in 1..Len(jobs), p \in 1..Len(printers) : Unserved(j, p) => Ahead(j, p)

LEMMA LineIs == Typed /\ Line => HeadOfLine
  <1> SUFFICES ASSUME Typed, Line, lapses = 0, status = "running",
                      NEW j \in DOMAIN jobs, NEW p \in DOMAIN printers, Unserved(j, p)
      PROVE  Ahead(j, p)
    BY Zenon DEF HeadOfLine, Unserved, Ahead
  <1>1. j \in 1..Len(jobs) /\ p \in 1..Len(printers)
    BY DEF Typed
  <1> QED
    BY <1>1 DEF Line

(* What was behind another job is so still. *)
LEMMA LineStays ==
    ASSUME Inv, Line, lapses = 0, status = "running",
           NEW j \in 1..Len(jobs), NEW p \in 1..Len(printers),
           printers'[p].name = printers[p].name, handed \subseteq handed',
           Unserved(j, p)
    PROVE  Ahead(j, p)'
  BY DEF Line, Ahead

LEMMA LineSame ==
    ASSUME Inv, Line, lapses' = 0 => lapses = 0, status' = "running" => status = "running",
           Len(jobs') = Len(jobs), handed \subseteq handed', printers' = printers,
           \A j \in 1..Len(jobs) : /\ jobs'[j].type = jobs[j].type
                                   /\ jobs'[j].eligible = jobs[j].eligible
                                   /\ Waiting(jobs'[j]) => Waiting(jobs[j])
    PROVE  Line'
  <1>1. ASSUME lapses' = 0, status' = "running", NEW j \in 1..Len(jobs), NEW p \in 1..Len(printers),
               Unserved(j, p)'
        PROVE  Ahead(j, p)'
    <2>1. /\ printers[p].status = "idle" /\ jobs'[j].type # printers[p].type
          /\ Waiting(jobs'[j]) /\ jobs'[j].eligible
          /\ \A other \in Names : <<j - 1, other>> \notin handed'
      BY <1>1 DEF Unserved, Waiting
    <2>2. jobs[j].type # printers[p].type /\ Waiting(jobs[j]) /\ jobs[j].eligible
      BY <2>1
    <2>3. \A other \in Names : <<j - 1, other>> \notin handed
      BY <2>1
    <2>4. Unserved(j, p)
      BY <2>1, <2>2, <2>3 DEF Unserved
    <2> QED
      BY <1>1, <2>4, LineStays
  <1> QED
    BY <1>1 DEF Line

LEMMA LinePrinter ==
    ASSUME Inv, Line, status = "running",
           NEW name \in Names, NEW type \in Types, Printer(name, type)
    PROVE  Line'
  <1>1. jobs' = jobs /\ handed' = handed /\ (lapses' = 0 => lapses = 0)
    BY DEF Printer, Contract, forks, Inv, Typed
  <1>2. CASE printers' = printers
    BY <1>1, <1>2, LineSame
  <1>3. CASE printers' # printers
    <2> DEFINE new == [name |-> name, type |-> type, status |-> "disabled"]
    <2>1. printers' = Append(printers, new) /\ new \in PrinterRec /\ new.status = "disabled"
      BY <1>3 DEF Printer, PrinterRec
    <2> HIDE DEF new
    <2>2. printers \in Seq(PrinterRec)
      BY DEF Inv, Typed
    <2>3. /\ \A p \in 1..Len(printers') : p \in 1..Len(printers) \/ printers'[p] = new
          /\ \A p \in 1..Len(printers) : printers'[p] = printers[p]
      BY <2>1, <2>2
    <2>4. ASSUME lapses' = 0, NEW j \in 1..Len(jobs), NEW p \in 1..Len(printers'), Unserved(j, p)'
          PROVE  Ahead(j, p)'
      <3>1. printers'[p].status = "idle"
        BY <2>4 DEF Unserved
      <3>2. printers'[p] # new
        BY <2>1, <3>1
      <3>3. p \in 1..Len(printers) /\ printers'[p] = printers[p]
        BY <2>3, <3>2
      <3>4. Unserved(j, p)
        BY <1>1, <2>4, <3>3 DEF Unserved
      <3> QED
        BY <1>1, <2>4, <3>3, <3>4, LineStays
    <2> QED
      BY <1>1, <2>4 DEF Line
  <1> QED
    BY <1>2, <1>3

LEMMA LinePrintFile ==
    ASSUME Inv, Line, status = "running",
           NEW type \in Types, NEW named \in SUBSET Names, PrintFile(type, named)
    PROVE  Line'
  <1>1. /\ printers' = printers /\ handed \subseteq handed' /\ (lapses' = 0 => lapses = 0)
    <2>1. lapses' \in Nat /\ lapses <= lapses' /\ lapses \in Nat
      BY PrintFileFacts DEF Inv, Typed
    <2> QED
      BY <2>1, PrintFileFacts
  <1>2. CASE jobs' = jobs
    BY <1>1, <1>2, LineSame
  <1>3. ASSUME NEW job, jobs' = Append(jobs, job),
               Waiting(job) /\ job.eligible /\ status' = "running" =>
                   \/ \E other \in Names : <<Len(jobs), other>> \in handed'
                   \/ \A p \in 1..Len(printers) : printers[p].status # "idle"
        PROVE  Line'
    <2>1. jobs \in Seq(JobRec) /\ Len(jobs) \in Nat
      BY DEF Inv, Typed
    <2>2. /\ \A j \in 1..Len(jobs') : j \in 1..Len(jobs) \/ (j = Len(jobs) + 1 /\ jobs'[j] = job)
          /\ \A j \in 1..Len(jobs) : jobs'[j] = jobs[j]
      BY <1>3, <2>1
    <2>3. ASSUME lapses' = 0, status' = "running",
                 NEW j \in 1..Len(jobs'), NEW p \in 1..Len(printers), Unserved(j, p)'
          PROVE  Ahead(j, p)'
      <3>1. CASE j \in 1..Len(jobs)
        <4>1. Unserved(j, p)
          BY <1>1, <2>2, <2>3, <3>1 DEF Unserved
        <4> QED
          BY <1>1, <2>3, <3>1, <4>1, LineStays
      <3>2. CASE j = Len(jobs) + 1 /\ jobs'[j] = job
        <4>1. Waiting(job) /\ job.eligible /\ printers[p].status = "idle"
              /\ \A other \in Names : <<j - 1, other>> \notin handed'
          BY <1>1, <2>3, <3>2 DEF Unserved
        <4>2. j - 1 = Len(jobs)
          BY <2>1, <3>2
        <4> QED
          BY <1>3, <2>3, <4>1, <4>2
      <3> QED
        BY <2>2, <3>1, <3>2
    <2> QED
      BY <1>1, <2>3 DEF Line
  <1>4. CASE jobs' = Append(jobs, Hole) /\ named # {}
    <2>1. ~Waiting(Hole)
      BY DEF Hole, Job, Waiting
    <2> QED
      BY <1>3, <1>4, <2>1
  <1>5. CASE jobs' # jobs /\ ~(jobs' = Append(jobs, Hole) /\ named # {})
    <2> DEFINE job == Job(type, named = {}, named)
               p == find_print(job)
    <2>1. /\ jobs' = Append(jobs, job)
          /\ \/ p = None \/ status' = "quit"
             \/ p # None /\ handed' = handed \cup {<<Len(jobs), printers[p].name>>}
      BY <1>5, PrintFileFacts
    <2>2. p = None /\ job.eligible => \A i \in 1..Len(printers) : printers[i].status # "idle"
      BY PrinterFound DEF Inv
    <2>3. p # None => printers[p].name \in Names
      <3>1. p # None => p \in 1..Len(printers)
        BY PrinterFound DEF Inv, None
      <3>2. printers \in Seq(PrinterRec)
        BY DEF Inv, Typed
      <3> HIDE DEF p
      <3>3. p # None => printers[p] \in PrinterRec
        BY <3>1, <3>2
      <3> QED
        BY <3>3 DEF PrinterRec
    <2> HIDE DEF p, job
    <2>4. ASSUME Waiting(job), job.eligible, status' = "running"
          PROVE  \/ \E other \in Names : <<Len(jobs), other>> \in handed'
                 \/ \A i \in 1..Len(printers) : printers[i].status # "idle"
      BY <2>1, <2>2, <2>3, <2>4
    <2> QED
      BY <1>3, <2>1, <2>4
  <1> QED
    BY <1>2, <1>4, <1>5

LEMMA LineTurned ==
    ASSUME Inv, Line, status = "running", NEW name \in Names, Disable(name) \/ Enable(name)
    PROVE  Line'
  <1> DEFINE p == name_def(name)
             j == find_job(Enabled(p))
  <1>1. CASE printers' = printers
    <2>1. jobs' = jobs /\ handed \subseteq handed' /\ (lapses' = 0 => lapses = 0)
      <3>1. CASE Disable(name)
        BY <3>1 DEF Disable, Contract, forks, Inv, Typed
      <3>2. CASE Enable(name)
        <4>1. lapses' \in Nat /\ lapses <= lapses' /\ lapses \in Nat
          BY <3>2, EnableFacts DEF Inv, Typed
        <4> QED
          BY <3>2, <4>1, EnableFacts
      <3> QED
        BY <3>1, <3>2
    <2> QED
      BY <1>1, <2>1, LineSame
  <1>2. CASE printers' # printers /\ Disable(name)
    <2>1. p \in 1..Len(printers)
      BY <1>2, NameFound DEF Disable, Inv, None
    <2>2. /\ printers' = [printers EXCEPT ![p].status = "disabled"] /\ status' = "running"
          /\ jobs' = jobs /\ handed' = handed /\ lapses' \in Nat /\ lapses <= lapses'
          /\ types' = types /\ conversions' = conversions
      BY <1>2 DEF Disable, Answer, Contract, forks, Inv, Typed
    <2> HIDE DEF p
    <2>3. /\ Len(printers') = Len(printers)
          /\ \A q \in 1..Len(printers) :
                /\ printers'[q].type = printers[q].type /\ printers'[q].name = printers[q].name
                /\ printers'[q].status = IF q = p THEN "disabled" ELSE printers[q].status
      BY <2>1, <2>2, InvTurned
    <2>4. ASSUME lapses' = 0, NEW i \in 1..Len(jobs), NEW q \in 1..Len(printers), Unserved(i, q)'
          PROVE  Ahead(i, q)'
      <3>1. Unserved(i, q)
        BY <2>2, <2>3, <2>4 DEF Unserved
      <3>2. lapses = 0
        BY <2>2, <2>4 DEF Inv, Typed
      <3> QED
        BY <2>2, <2>3, <2>4, <3>1, <3>2, LineStays
    <2> QED
      BY <2>2, <2>3, <2>4 DEF Line
  <1>3. CASE printers' # printers /\ Enable(name)
    <2>1. /\ p \in 1..Len(printers) /\ printers' = [printers EXCEPT ![p].status = "idle"]
          /\ types' = types /\ conversions' = conversions /\ jobs' = jobs
          /\ lapses' \in Nat /\ lapses <= lapses' /\ (status' = "fault" => lapses' > 0)
          /\ \/ status' # "running" /\ handed' = handed
             \/ /\ j \in 1..Len(jobs) /\ Takes(Enabled(p), j)
                /\ handed' = handed \cup {<<j - 1, printers[p].name>>}
      BY <1>3, EnableFacts
    <2>2. \A i \in 1..Len(jobs) : Takes(Enabled(p), i) => j <= i
      BY JobFound DEF Inv
    <2>3. /\ printers \in Seq(PrinterRec) /\ Len(jobs) \in Nat
      BY DEF Inv, Typed
    <2> HIDE DEF p, j
    <2>4. printers[p] \in PrinterRec
      BY <2>1, <2>3
    <2>5. Enabled(p).type = printers[p].type /\ printers[p].name \in Names
      BY <2>4 DEF Enabled, PrinterRec
    <2>6. /\ Len(printers') = Len(printers)
          /\ \A q \in 1..Len(printers) :
                /\ printers'[q].type = printers[q].type /\ printers'[q].name = printers[q].name
                /\ printers'[q].status = IF q = p THEN "idle" ELSE printers[q].status
      BY <2>1, InvTurned
    <2>7. ASSUME lapses' = 0, status' = "running",
                 NEW i \in 1..Len(jobs), NEW q \in 1..Len(printers), Unserved(i, q)'
          PROVE  Ahead(i, q)'
      <3>1. lapses = 0 /\ handed \subseteq handed'
        BY <2>1, <2>7 DEF Inv, Typed
      <3>2. CASE q # p
        <4>1. Unserved(i, q)
          BY <2>1, <2>6, <2>7, <3>1, <3>2 DEF Unserved
        <4> QED
          BY <2>6, <2>7, <3>1, <4>1, LineStays
      <3>3. CASE q = p
        <4>1. /\ jobs[i].type # printers[p].type /\ Waiting(jobs[i]) /\ jobs[i].eligible
              /\ \A other \in Names : <<i - 1, other>> \notin handed'
          BY <2>1, <2>6, <2>7, <3>3 DEF Unserved
        <4>2. Takes(Enabled(p), i)
          BY <2>5, <4>1, WaitingTaken
        <4>3. j <= i /\ j \in 1..Len(jobs) /\ <<j - 1, printers[p].name>> \in handed'
          BY <2>1, <2>2, <2>7, <4>2
        <4>4. j # i
          BY <2>5, <4>1, <4>3
        <4>5. j \in 1..i - 1
          BY <2>3, <4>3, <4>4
        <4> QED
          BY <2>6, <3>3, <4>3, <4>5 DEF Ahead
      <3> QED
        BY <3>2, <3>3
    <2> QED
      BY <2>1, <2>6, <2>7 DEF Line
  <1> QED
    BY <1>1, <1>2, <1>3

LEMMA LineNext == Inv /\ Line /\ [Next]_vars => Line'
  <1> SUFFICES ASSUME Inv, Line, [Next]_vars PROVE Line'
    OBVIOUS
  <1>1. ASSUME status = "running", NEW t \in Types, Type(t) PROVE Line'
    <2>1. jobs' = jobs /\ printers' = printers /\ handed' = handed /\ (lapses' = 0 => lapses = 0)
      BY <1>1 DEF Type, Contract, forks, Inv, Typed
    <2> QED
      BY <1>1, <2>1, LineSame
  <1>2. ASSUME status = "running", NEW e \in Edges, Conversion(e[1], e[2]) PROVE Line'
    <2>1. jobs' = jobs /\ printers' = printers /\ handed' = handed /\ (lapses' = 0 => lapses = 0)
      BY <1>2 DEF Conversion, Contract, forks, Inv, Typed
    <2> QED
      BY <1>2, <2>1, LineSame
  <1>3. ASSUME status = "running", NEW name \in Names, NEW t \in Types, Printer(name, t) PROVE Line'
    BY <1>3, LinePrinter
  <1>4. ASSUME status = "running", NEW t \in Types, NEW named \in SUBSET Names, PrintFile(t, named)
        PROVE  Line'
    BY <1>4, LinePrintFile
  <1>5. ASSUME status = "running", NEW id \in 0..MAX_JOBS, NEW from \in Statuses,
               NEW to \in {"aborted", "paused", "running"}, Signal(id, from, to)
        PROVE  Line'
    <2>1. printers' = printers /\ handed' = handed /\ (lapses' = 0 => lapses = 0)
          /\ (jobs' = jobs \/ (id < Len(jobs) /\ jobs' = [jobs EXCEPT ![id + 1].status = to]))
      BY <1>5 DEF Signal, Fault, Answer, Contract, forks, Inv, Typed
    <2>2. jobs \in Seq(JobRec) /\ (\A j \in 1..Len(jobs) : jobs[j] \in JobRec)
      BY DEF Inv, Typed
    <2>3. /\ Len(jobs') = Len(jobs)
          /\ \A j \in 1..Len(jobs) : /\ jobs'[j].type = jobs[j].type
                                     /\ jobs'[j].eligible = jobs[j].eligible
                                     /\ Waiting(jobs'[j]) => Waiting(jobs[j])
      <3>1. CASE jobs' = jobs
        BY <3>1
      <3>2. CASE id < Len(jobs) /\ jobs' = [jobs EXCEPT ![id + 1].status = to]
        <4>1. /\ Len(jobs') = Len(jobs)
              /\ \A j \in 1..Len(jobs) :
                    jobs'[j] = IF j = id + 1 THEN [jobs[j] EXCEPT !.status = to] ELSE jobs[j]
          BY <2>2, <3>2
        <4> QED
          BY <2>2, <4>1 DEF JobRec, Waiting
      <3> QED
        BY <2>1, <3>1, <3>2
    <2> QED
      BY <1>5, <2>1, <2>3, LineSame
  <1>6. ASSUME status = "running", NEW name \in Names, Disable(name) \/ Enable(name) PROVE Line'
    BY <1>6, LineTurned
  <1>7. CASE \/ status = "running" /\ (Listing \/ count_affirm \/ Blank \/ Quit)
             \/ \E c \in 1..MaxChildren : Process(c)
             \/ UNCHANGED vars
    <2>1. jobs' = jobs /\ printers' = printers /\ handed' = handed /\ lapses' \in Nat /\ lapses <= lapses'
      BY <1>7, OthersKeep DEF tables
    <2>2. lapses' = 0 => lapses = 0
      BY <2>1 DEF Inv, Typed
    <2>3. status' = "running" => status = "running"
      BY <1>7 DEF Process, single_fork, seek_p, vars
    <2> QED
      BY <2>1, <2>2, <2>3, LineSame
  <1> QED
    BY <1>1, <1>2, <1>3, <1>4, <1>5, <1>6, <1>7 DEF Next, Command, Statuses

(* A job nobody was given waits beside an idle printer of another type only  *)
(* behind a job this printer has been given: HeadOfLine, for any tables.     *)
THEOREM FirstInLine == Spec => []HeadOfLine
  <1>1. Init => Line
    BY DEF Init, Line
  <1>2. Inv /\ Line => HeadOfLine
    BY LineIs DEF Inv
  <1>3. Spec => [](Inv /\ Line)
    BY <1>1, InvInit, InvNext, LineNext, PTL DEF Spec
  <1> QED
    BY <1>2, <1>3, PTL
-----------------------------------------------------------------------------
(* An error is reported before anything is stored. *)
LEMMA NoErrorThere ==
    /\ ~Contains(<<>>, "error") /\ ~Contains(<<"ok">>, "error")
    /\ ~Contains(<<"ok", "ok">>, "error")
  BY DEF Contains

LEMMA RefusedStep ==
    ASSUME [Next]_vars, Contains(reply', "error"), status' = "running"
    PROVE  UNCHANGED tables
  <1>1. /\ ~\E t \in Types : Type(t)
        /\ ~\E e \in Edges : Conversion(e[1], e[2])
    BY NoErrorThere DEF Type, Conversion, Answer
  <1>2. ASSUME NEW name \in Names, NEW t \in Types, Printer(name, t) PROVE UNCHANGED tables
    BY <1>2, NoErrorThere DEF Printer, Answer, Fault, tables
  <1>3. ASSUME NEW j, NEW job, NEW p, NEW replies \in {<<"ok">>, <<"ok", "ok">>},
               Fork(j, job, p, replies)
        PROVE  FALSE
    BY <1>3, NoErrorThere DEF Fork, Answer
  <1>4. ASSUME NEW t \in Types, NEW named \in SUBSET Names, PrintFile(t, named)
        PROVE  UNCHANGED tables
    <2>1. CASE t \notin types
      BY <1>4, <2>1 DEF PrintFile, tables
    <2>2. CASE t \in types
      <3> DEFINE job == Job(t, named = {}, named)
                 p == find_print(job)
      <3>1. \/ reply' = <<>> \/ status' = "fault" \/ Fork(Len(jobs), job, printers[p], <<"ok">>)
        <4> HIDE DEF Fork
        <4> QED
          BY <1>4, <2>2 DEF PrintFile, Answer, Fault
      <3> HIDE DEF job, p
      <3> QED
        BY <1>3, <3>1, NoErrorThere
    <2> QED
      BY <2>1, <2>2
  <1>5. ASSUME NEW id, NEW from, NEW to, Signal(id, from, to) PROVE UNCHANGED tables
    BY <1>5, NoErrorThere DEF Signal, Answer, Fault, tables
  <1>6. ASSUME NEW name, Disable(name) PROVE UNCHANGED tables
    BY <1>6, NoErrorThere DEF Disable, Answer, Fault, tables
  <1>7. ASSUME NEW name, Enable(name) PROVE FALSE
    <2> DEFINE printer == [printers[name_def(name)] EXCEPT !.status = "idle"]
               j == find_job(printer)
    <2>1. status' = "fault" \/ Fork(j - 1, jobs[j], printer, <<"ok", "ok">>)
      BY <1>7 DEF Enable, Fault
    <2> HIDE DEF printer, j
    <2> QED
      BY <1>3, <2>1
  <1>8. CASE Listing \/ count_affirm \/ Blank \/ Quit \/ UNCHANGED vars
    BY <1>8 DEF Listing, count_affirm, Blank, Quit, vars, tables
  <1>9. ASSUME NEW c, Process(c) PROVE UNCHANGED tables
    BY <1>9 DEF Process, single_fork, seek_p, tables
  <1> QED
    BY <1>1, <1>2, <1>4, <1>5, <1>6, <1>7, <1>8, <1>9 DEF Next, Command

(* A command that reports an error and does not end the program has changed  *)
(* no table: Refused, for any tables and whatever the user writes.           *)
THEOREM ErrorsChangeNothing == Spec => Refused
  <1>1. [Next]_vars => [Contains(reply', "error") /\ status' = "running" => UNCHANGED tables]_vars
    BY RefusedStep
  <1> QED
    BY <1>1, PTL DEF Spec, Refused
=============================================================================

-------------------------------- MODULE Birp --------------------------------
(***************************************************************************)
(* hw1's birp: validargs reads the command line word by word and leaves     *)
(* what it says in the bits of global_options; main acts on them.           *)
(*                                                                          *)
(* The command line is made up as it is read: every step takes an option    *)
(* and, where validargs looks at it, the word after it.  global_options is  *)
(* the set of its bits.                                                     *)
(***************************************************************************)
EXTENDS Integers, SequencesExt, FiniteSetsExt

CONSTANT MaxWords   \* bound: words on the command line

ASSUME BoundAssumption == MaxWords \in Nat

VARIABLES
    argv,                       \* the words read so far
    global_options,
    ibirp, obirp,               \* input and output are birp
    idef, odef, tdef,           \* no -i, no -o, no transformation yet
    result                      \* "reading", what validargs returns, or "fault"

flags == <<ibirp, obirp, idef, odef, tdef>>
vars == <<argv, global_options, flags, result>>

HELP_OPTION == {31}
NoWord == "NULL"    \* argv ends with a null pointer

\* The words, each as the distances of its characters from '0'.
Text ==
    [w \in {"-h", "-i", "-o", "-n", "-r", "-t", "-z", "-Z",
            "pgm", "birp", "ascii", "0", "1", "2", "16", "17", "255", "256"} |->
       CASE w = "-h" -> <<-3, 56>> [] w = "-i" -> <<-3, 57>> [] w = "-o" -> <<-3, 63>>
         [] w = "-n" -> <<-3, 62>> [] w = "-r" -> <<-3, 66>> [] w = "-t" -> <<-3, 68>>
         [] w = "-z" -> <<-3, 74>> [] w = "-Z" -> <<-3, 42>>
         [] w = "pgm" -> <<64, 55, 61>> [] w = "birp" -> <<50, 57, 66, 64>>
         [] w = "ascii" -> <<49, 67, 51, 57, 57>>
         [] w = "0" -> <<0>> [] w = "1" -> <<1>> [] w = "2" -> <<2>>
         [] w = "16" -> <<1, 6>> [] w = "17" -> <<1, 7>>
         [] w = "255" -> <<2, 5, 5>> [] w = "256" -> <<2, 5, 6>>]
Words == DOMAIN Text
Options == {"-h", "-i", "-o", "-n", "-r", "-t", "-z", "-Z"}

\* Any word is taken for a number; a negative one is unsigned in the comparison
\* and too large.
atoiReplacement(w) == FoldLeft(LAMBDA value, c : value * 10 + c, 0, Text[w])
UpTo(max) == {w \in Words : atoiReplacement(w) \in 0..max}

\* The bits of a number that was doubled sixteen times, in 32.
Shifted(v) == {16 + k : k \in {j \in 0..15 : (v \div 2^j) % 2 = 1}}

Init ==
    /\ argv = <<>> /\ global_options = {} /\ result = "reading"
    /\ ibirp = TRUE /\ obirp = TRUE /\ idef = TRUE /\ odef = TRUE /\ tdef = TRUE

Read(words) == argv' = argv \o words /\ Len(argv') <= MaxWords
Refuse == result' = "refused" /\ UNCHANGED <<global_options, flags>>
Fault == result' = "fault" /\ UNCHANGED <<global_options, flags>>
Set(bits) == global_options' = global_options \cup bits /\ UNCHANGED result

\* -h counts as the first word only.
Help ==
    /\ Read(<<"-h">>)
    /\ IF argv = <<>>
       THEN /\ global_options' = HELP_OPTION /\ result' = "accepted"
            /\ UNCHANGED flags
       ELSE Refuse

\* An option that is to be followed by a word: refused before the word is looked
\* at, unless allowed; a null pointer without one.
WithWord(option, allowed, Accept(_)) ==
    \/ ~allowed /\ Read(<<option>>) /\ Refuse
    \/ allowed /\ Read(<<option, NoWord>>) /\ Fault
    \/ allowed /\ \E w \in Words : Read(<<option, w>>) /\ Accept(w)

Input ==
    LET Accept(w) ==
            IF w \notin {"pgm", "birp"} THEN Refuse
            ELSE /\ Set(IF w = "pgm" THEN {0} ELSE {1})
                 /\ ibirp' = (w = "birp") /\ idef' = FALSE
                 /\ UNCHANGED <<obirp, odef, tdef>>
    IN  WithWord("-i", tdef /\ idef, Accept)

Output ==
    LET Accept(w) ==
            IF w \notin {"pgm", "birp", "ascii"} THEN Refuse
            ELSE /\ Set(CASE w = "pgm" -> {4} [] w = "birp" -> {5} [] w = "ascii" -> {4, 5})
                 /\ obirp' = (w = "birp") /\ odef' = FALSE
                 /\ UNCHANGED <<ibirp, idef, tdef>>
    IN  WithWord("-o", tdef /\ odef, Accept)

\* The flag transforms is set wherever tdef is cleared.
Transform(bits) == Set(bits) /\ tdef' = FALSE /\ UNCHANGED <<ibirp, obirp, idef, odef>>
MayTransform_output == tdef /\ obirp    \* forgets the input
MayTransform == tdef /\ obirp /\ ibirp

Plain(option, bits) ==
    Read(<<option>>) /\ IF MayTransform THEN Transform(bits) ELSE Refuse

Threshold ==
    WithWord("-t", MayTransform, LAMBDA w :
        IF w \in UpTo(255) THEN Transform({9} \cup Shifted(atoiReplacement(w))) ELSE Refuse)

\* -(val) + 1, where the minus applies to val alone.
Shrink(v) == 1 - v

ZoomOut ==
    WithWord("-z", MayTransform, LAMBDA w :
        IF w \in UpTo(16) THEN Transform({8, 9} \cup Shifted(Shrink(atoiReplacement(w)))) ELSE Refuse)

ZoomIn ==
    WithWord("-Z", MayTransform, LAMBDA w :
        IF w \in UpTo(16) THEN Transform({8, 9} \cup Shifted(atoiReplacement(w))) ELSE Refuse)

\* A word that is no option is compared with a null pointer.
Other ==
    \E w \in Words \ Options : Read(<<w>>) /\ Fault

\* The defaults are set whatever was said.
End_both ==
    /\ Read(<<NoWord>>) /\ UNCHANGED flags
    /\ IF argv = <<>> THEN result' = "refused" /\ UNCHANGED global_options
       ELSE /\ result' = "accepted"
            /\ global_options' = global_options \cup {1, 5}

\* The end of the command line: without a word it is refused, else what was not
\* said is birp.
End ==
    /\ Read(<<NoWord>>) /\ UNCHANGED flags
    /\ IF argv = <<>> THEN result' = "refused" /\ UNCHANGED global_options
       ELSE /\ result' = "accepted"
            /\ global_options' = global_options \cup (IF idef THEN {1} ELSE {})
                                                \cup (IF odef THEN {5} ELSE {})

validargs ==
    /\ result = "reading"
    /\ \/ Help \/ Input \/ Output \/ Plain("-n", {8}) \/ Plain("-r", {10})
       \/ Threshold \/ ZoomOut \/ ZoomIn \/ Other \/ End

\* main asks whether the options OR a constant are not zero, which they are not:
\* every conversion is birp_to_birp, which fails, and main ends with success.
main ==
    /\ result \in {"refused", "accepted"}
    /\ result' = CASE result = "refused" -> "usage failed"
                   [] result = "accepted" /\ HELP_OPTION \subseteq global_options -> "usage"
                   [] OTHER -> "birp_to_birp"
    /\ UNCHANGED <<argv, global_options, flags>>

Next == validargs \/ main

Spec == Init /\ [][Next]_vars

(***************************************************************************)
(* Properties.                                                              *)
(***************************************************************************)
\* The command lines that USAGE describes besides -h: every item is optional, the
\* formats come in any order, and then a transformation if both are birp.
Inputs == {<<"-i", f>> : f \in {"pgm", "birp"}}
Outputs == {<<"-o", f>> : f \in {"pgm", "birp", "ascii"}}
Formats == {<<>>} \cup Inputs \cup Outputs
           \cup {in \o out : in \in Inputs, out \in Outputs}
           \cup {out \o in : in \in Inputs, out \in Outputs}
Transforms == {<<>>, <<"-n">>, <<"-r">>}
              \cup {<<"-t", w>> : w \in UpTo(255)}
              \cup {<<z, w>> : z \in {"-z", "-Z"}, w \in UpTo(16)}
Usage == {l \in Formats \X Transforms :
              l[2] # <<>> => ~Contains(l[1], "pgm") /\ ~Contains(l[1], "ascii")}
Written(l) == l[1] \o l[2] \o <<NoWord>>

\* validargs refuses a command line without words (birp.c:104-106), although USAGE
\* describes it; see UsageAccepted.
Lines == {l \in Usage : l[1] \o l[2] # <<>>}

\* validargs accepts -h and the lines of USAGE but the empty one, and no other.  It
\* stops at the first word from which none of them can follow; what it does there
\* may be to read through a null pointer (see RefusedReturns).
Accepts ==
    /\ result = "accepted" => argv = <<"-h">> \/ \E l \in Lines : argv = Written(l)
    /\ result \in {"refused", "fault"} =>
           \A l \in Lines : ~IsPrefix(argv, Written(l)) /\ argv # <<"-h">>

\* The bits say what the line said: one input and one output format, birp unless
\* another was given, and at most one transformation, with its parameter.
Decodes ==
    LET Format(l, option, bits) ==
            LET said == {w \in Words : \E k \in 1..Len(l[1]) - 1 : SubSeq(l[1], k, k + 1) = <<option, w>>}
            IN  UNION {bits[w] : w \in IF said = {} THEN {"birp"} ELSE said}
        Kind(t) == IF t = <<>> THEN {}
                   ELSE [o \in {"-n", "-r", "-t", "-z", "-Z"} |->
                         CASE o = "-n" -> {8} [] o = "-r" -> {10} [] o = "-t" -> {9}
                           [] OTHER -> {8, 9}][t[1]]
        Parameter(t) == IF Len(t) < 2 THEN 0
                        ELSE IF t[1] = "-z" THEN 1 - atoiReplacement(t[2]) ELSE atoiReplacement(t[2])
        Is(high, v) == SumSet({2^(k - 16) : k \in high}) = v % 2^16
    IN  \A l \in Lines : result = "accepted" /\ argv = Written(l) =>
            /\ global_options \cap {0, 1} = Format(l, "-i", [pgm |-> {0}, birp |-> {1}])
            /\ global_options \cap {4, 5} = Format(l, "-o", [pgm |-> {4}, birp |-> {5}, ascii |-> {4, 5}])
            /\ global_options \cap 8..10 = Kind(l[2])
            /\ Is(global_options \cap 16..31, Parameter(l[2]))

\* A line that USAGE describes is not refused (const.h:15-22).
UsageAccepted ==
    result \in {"refused", "fault"} => \A l \in Usage : ~IsPrefix(argv, Written(l))

\* What is not accepted is answered with -1 (birp.c:90, 98).
RefusedReturns == result # "fault"

\* The help is shown for -h only (const.h:16); -z is for a smaller raster
\* (const.h:26).
HelpAsked == result = "usage" => argv = <<"-h">>
==============================================================================

----------------------------- MODULE Birp_proofs -----------------------------
(***************************************************************************)
(* What birp makes of its command line, of any number of the words: the     *)
(* lines that validargs accepts are -h and those of USAGE but the empty one *)
(* (Accepts), the bits it leaves say what the line said (Decodes), and no   *)
(* line zooms out by two or more (HelpForZoomOut).                          *)
(***************************************************************************)
EXTENDS Birp, SequenceTheorems, WellFoundedInduction, TLAPS

Kinds == {"-n", "-r", "-t", "-z", "-Z"}
Strings == Words \cup {NoWord}

-----------------------------------------------------------------------------
(* The words of a line, by their places. *)
\* What may stand at places i and i + 1 of the formats f.
Names(f, i) == \/ f[i] = "-i" /\ f[i + 1] \in {"pgm", "birp"}
               \/ f[i] = "-o" /\ f[i + 1] \in {"pgm", "birp", "ascii"}

LEMMA WordsAre == Words = {"-h", "-i", "-o", "-n", "-r", "-t", "-z", "-Z", "pgm", "birp", "ascii",
                           "0", "1", "2", "16", "17", "255", "256"}
  BY DEF Words, Text

LEMMA Joined ==
    ASSUME NEW V, NEW s \in Seq(V), NEW t \in Seq(V)
    PROVE  /\ s \o t \in Seq(V) /\ Len(s \o t) = Len(s) + Len(t)
           /\ \A i \in 1..Len(s) : (s \o t)[i] = s[i]
           /\ \A i \in 1..Len(t) : (s \o t)[Len(s) + i] = t[i]
  <1>1. s \o t \in Seq(V) /\ Len(s \o t) = Len(s) + Len(t)
    OBVIOUS
  <1>2. ASSUME NEW i \in 1..Len(s) PROVE (s \o t)[i] = s[i]
    OBVIOUS
  <1>3. ASSUME NEW i \in 1..Len(t) PROVE (s \o t)[Len(s) + i] = t[i]
    OBVIOUS
  <1> QED
    BY <1>1, <1>2, <1>3

LEMMA Pairs ==
    ASSUME NEW V, NEW a \in V, NEW b \in V, NEW c \in V, NEW d \in V,
           NEW f, f = <<a, b>> \o <<c, d>>
    PROVE  f \in Seq(V) /\ Len(f) = 4 /\ f[1] = a /\ f[2] = b /\ f[3] = c /\ f[4] = d
  <1> DEFINE s == <<a, b>>
             t == <<c, d>>
  <1>1. /\ s \in Seq(V) /\ t \in Seq(V) /\ Len(s) = 2 /\ Len(t) = 2
        /\ s[1] = a /\ s[2] = b /\ t[1] = c /\ t[2] = d
    OBVIOUS
  <1>2. f = s \o t
    OBVIOUS
  <1> HIDE DEF s, t
  <1>3. /\ f \in Seq(V) /\ Len(f) = Len(s) + Len(t)
        /\ \A i \in 1..Len(s) : f[i] = s[i]
        /\ \A i \in 1..Len(t) : f[Len(s) + i] = t[i]
    BY <1>1, <1>2, Joined
  <1>4. f[1] = a /\ f[2] = b /\ f[2 + 1] = c /\ f[2 + 2] = d
    BY <1>1, <1>3
  <1> QED
    BY <1>1, <1>3, <1>4

LEMMA JoinedTwo ==
    ASSUME NEW V, NEW s \in Seq(V), NEW t \in Seq(V), Len(t) = 2
    PROVE  /\ s \o t \in Seq(V) /\ Len(s \o t) = Len(s) + 2
           /\ (s \o t)[Len(s) + 1] = t[1] /\ (s \o t)[Len(s) + 2] = t[2]
           /\ \A i \in 1..Len(s) : (s \o t)[i] = s[i]
  <1>1. /\ s \o t \in Seq(V) /\ Len(s \o t) = Len(s) + Len(t)
        /\ \A i \in 1..Len(s) : (s \o t)[i] = s[i]
        /\ \A i \in 1..Len(t) : (s \o t)[Len(s) + i] = t[i]
    BY Joined
  <1>2. 1 \in 1..Len(t) /\ 2 \in 1..Len(t)
    OBVIOUS
  <1> QED
    BY <1>1, <1>2

LEMMA JoinedPair ==
    ASSUME NEW V, NEW s \in Seq(V), NEW x \in V, NEW y \in V
    PROVE  /\ s \o <<x, y>> \in Seq(V) /\ Len(s \o <<x, y>>) = Len(s) + 2
           /\ (s \o <<x, y>>)[Len(s) + 1] = x /\ (s \o <<x, y>>)[Len(s) + 2] = y
           /\ \A i \in 1..Len(s) : (s \o <<x, y>>)[i] = s[i]
  <1> DEFINE t == <<x, y>>
  <1>1. t \in Seq(V) /\ Len(t) = 2 /\ t[1] = x /\ t[2] = y
    OBVIOUS
  <1> HIDE DEF t
  <1>2. /\ s \o t \in Seq(V) /\ Len(s \o t) = Len(s) + 2
        /\ (s \o t)[Len(s) + 1] = x /\ (s \o t)[Len(s) + 2] = y
        /\ \A i \in 1..Len(s) : (s \o t)[i] = s[i]
    BY <1>1, JoinedTwo
  <1> QED
    BY <1>2 DEF t

LEMMA Evens ==
    ASSUME NEW m \in {0, 2, 4}, NEW n \in {0, 2, 4}, m < n
    PROVE  n >= 2 /\ m + 1 \in 1..n /\ m + 2 \in 1..n /\ (m = 0 \/ (m = 2 /\ n = 4))
  OBVIOUS

LEMMA NamesOption ==
    ASSUME NEW f, NEW i, Names(f, i)
    PROVE  f[i] \in {"-i", "-o"}
  BY DEF Names

LEMMA FormatIs ==
    ASSUME NEW f \in Formats
    PROVE  /\ f \in Seq(Strings) /\ Len(f) \in {0, 2, 4}
           /\ Len(f) >= 2 => Names(f, 1)
           /\ Len(f) = 4 => Names(f, 3) /\ f[1] # f[3]
  <1> DEFINE In == {"pgm", "birp"}
             Out == {"pgm", "birp", "ascii"}
  <1>1. In \subseteq Strings /\ Out \subseteq Strings /\ "-i" \in Strings /\ "-o" \in Strings
    BY WordsAre DEF Strings
  <1>2. CASE f = <<>>
    BY <1>2
  <1>3. CASE f \in Inputs
    <2>1. PICK a \in In : f = <<"-i", a>>
      BY <1>3 DEF Inputs
    <2> QED
      BY <1>1, <2>1 DEF Names
  <1>4. CASE f \in Outputs
    <2>1. PICK a \in Out : f = <<"-o", a>>
      BY <1>4 DEF Outputs
    <2> QED
      BY <1>1, <2>1 DEF Names
  <1>5. CASE \E in \in Inputs, out \in Outputs : f = in \o out \/ f = out \o in
    <2>7. PICK in \in Inputs, out \in Outputs : f = in \o out \/ f = out \o in
      BY <1>5
    <2>2. PICK a \in In : in = <<"-i", a>>
      BY DEF Inputs
    <2>3. PICK b \in Out : out = <<"-o", b>>
      BY DEF Outputs
    <2>4. a \in Strings /\ b \in Strings
      BY <1>1
    <2>5. CASE f = in \o out
      <3>1. f = <<"-i", a>> \o <<"-o", b>>
        BY <2>2, <2>3, <2>5
      <3>2. f \in Seq(Strings) /\ Len(f) = 4 /\ f[1] = "-i" /\ f[2] = a /\ f[3] = "-o" /\ f[4] = b
        BY <1>1, <2>4, <3>1, Pairs
      <3> QED
        BY <3>2 DEF Names
    <2>6. CASE f = out \o in
      <3>1. f = <<"-o", b>> \o <<"-i", a>>
        BY <2>2, <2>3, <2>6
      <3>2. f \in Seq(Strings) /\ Len(f) = 4 /\ f[1] = "-o" /\ f[2] = b /\ f[3] = "-i" /\ f[4] = a
        BY <1>1, <2>4, <3>1, Pairs
      <3> QED
        BY <3>2 DEF Names
    <2> QED
      BY <2>7, <2>5, <2>6
  <1> QED
    BY <1>2, <1>3, <1>4, <1>5 DEF Formats

LEMMA TransformIs ==
    ASSUME NEW t \in Transforms
    PROVE  /\ t \in Seq(Strings) /\ Len(t) \in {0, 1, 2}
           /\ Len(t) = 1 => t[1] \in {"-n", "-r"}
           /\ Len(t) = 2 => \/ t[1] = "-t" /\ t[2] \in UpTo(255)
                            \/ t[1] \in {"-z", "-Z"} /\ t[2] \in UpTo(16)
  <1>1. UpTo(255) \subseteq Strings /\ UpTo(16) \subseteq Strings /\ Kinds \subseteq Strings
    BY WordsAre DEF UpTo, Strings, Kinds
  <1>2. CASE t \in {<<>>, <<"-n">>, <<"-r">>}
    <2>1. "-n" \in Strings /\ "-r" \in Strings
      BY <1>1 DEF Kinds
    <2>2. CASE t = <<>>
      BY <2>2
    <2>3. CASE t = <<"-n">>
      BY <2>1, <2>3
    <2>4. CASE t = <<"-r">>
      BY <2>1, <2>4
    <2> QED
      BY <1>2, <2>2, <2>3, <2>4
  <1>3. CASE t \in {<<"-t", w>> : w \in UpTo(255)}
    <2>1. PICK w \in UpTo(255) : t = <<"-t", w>>
      BY <1>3
    <2> QED
      BY <1>1, <2>1 DEF Kinds
  <1>4. CASE t \in {<<z, w>> : z \in {"-z", "-Z"}, w \in UpTo(16)}
    <2>1. PICK z \in {"-z", "-Z"}, w \in UpTo(16) : t = <<z, w>>
      BY <1>4
    <2> QED
      BY <1>1, <2>1 DEF Kinds
  <1> QED
    BY <1>2, <1>3, <1>4 DEF Transforms

LEMMA Places ==
    ASSUME NEW V, NEW f \in Seq(V), NEW t \in Seq(V), NEW x \in V, NEW W, W = f \o t \o <<x>>
    PROVE  /\ W \in Seq(V) /\ f \o t \in Seq(V)
           /\ Len(f \o t) = Len(f) + Len(t) /\ Len(W) = Len(f) + Len(t) + 1
           /\ \A i \in 1..Len(f) : W[i] = f[i] /\ (f \o t)[i] = f[i]
           /\ \A i \in 1..Len(t) : W[Len(f) + i] = t[i] /\ (f \o t)[Len(f) + i] = t[i]
           /\ W[Len(f) + Len(t) + 1] = x
  <1> DEFINE g == f \o t
  <1>1. /\ g \in Seq(V) /\ Len(g) = Len(f) + Len(t)
        /\ \A i \in 1..Len(f) : g[i] = f[i]
        /\ \A i \in 1..Len(t) : g[Len(f) + i] = t[i]
    OBVIOUS
  <1> HIDE DEF g
  <1>2. /\ W = Append(g, x) /\ W \in Seq(V) /\ Len(W) = Len(g) + 1
        /\ \A i \in 1..Len(g) : W[i] = g[i]
        /\ W[Len(g) + 1] = x
    BY <1>1 DEF g
  <1>3. Len(f) \in Nat /\ Len(t) \in Nat
    OBVIOUS
  <1>4. ASSUME NEW i \in 1..Len(f) PROVE W[i] = f[i]
    BY <1>1, <1>2, <1>3
  <1>5. ASSUME NEW i \in 1..Len(t) PROVE W[Len(f) + i] = t[i]
    BY <1>1, <1>2, <1>3
  <1> QED
    BY <1>1, <1>2, <1>3, <1>4, <1>5 DEF g

\* A line of USAGE that begins with the formats f and the transformation t
\* goes on like this.
GoesOn(f, t, a, b) ==
    /\ a \in {"-i", "-o", NoWord} \cup Kinds
    /\ a # NoWord => t = <<>>
    /\ a = NoWord => f # <<>> \/ t # <<>>
    /\ a = "-i" => ~Contains(f, "-i") /\ b \in {"pgm", "birp"}
    /\ a = "-o" => ~Contains(f, "-o") /\ b \in {"pgm", "birp", "ascii"}
    /\ a \in Kinds => ~Contains(f, "pgm") /\ ~Contains(f, "ascii")
    /\ a = "-t" => b \in UpTo(255)
    /\ a \in {"-z", "-Z"} => b \in UpTo(16)

LEMMA LineGoesOn ==
    ASSUME NEW f \in Formats, NEW t \in Transforms, NEW l \in Lines,
           Len(Written(l)) > Len(f) + Len(t),
           \A i \in 1..Len(f) + Len(t) : Written(l)[i] = (f \o t)[i]
    PROVE  LET k == Len(f) + Len(t) IN GoesOn(f, t, Written(l)[k + 1], Written(l)[k + 2])
  <1> DEFINE F == l[1]
             T == l[2]
             W == Written(l)
             k == Len(f) + Len(t)
             a == W[k + 1]
             b == W[k + 2]
  <1>1. /\ F \in Formats /\ T \in Transforms /\ F \o T # <<>>
        /\ T # <<>> => ~Contains(F, "pgm") /\ ~Contains(F, "ascii")
        /\ W = F \o T \o <<NoWord>>
    BY DEF Lines, Usage, Written
  <1> HIDE DEF F, T, W
  <1>2. /\ F \in Seq(Strings) /\ Len(F) \in {0, 2, 4}
        /\ Len(F) >= 2 => Names(F, 1)
        /\ Len(F) = 4 => Names(F, 3) /\ F[1] # F[3]
    BY <1>1, FormatIs
  <1>3. /\ T \in Seq(Strings) /\ Len(T) \in {0, 1, 2}
        /\ Len(T) = 1 => T[1] \in {"-n", "-r"}
        /\ Len(T) = 2 => \/ T[1] = "-t" /\ T[2] \in UpTo(255)
                         \/ T[1] \in {"-z", "-Z"} /\ T[2] \in UpTo(16)
    BY <1>1, TransformIs
  <1>4. /\ f \in Seq(Strings) /\ Len(f) \in {0, 2, 4}
        /\ Len(f) >= 2 => Names(f, 1)
        /\ Len(f) = 4 => Names(f, 3) /\ f[1] # f[3]
    BY FormatIs
  <1>5. /\ t \in Seq(Strings) /\ Len(t) \in {0, 1, 2}
        /\ Len(t) = 1 => t[1] \in {"-n", "-r"}
        /\ Len(t) = 2 => t[1] \in {"-t", "-z", "-Z"}
    BY TransformIs
  <1>16. Len(F) \in {0, 2, 4} /\ Len(f) \in {0, 2, 4} /\ Len(T) \in {0, 1, 2} /\ Len(t) \in {0, 1, 2}
    BY <1>2, <1>3, <1>4, <1>5
  <1>6. NoWord \in Strings
    BY DEF Strings
  <1>7. /\ Len(W) = Len(F) + Len(T) + 1
        /\ \A i \in 1..Len(F) : W[i] = F[i]
        /\ \A i \in 1..Len(T) : W[Len(F) + i] = T[i]
        /\ W[Len(F) + Len(T) + 1] = NoWord
    BY <1>1, <1>2, <1>3, <1>6, Places
  <1>8. /\ \A i \in 1..Len(f) : W[i] = f[i]
        /\ \A i \in 1..Len(t) : W[Len(f) + i] = t[i]
        /\ Len(W) > k
    <2>1. /\ \A i \in 1..Len(f) : (f \o t)[i] = f[i]
          /\ \A i \in 1..Len(t) : (f \o t)[Len(f) + i] = t[i]
      BY <1>4, <1>5, <1>6, Places
    <2>2. \A i \in 1..k : W[i] = (f \o t)[i]
      BY DEF W
    <2>3. Len(f) \in Nat /\ Len(t) \in Nat
      BY <1>4, <1>5
    <2>4. Len(W) > k
      BY DEF W
    <2>5. ASSUME NEW i \in 1..Len(f) PROVE W[i] = f[i]
      <3>1. i \in 1..k
        BY <2>3
      <3> QED
        BY <2>1, <2>2, <3>1
    <2>6. ASSUME NEW i \in 1..Len(t) PROVE W[Len(f) + i] = t[i]
      <3>1. Len(f) + i \in 1..k
        BY <2>3
      <3> QED
        BY <2>1, <2>2, <3>1
    <2> QED
      BY <2>4, <2>5, <2>6
  <1>9. Len(F) >= Len(f)
    <2>1. SUFFICES ASSUME Len(F) < Len(f) PROVE FALSE
      BY <1>2, <1>4
    <2>2. W[Len(F) + 1] \in {"-i", "-o"}
      <3>1. Len(F) + 1 \in 1..Len(f) /\ Len(F) \in {0, 2} /\ (Len(F) = 2 => Len(f) = 4)
        BY <1>16, <2>1, Evens
      <3>6. Len(f) >= 2
        BY <1>16, <2>1, Evens
      <3>2. W[Len(F) + 1] = f[Len(F) + 1]
        BY <1>8, <3>1
      <3>3. f[1] \in {"-i", "-o"} /\ (Len(F) = 2 => f[3] \in {"-i", "-o"})
        <4>1. Names(f, 1) /\ (Len(F) = 2 => Names(f, 3))
          BY <1>4, <3>1, <3>6
        <4> QED
          BY <4>1, NamesOption
      <3>4. CASE Len(F) = 0
        BY <3>2, <3>3, <3>4
      <3>5. CASE Len(F) = 2
        BY <3>2, <3>3, <3>5
      <3> QED
        BY <3>1, <3>4, <3>5
    <2>3. W[Len(F) + 1] \in Kinds \cup {NoWord}
      BY <1>2, <1>3, <1>7 DEF Kinds
    <2> QED
      BY <2>2, <2>3 DEF Kinds, NoWord
  <1>10. \A i \in 1..Len(f) : F[i] = f[i]
    BY <1>2, <1>4, <1>7, <1>8, <1>9
  <1>11. ASSUME NEW x, Contains(f, x) PROVE Contains(F, x)
    BY <1>2, <1>4, <1>9, <1>10, <1>11 DEF Contains
  <1>12. CASE t # <<>>
    <2>1. Len(t) \in {1, 2} /\ W[Len(f) + 1] = t[1] /\ t[1] \in Kinds
      BY <1>5, <1>8, <1>12 DEF Kinds
    <2>2. Len(F) = Len(f)
      <3>1. SUFFICES ASSUME Len(F) > Len(f) PROVE FALSE
        BY <1>2, <1>4, <1>9
      <3>2. F[Len(f) + 1] \in {"-i", "-o"}
        <4>1. (Len(f) = 0 /\ Len(F) >= 2) \/ (Len(f) = 2 /\ Len(F) = 4)
          BY <1>16, <3>1, Evens
        <4>2. CASE Len(f) = 0 /\ Len(F) >= 2
          BY <1>2, <4>2 DEF Names
        <4>3. CASE Len(f) = 2 /\ Len(F) = 4
          BY <1>2, <4>3 DEF Names
        <4> QED
          BY <4>1, <4>2, <4>3
      <3>3. F[Len(f) + 1] = t[1]
        <4>1. Len(f) + 1 \in 1..Len(F)
          BY <1>2, <1>4, <3>1
        <4> QED
          BY <1>7, <2>1, <4>1
      <3> QED
        BY <2>1, <3>2, <3>3 DEF Kinds
    <2>3. Len(T) = Len(t)
      <3>1. Len(T) # 0
        BY <1>2, <1>3, <1>7, <2>1, <2>2 DEF Kinds, NoWord
      <3>2. T[1] = t[1]
        <4>1. 1 \in 1..Len(T)
          BY <1>3, <3>1
        <4> QED
          BY <1>7, <2>1, <2>2, <4>1
      <3> QED
        BY <1>3, <1>5, <2>1, <3>1, <3>2
    <2>4. a = NoWord
      BY <1>7, <2>2, <2>3
    <2> QED
      BY <1>12, <2>4 DEF GoesOn, Kinds, NoWord, F, T, W
  <1>13. CASE t = <<>> /\ Len(F) > Len(f)
    <2>1. k = Len(f) /\ Names(F, k + 1) /\ a = F[k + 1] /\ b = F[k + 2]
      <3>1. Len(t) = 0 /\ k = Len(f)
        BY <1>4, <1>13
      <3>2. (k = 0 /\ Len(F) >= 2) \/ (k = 2 /\ Len(F) = 4)
        BY <1>16, <1>13, <3>1, Evens
      <3>3. k + 1 \in 1..Len(F) /\ k + 2 \in 1..Len(F)
        BY <1>16, <1>13, <3>1, Evens
      <3> HIDE DEF k
      <3>4. Names(F, k + 1)
        BY <1>2, <3>2
      <3> QED
        BY <1>7, <3>1, <3>3, <3>4
    <2>2. ~Contains(f, F[k + 1])
      <3>1. SUFFICES ASSUME NEW i \in 1..Len(f), f[i] = F[k + 1] PROVE FALSE
        BY DEF Contains
      <3>2. Len(f) = 2 /\ Len(F) = 4
        <4>1. Len(f) # 0
          BY <1>16, <3>1
        <4>2. Len(f) < Len(F)
          BY <1>16, <1>13
        <4>3. Len(f) = 0 \/ (Len(f) = 2 /\ Len(F) = 4)
          BY <1>16, <4>2, Evens
        <4> QED
          BY <4>1, <4>3
      <3>3. F[3] \in {"-i", "-o"} /\ F[1] # F[3]
        <4>1. Names(F, 3) /\ F[1] # F[3]
          BY <1>2, <3>2
        <4> QED
          BY <4>1, NamesOption
      <3>4. f[i] = F[3]
        BY <2>1, <3>1, <3>2
      <3>5. CASE i = 1
        <4>1. F[1] = f[1]
          BY <1>10, <3>2
        <4> QED
          BY <3>3, <3>4, <3>5, <4>1
      <3>6. CASE i = 2
        <4>1. Names(f, 1)
          BY <1>4, <3>2
        <4>2. f[2] \in {"pgm", "birp", "ascii"}
          BY <4>1 DEF Names
        <4> QED
          BY <3>3, <3>4, <3>6, <4>2
      <3> QED
        BY <3>1, <3>2, <3>5, <3>6
    <2> QED
      BY <1>13, <2>1, <2>2 DEF GoesOn, Names, Kinds, NoWord, W
  <1>14. CASE t = <<>> /\ Len(F) = Len(f) /\ Len(T) = 0
    <2>1. a = NoWord
      BY <1>4, <1>7, <1>14
    <2>2. f # <<>>
      <3>1. F # <<>>
        BY <1>1, <1>3, <1>14
      <3> QED
        BY <1>2, <1>4, <1>14, <3>1
    <2> QED
      BY <1>14, <2>1, <2>2 DEF GoesOn, Kinds, NoWord, W
  <1>15. CASE t = <<>> /\ Len(F) = Len(f) /\ Len(T) # 0
    <2>1. k = Len(F) /\ a = T[1] /\ (Len(T) = 2 => b = T[2])
      <3>1. Len(t) = 0 /\ k = Len(F)
        BY <1>2, <1>15
      <3>2. 1 \in 1..Len(T) /\ (Len(T) = 2 => 2 \in 1..Len(T))
        BY <1>3, <1>15
      <3> QED
        BY <1>7, <3>1, <3>2
    <2>2. ~Contains(F, "pgm") /\ ~Contains(F, "ascii")
      BY <1>1, <1>15
    <2>3. ~Contains(f, "pgm") /\ ~Contains(f, "ascii")
      BY <1>11, <2>2
    <2> QED
      BY <1>3, <1>15, <2>1, <2>3 DEF GoesOn, Kinds, NoWord, W
  <1> QED
    BY <1>2, <1>4, <1>9, <1>12, <1>13, <1>14, <1>15 DEF F, W

-----------------------------------------------------------------------------
(* What the formats say. *)
Two(f, k, a, b) == SubSeq(f, k, k + 1) = <<a, b>>
Said(f, option) == {w \in Words : \E k \in 1..Len(f) - 1 : Two(f, k, option, w)}

LEMMA TwoAre ==
    ASSUME NEW f \in Seq(Strings), NEW k \in 1..Len(f) - 1, NEW a, NEW b
    PROVE  Two(f, k, a, b) <=> f[k] = a /\ f[k + 1] = b
  <1> DEFINE s == SubSeq(f, k, k + 1)
  <1>1. k \in 1..Len(f) /\ k + 1 \in 1..Len(f) /\ k \in Nat
    OBVIOUS
  <1>2. s \in Seq(Strings) /\ Len(s) = 2 /\ s[1] = f[k] /\ s[2] = f[k + 1]
    <2>1. /\ s \in Seq(Strings)
          /\ Len(s) = IF k <= k + 1 THEN k + 1 - k + 1 ELSE 0
          /\ \A i \in 1..(k + 1 - k + 1) : s[i] = f[k + i - 1]
      BY <1>1, SubSeqProperties
    <2>2. Len(s) = 2
      BY <1>1, <2>1
    <2>3. s[1] = f[k + 1 - 1] /\ s[2] = f[k + 2 - 1]
      BY <1>1, <2>1
    <2> QED
      BY <1>1, <2>1, <2>2, <2>3
  <1> HIDE DEF s
  <1>3. s = <<a, b>> <=> s[1] = a /\ s[2] = b
    BY <1>2
  <1> QED
    BY <1>2, <1>3 DEF s, Two

LEMMA SaidIs ==
    ASSUME NEW f \in Formats, NEW p \in {"-i", "-o"}
    PROVE  Said(f, p) = (IF Len(f) >= 2 /\ f[1] = p THEN {f[2]} ELSE {})
                        \cup (IF Len(f) = 4 /\ f[3] = p THEN {f[4]} ELSE {})
  <1>1. /\ f \in Seq(Strings) /\ Len(f) \in {0, 2, 4}
        /\ Len(f) >= 2 => Names(f, 1)
        /\ Len(f) = 4 => Names(f, 3) /\ f[1] # f[3]
    BY FormatIs
  <1>2. Said(f, p) = {w \in Words : \E k \in 1..Len(f) - 1 : f[k] = p /\ f[k + 1] = w}
    <2>1. ASSUME NEW w \in Words, NEW k \in 1..Len(f) - 1
          PROVE  Two(f, k, p, w) <=> f[k] = p /\ f[k + 1] = w
      <3>1. f \in Seq(Strings)
        BY <1>1
      <3> QED
        BY <3>1, TwoAre
    <2> QED
      BY <2>1 DEF Said
  <1>3. /\ Len(f) >= 2 => f[2] \in Words /\ f[2] # p
        /\ Len(f) = 4 => f[4] \in Words
    BY <1>1, WordsAre DEF Names
  <1>4. CASE Len(f) = 0
    BY <1>2, <1>4
  <1>5. CASE Len(f) = 2
    <2>1. \A k : k \in 1..Len(f) - 1 <=> k = 1
      BY <1>5
    <2> QED
      BY <1>2, <1>3, <1>5, <2>1
  <1>6. CASE Len(f) = 4
    <2>1. \A k : k \in 1..Len(f) - 1 <=> k \in {1, 2, 3}
      BY <1>6
    <2> QED
      BY <1>2, <1>3, <1>6, <2>1
  <1> QED
    BY <1>1, <1>4, <1>5, <1>6

LEMMA ContainsSaid ==
    ASSUME NEW f \in Formats
    PROVE  /\ Contains(f, "-i") <=> Said(f, "-i") # {}
           /\ Contains(f, "-o") <=> Said(f, "-o") # {}
           /\ Contains(f, "pgm") <=> "pgm" \in Said(f, "-i") \cup Said(f, "-o")
           /\ Contains(f, "ascii") <=> "ascii" \in Said(f, "-o")
  <1>1. /\ f \in Seq(Strings) /\ Len(f) \in {0, 2, 4}
        /\ Len(f) >= 2 => Names(f, 1)
        /\ Len(f) = 4 => Names(f, 3) /\ f[1] # f[3]
    BY FormatIs
  <1>4. CASE Len(f) = 0
    <2>1. Said(f, "-i") = {} /\ Said(f, "-o") = {}
      BY <1>4, SaidIs
    <2> QED
      BY <1>4, <2>1 DEF Contains
  <1>5. CASE Len(f) = 2
    <2>1. \A k : k \in 1..Len(f) <=> k \in {1, 2}
      BY <1>5
    <2>2. \A x : Contains(f, x) <=> x = f[1] \/ x = f[2]
      BY <2>1 DEF Contains
    <2>3. \A p \in {"-i", "-o"} : Said(f, p) = IF f[1] = p THEN {f[2]} ELSE {}
      BY <1>5, SaidIs
    <2>4. Names(f, 1)
      BY <1>1, <1>5
    <2> QED
      BY <2>2, <2>3, <2>4 DEF Names
  <1>6. CASE Len(f) = 4
    <2>1. \A k : k \in 1..Len(f) <=> k \in {1, 2, 3, 4}
      BY <1>6
    <2>2. \A x : Contains(f, x) <=> x = f[1] \/ x = f[2] \/ x = f[3] \/ x = f[4]
      BY <2>1 DEF Contains
    <2>3. \A p \in {"-i", "-o"} : Said(f, p) = (IF f[1] = p THEN {f[2]} ELSE {})
                                               \cup (IF f[3] = p THEN {f[4]} ELSE {})
      BY <1>6, SaidIs
    <2>4. Names(f, 1) /\ Names(f, 3) /\ f[1] # f[3]
      BY <1>1, <1>6
    <2> QED
      BY <2>2, <2>3, <2>4 DEF Names
  <1> QED
    BY <1>1, <1>4, <1>5, <1>6

\* The formats with one more.
LEMMA MoreFormats ==
    ASSUME NEW f \in Formats, NEW p \in {"-i", "-o"}, Said(f, p) = {}, NEW w,
           p = "-i" => w \in {"pgm", "birp"}, p = "-o" => w \in {"pgm", "birp", "ascii"}
    PROVE  /\ f \o <<p, w>> \in Formats
           /\ \A q \in {"-i", "-o"} : Said(f \o <<p, w>>, q) = IF q = p THEN {w} ELSE Said(f, q)
  <1> DEFINE g == f \o <<p, w>>
             pair == <<p, w>>
  <1>1. /\ f \in Seq(Strings) /\ Len(f) \in {0, 2, 4}
        /\ Len(f) >= 2 => Names(f, 1)
        /\ Len(f) = 4 => Names(f, 3) /\ f[1] # f[3]
    BY FormatIs
  <1>5. p \in Strings /\ w \in Strings
    BY WordsAre DEF Strings
  <1>6. pair \in Seq(Strings) /\ Len(pair) = 2 /\ pair[1] = p /\ pair[2] = w
    BY <1>5
  <1>7. pair \in IF p = "-i" THEN Inputs ELSE Outputs
    BY DEF Inputs, Outputs
  <1> HIDE DEF pair
  <1>2. CASE Len(f) = 0
    <2>1. f = <<>>
      BY <1>1, <1>2
    <2>2. g = pair
      BY <1>6, <2>1 DEF pair
    <2> HIDE DEF g
    <2>3. g \in Formats
      <3>1. pair \in Inputs \/ pair \in Outputs
        BY <1>7
      <3> QED
        BY <2>2, <3>1 DEF Formats
    <2>4. \A q \in {"-i", "-o"} : Said(f, q) = {}
      BY <1>2, SaidIs
    <2>5. \A q \in {"-i", "-o"} : Said(g, q) = IF q = p THEN {w} ELSE {}
      BY <1>6, <2>2, <2>3, SaidIs
    <2> QED
      BY <2>3, <2>4, <2>5 DEF g
  <1>3. CASE Len(f) = 2
    <2>6. \A q \in {"-i", "-o"} : Said(f, q) = IF f[1] = q THEN {f[2]} ELSE {}
      BY <1>3, SaidIs
    <2>1. Names(f, 1) /\ f[1] # p
      <3>1. CASE f[1] = p
        <4>1. Said(f, p) = {f[2]}
          BY <2>6, <3>1
        <4> QED
          BY <4>1
      <3> QED
        BY <1>1, <1>3, <3>1
    <2>2. f = <<f[1], f[2]>>
      BY <1>1, <1>3
    <2>3. f \in IF p = "-i" THEN Outputs ELSE Inputs
      BY <2>1, <2>2 DEF Names, Inputs, Outputs
    <2>4. g \in Formats
      <3>1. g = f \o pair
        BY DEF pair
      <3> HIDE DEF g
      <3>2. (f \in Inputs /\ pair \in Outputs) \/ (f \in Outputs /\ pair \in Inputs)
        BY <1>7, <2>3
      <3> DEFINE IO == {in \o out : in \in Inputs, out \in Outputs}
                 OI == {out \o in : in \in Inputs, out \in Outputs}
      <3>5. Formats = {<<>>} \cup Inputs \cup Outputs \cup IO \cup OI
        BY DEF Formats
      <3>3. CASE f \in Inputs /\ pair \in Outputs
        <4>1. f \o pair \in IO
          BY <3>3
        <4> HIDE DEF IO, OI
        <4> QED
          BY <3>1, <3>5, <4>1
      <3>4. CASE f \in Outputs /\ pair \in Inputs
        <4>1. f \o pair \in OI
          BY <3>4
        <4> HIDE DEF IO, OI
        <4> QED
          BY <3>1, <3>5, <4>1
      <3> QED
        BY <3>2, <3>3, <3>4
    <2>5. Len(g) = 4 /\ g[1] = f[1] /\ g[2] = f[2] /\ g[2 + 1] = p /\ g[2 + 2] = w
      <3>1. f \in Seq(Strings) /\ pair \in Seq(Strings) /\ Len(f) = 2 /\ Len(pair) = 2
        BY <1>1, <1>3, <1>6
      <3>2. g = f \o pair
        BY DEF pair
      <3> HIDE DEF g
      <3>3. /\ Len(g) = Len(f) + Len(pair)
            /\ \A i \in 1..Len(f) : g[i] = f[i]
            /\ \A i \in 1..Len(pair) : g[Len(f) + i] = pair[i]
        <4>1. f \in Seq(Strings) /\ pair \in Seq(Strings)
          BY <3>1
        <4>2. Len(f \o pair) = Len(f) + Len(pair)
          BY <4>1
        <4>3. ASSUME NEW i \in 1..Len(f) PROVE (f \o pair)[i] = f[i]
          BY <4>1
        <4>4. ASSUME NEW i \in 1..Len(pair) PROVE (f \o pair)[Len(f) + i] = pair[i]
          BY <4>1
        <4> QED
          BY <3>2, <4>2, <4>3, <4>4
      <3> QED
        BY <1>6, <3>1, <3>3
    <2> HIDE DEF g
    <2>7. \A q \in {"-i", "-o"} : Said(g, q) = (IF f[1] = q THEN {f[2]} ELSE {})
                                               \cup (IF p = q THEN {w} ELSE {})
      BY <2>4, <2>5, SaidIs
    <2> QED
      BY <2>1, <2>4, <2>6, <2>7 DEF g
  <1>4. CASE Len(f) = 4
    <2>1. Names(f, 1) /\ Names(f, 3) /\ f[1] # f[3]
      BY <1>1, <1>4
    <2>2. f[1] # p /\ f[3] # p
      <3>1. Said(f, p) = (IF f[1] = p THEN {f[2]} ELSE {}) \cup (IF f[3] = p THEN {f[4]} ELSE {})
        BY <1>4, SaidIs, 4 >= 2
      <3>2. f[1] # p
        <4>1. f[1] = p => f[2] \in Said(f, p)
          BY <3>1
        <4> QED
          BY <4>1
      <3>3. f[3] # p
        <4>1. f[3] = p => f[4] \in Said(f, p)
          BY <3>1
        <4> QED
          BY <4>1
      <3> QED
        BY <3>2, <3>3
    <2> QED
      BY <2>1, <2>2 DEF Names
  <1> QED
    BY <1>1, <1>2, <1>3, <1>4

LEMMA Follows ==
    ASSUME NEW f \in Formats, NEW t \in Transforms, NEW l \in Lines, NEW x \in Strings,
           IsPrefix(f \o t \o <<x>>, Written(l))
    PROVE  \E b : GoesOn(f, t, x, b)
  <1> DEFINE A == f \o t \o <<x>>
             k == Len(f) + Len(t)
             W == Written(l)
  <1>1. f \in Seq(Strings) /\ t \in Seq(Strings) /\ Len(f) \in Nat /\ Len(t) \in Nat
    BY FormatIs, TransformIs
  <1>2. /\ A \in Seq(Strings) /\ f \o t \in Seq(Strings) /\ Len(f \o t) = k /\ Len(A) = k + 1
        /\ A = Append(f \o t, x)
        /\ A[k + 1] = x
    BY <1>1, Places
  <1>3. \A i \in 1..k : A[i] = (f \o t)[i]
    BY <1>1, <1>2
  <1>4. W \in Seq(Strings)
    <2>1. l[1] \in Seq(Strings) /\ l[2] \in Seq(Strings) /\ NoWord \in Strings
      BY FormatIs, TransformIs DEF Lines, Usage, Strings
    <2> QED
      BY <2>1, Places DEF Written
  <1> HIDE DEF A, W
  <1>5. Len(A) <= Len(W) /\ \A i \in 1..Len(A) : W[i] = A[i]
    BY <1>2, <1>4 DEF IsPrefix, A, W
  <1>6. Len(W) > k /\ \A i \in 1..k : W[i] = (f \o t)[i]
    BY <1>1, <1>2, <1>3, <1>4, <1>5
  <1>7. W[k + 1] = x
    BY <1>1, <1>2, <1>5
  <1>8. GoesOn(f, t, W[k + 1], W[k + 2])
    BY <1>6, LineGoesOn DEF W
  <1> QED
    BY <1>7, <1>8

LEMMA FollowsWith ==
    ASSUME NEW f \in Formats, NEW t \in Transforms, NEW l \in Lines, NEW x \in Strings, NEW y \in Strings,
           IsPrefix(f \o t \o <<x, y>>, Written(l))
    PROVE  GoesOn(f, t, x, y)
  <1> DEFINE g == f \o t
             pair == <<x, y>>
             A == g \o pair
             k == Len(f) + Len(t)
             W == Written(l)
  <1>1. f \in Seq(Strings) /\ t \in Seq(Strings) /\ Len(f) \in Nat /\ Len(t) \in Nat
    BY FormatIs, TransformIs
  <1>2. g \in Seq(Strings) /\ Len(g) = k
    BY <1>1, Places
  <1>10. pair \in Seq(Strings) /\ Len(pair) = 2 /\ pair[1] = x /\ pair[2] = y
    OBVIOUS
  <1>4. W \in Seq(Strings)
    <2>1. l[1] \in Seq(Strings) /\ l[2] \in Seq(Strings) /\ NoWord \in Strings
      BY FormatIs, TransformIs DEF Lines, Usage, Strings
    <2> QED
      BY <2>1, Places DEF Written
  <1>9. IsPrefix(A, W)
    OBVIOUS
  <1> HIDE DEF g, pair
  <1>3. /\ A \in Seq(Strings) /\ Len(A) = k + 2 /\ A[k + 1] = x /\ A[k + 2] = y
        /\ \A i \in 1..k : A[i] = g[i]
    BY <1>2, JoinedPair DEF pair
  <1> HIDE DEF A, W
  <1>5. Len(A) <= Len(W) /\ \A i \in 1..Len(A) : W[i] = A[i]
    BY <1>3, <1>4, <1>9 DEF IsPrefix
  <1>6. Len(W) > k /\ \A i \in 1..k : W[i] = g[i]
    BY <1>1, <1>3, <1>4, <1>5
  <1>7. W[k + 1] = x /\ W[k + 2] = y
    BY <1>1, <1>3, <1>5
  <1>8. GoesOn(f, t, W[k + 1], W[k + 2])
    BY <1>6, LineGoesOn DEF W, g
  <1> QED
    BY <1>7, <1>8

-----------------------------------------------------------------------------
(* The invariant: the words read so far are formats f and a transformation t  *)
(* of USAGE, and the flags and the bits say which.                            *)
Off(a) == \A l \in Lines : ~IsPrefix(a, Written(l)) /\ a # <<"-h">>

LEMMA OffWord ==
    ASSUME NEW f \in Formats, NEW t \in Transforms, NEW x \in Strings,
           \A b : ~GoesOn(f, t, x, b), x # "-h" \/ f \o t # <<>>
    PROVE  Off(f \o t \o <<x>>)
  <1> DEFINE g == f \o t
  <1>1. g \in Seq(Strings)
    BY FormatIs, TransformIs, Joined
  <1>2. \A l \in Lines : ~IsPrefix(g \o <<x>>, Written(l))
    BY Follows
  <1>4. x # "-h" \/ g # <<>>
    OBVIOUS
  <1> HIDE DEF g
  <1>3. g \o <<x>> # <<"-h">>
    <2>1. g \o <<x>> = Append(g, x)
      BY <1>1
    <2>2. Len(Append(g, x)) = Len(g) + 1 /\ Append(g, x)[Len(g) + 1] = x
      BY <1>1
    <2>3. ASSUME Append(g, x) = <<"-h">> PROVE FALSE
      <3>1. Len(g) = 0
        BY <1>1, <2>2, <2>3
      <3>2. g = <<>> /\ x = "-h"
        BY <1>1, <2>2, <2>3, <3>1
      <3> QED
        BY <1>4, <3>2
    <2> QED
      BY <2>1, <2>3
  <1> QED
    BY <1>2, <1>3 DEF Off, g

LEMMA OffPair ==
    ASSUME NEW f \in Formats, NEW t \in Transforms, NEW x \in Strings, NEW y \in Strings,
           ~GoesOn(f, t, x, y)
    PROVE  Off(f \o t \o <<x, y>>)
  <1> DEFINE g == f \o t
             pair == <<x, y>>
  <1>1. g \in Seq(Strings)
    BY FormatIs, TransformIs, Joined
  <1>2. \A l \in Lines : ~IsPrefix(g \o pair, Written(l))
    BY FollowsWith
  <1>3. pair \in Seq(Strings) /\ Len(pair) = 2
    OBVIOUS
  <1> HIDE DEF g, pair
  <1>4. Len(g \o pair) = Len(g) + 2 /\ Len(g) \in Nat
    <2>1. pair \in Seq(Strings) /\ Len(g) \in Nat
      BY <1>1, <1>3
    <2>2. Len(g \o pair) = Len(g) + Len(pair)
      BY <1>1, <2>1
    <2> QED
      BY <1>3, <2>1, <2>2
  <1>5. g \o pair # <<"-h">>
    BY <1>4
  <1> QED
    BY <1>2, <1>5 DEF Off, g, pair

IBits == [pgm |-> {0}, birp |-> {1}]
OBits == [pgm |-> {4}, birp |-> {5}, ascii |-> {4, 5}]
Given(said, bits) == UNION {bits[w] : w \in said}
KindOf(t) == IF t = <<>> THEN {}
             ELSE [o \in {"-n", "-r", "-t", "-z", "-Z"} |->
                   CASE o = "-n" -> {8} [] o = "-r" -> {10} [] o = "-t" -> {9}
                     [] OTHER -> {8, 9}][t[1]]
ParameterOf(t) == IF Len(t) < 2 THEN 0
                  ELSE IF t[1] = "-z" THEN 1 - atoiReplacement(t[2]) ELSE atoiReplacement(t[2])
TransformBits(t) == KindOf(t) \cup Shifted(ParameterOf(t))

Meant(f, t) ==
    /\ argv = f \o t
    /\ tdef <=> t = <<>>
    /\ idef <=> Said(f, "-i") = {}
    /\ odef <=> Said(f, "-o") = {}
    /\ ibirp <=> "pgm" \notin Said(f, "-i")
    /\ obirp <=> Said(f, "-o") \cap {"pgm", "ascii"} = {}
    /\ t # <<>> => ibirp /\ obirp
    /\ global_options = Given(Said(f, "-i"), IBits) \cup Given(Said(f, "-o"), OBits)
                        \cup TransformBits(t)

\* What is set for a format that was not said.
Default(said) == IF said = {} THEN {"birp"} ELSE said
LineBits(l) == Given(Default(Said(l[1], "-i")), IBits) \cup Given(Default(Said(l[1], "-o")), OBits)
               \cup TransformBits(l[2])
Ended == \/ argv = <<"-h">> /\ global_options = HELP_OPTION
         \/ \E l \in Lines : argv = Written(l) /\ global_options = LineBits(l)

IInv ==
    /\ result = "reading" => \E f \in Formats, t \in Transforms : Meant(f, t)
    /\ result = "accepted" => Ended
    /\ result \in {"refused", "fault"} => Off(argv)
    /\ result = "usage" => Ended /\ HELP_OPTION \subseteq global_options
    /\ result = "birp_to_birp" => Ended /\ ~(HELP_OPTION \subseteq global_options)

-----------------------------------------------------------------------------
LEMMA FormatBits ==
    /\ IBits["pgm"] = {0} /\ IBits["birp"] = {1}
    /\ OBits["pgm"] = {4} /\ OBits["birp"] = {5} /\ OBits["ascii"] = {4, 5}
  BY DEF IBits, OBits

LEMMA GivenOne ==
    ASSUME NEW w, NEW bits
    PROVE  Given({w}, bits) = bits[w] /\ Given({}, bits) = {}
  BY DEF Given

\* The powers of two, one by one.
Power == [j \in 0..15 |-> 2^j]

LEMMA Powers ==
    /\ Power[0] = 1 /\ Power[1] = 2 /\ Power[2] = 4 /\ Power[3] = 8
    /\ Power[4] = 16 /\ Power[5] = 32 /\ Power[6] = 64 /\ Power[7] = 128
    /\ Power[8] = 256 /\ Power[9] = 512 /\ Power[10] = 1024 /\ Power[11] = 2048
    /\ Power[12] = 4096 /\ Power[13] = 8192 /\ Power[14] = 16384 /\ Power[15] = 32768
  <1>1. /\ 2^0 = 1 /\ 2^1 = 2 /\ 2^2 = 4 /\ 2^3 = 8 /\ 2^4 = 16 /\ 2^5 = 32 /\ 2^6 = 64 /\ 2^7 = 128
        /\ 2^8 = 256 /\ 2^9 = 512 /\ 2^10 = 1024 /\ 2^11 = 2048 /\ 2^12 = 4096 /\ 2^13 = 8192
        /\ 2^14 = 16384 /\ 2^15 = 32768
    OBVIOUS
  <1> QED
    BY <1>1 DEF Power

LEMMA ShiftedIs ==
    ASSUME NEW v
    PROVE  Shifted(v) = {16 + k : k \in {j \in 0..15 : (v \div Power[j]) % 2 = 1}}
  <1>1. \A j \in 0..15 : 2^j = Power[j]
    BY DEF Power
  <1> QED
    BY <1>1 DEF Shifted

LEMMA NoBits ==
    Shifted(0) = {}
  <1>1. ASSUME NEW d \in Nat, d > 0 PROVE ~((0 \div d) % 2 = 1)
    <2> DEFINE q == 0 \div d
    <2>1. q = 0
      BY <1>1
    <2> HIDE DEF q
    <2>2. ~(q % 2 = 1)
      BY <2>1
    <2> QED
      BY <2>2 DEF q
  <1>2. ASSUME NEW j \in 0..15 PROVE Power[j] \in Nat /\ Power[j] > 0
    <2>1. \/ j = 0 \/ j = 1 \/ j = 2 \/ j = 3 \/ j = 4 \/ j = 5 \/ j = 6 \/ j = 7
          \/ j = 8 \/ j = 9 \/ j = 10 \/ j = 11 \/ j = 12 \/ j = 13 \/ j = 14 \/ j = 15
      OBVIOUS
    <2> QED
      BY <2>1, Powers
  <1>3. \A j \in 0..15 : ~((0 \div Power[j]) % 2 = 1)
    BY <1>1, <1>2, Zenon
  <1>4. {j \in 0..15 : (0 \div Power[j]) % 2 = 1} = {}
    BY <1>3, Zenon
  <1>5. Shifted(0) = {16 + k : k \in {j \in 0..15 : (0 \div Power[j]) % 2 = 1}}
    BY ShiftedIs
  <1> QED
    BY <1>4, <1>5, Zenon

LEMMA TransformBitsAre ==
    /\ TransformBits(<<>>) = {}
    /\ TransformBits(<<"-n">>) = {8}
    /\ TransformBits(<<"-r">>) = {10}
    /\ \A w : TransformBits(<<"-t", w>>) = {9} \cup Shifted(atoiReplacement(w))
    /\ \A w : TransformBits(<<"-z", w>>) = {8, 9} \cup Shifted(Shrink(atoiReplacement(w)))
    /\ \A w : TransformBits(<<"-Z", w>>) = {8, 9} \cup Shifted(atoiReplacement(w))
  <1>1. KindOf(<<>>) = {} /\ ParameterOf(<<>>) = 0
    BY DEF KindOf, ParameterOf
  <1>2. KindOf(<<"-n">>) = {8} /\ ParameterOf(<<"-n">>) = 0
    <2>1. KindOf(<<"-n">>) = {8}
      BY DEF KindOf
    <2> QED
      BY <2>1 DEF ParameterOf
  <1>3. KindOf(<<"-r">>) = {10} /\ ParameterOf(<<"-r">>) = 0
    <2>1. KindOf(<<"-r">>) = {10}
      BY DEF KindOf
    <2> QED
      BY <2>1 DEF ParameterOf
  <1>4. ASSUME NEW w
        PROVE  KindOf(<<"-t", w>>) = {9} /\ ParameterOf(<<"-t", w>>) = atoiReplacement(w)
    <2>1. KindOf(<<"-t", w>>) = {9}
      BY DEF KindOf
    <2> QED
      BY <2>1 DEF ParameterOf
  <1>5. ASSUME NEW w
        PROVE  KindOf(<<"-z", w>>) = {8, 9} /\ ParameterOf(<<"-z", w>>) = Shrink(atoiReplacement(w))
    <2>1. KindOf(<<"-z", w>>) = {8, 9}
      BY DEF KindOf
    <2> QED
      BY <2>1 DEF ParameterOf, Shrink
  <1>6. ASSUME NEW w
        PROVE  KindOf(<<"-Z", w>>) = {8, 9} /\ ParameterOf(<<"-Z", w>>) = atoiReplacement(w)
    <2>1. KindOf(<<"-Z", w>>) = {8, 9}
      BY DEF KindOf
    <2> QED
      BY <2>1 DEF ParameterOf
  <1> QED
    BY <1>1, <1>2, <1>3, <1>4, <1>5, <1>6, NoBits DEF TransformBits

LEMMA NoWordIsNoWord ==
    /\ NoWord \notin Words /\ NoWord \in Strings /\ Words \subseteq Strings /\ Options \subseteq Words
    /\ \A m : UpTo(m) \subseteq Words
  BY WordsAre DEF NoWord, Strings, Options, UpTo

\* A line that is refused, or read through a null pointer.
LEMMA RefusedKeeps ==
    ASSUME result' \in {"refused", "fault"}, Off(argv')
    PROVE  IInv'
  BY DEF IInv

LEMMA ReadingKeeps ==
    ASSUME NEW f \in Formats, NEW t \in Transforms, result' = "reading", Meant(f, t)'
    PROVE  IInv'
  BY DEF IInv

\* What was read already, when t is still to come.
LEMMA MeantIs ==
    ASSUME NEW f \in Formats, NEW t \in Transforms, Meant(f, t)
    PROVE  /\ argv = f \o t /\ argv \in Seq(Strings)
           /\ tdef => t = <<>> /\ argv = f
           /\ ~tdef => t # <<>>
           /\ idef <=> ~Contains(f, "-i")
           /\ odef <=> ~Contains(f, "-o")
           /\ (ibirp /\ obirp) <=> (~Contains(f, "pgm") /\ ~Contains(f, "ascii"))
  <1>1. f \in Seq(Strings) /\ t \in Seq(Strings)
    BY FormatIs, TransformIs
  <1>2. argv = f \o t /\ (tdef <=> t = <<>>)
    BY DEF Meant
  <1>3. argv \in Seq(Strings) /\ (t = <<>> => argv = f)
    BY <1>1, <1>2, Joined
  <1>4. (idef <=> ~Contains(f, "-i")) /\ (odef <=> ~Contains(f, "-o"))
    BY ContainsSaid DEF Meant
  <1>5. (ibirp /\ obirp) <=> (~Contains(f, "pgm") /\ ~Contains(f, "ascii"))
    <2>1. ibirp <=> "pgm" \notin Said(f, "-i")
      BY DEF Meant
    <2>2. obirp <=> ("pgm" \notin Said(f, "-o") /\ "ascii" \notin Said(f, "-o"))
      BY DEF Meant
    <2> QED
      BY <2>1, <2>2, ContainsSaid
  <1> QED
    BY <1>2, <1>3, <1>4, <1>5

\* Two ways a word leads nowhere.
LEMMA WordOff ==
    ASSUME NEW f \in Formats, NEW t \in Transforms, Meant(f, t), NEW x \in Strings,
           argv' = argv \o <<x>>, \A b : ~GoesOn(f, t, x, b), x # "-h" \/ argv # <<>>,
           result' \in {"refused", "fault"}
    PROVE  IInv'
  <1>1. argv = f \o t
    BY MeantIs
  <1>2. Off(argv')
    BY <1>1, OffWord
  <1> QED
    BY <1>2, RefusedKeeps

LEMMA PairOff ==
    ASSUME NEW f \in Formats, NEW t \in Transforms, Meant(f, t), NEW x \in Strings, NEW y \in Strings,
           argv' = argv \o <<x, y>>, ~GoesOn(f, t, x, y),
           result' \in {"refused", "fault"}
    PROVE  IInv'
  <1>1. argv = f \o t
    BY MeantIs
  <1>2. Off(argv')
    BY <1>1, OffPair
  <1> QED
    BY <1>2, RefusedKeeps

LEMMA HelpKeeps ==
    ASSUME IInv, result = "reading", Help
    PROVE  IInv'
  <1>1. PICK f \in Formats, t \in Transforms : Meant(f, t)
    BY DEF IInv
  <1>2. argv \in Seq(Strings) /\ argv' = argv \o <<"-h">> /\ "-h" \in Strings
    BY <1>1, MeantIs, WordsAre DEF Help, Read, Strings
  <1>3. CASE argv = <<>>
    <2>1. argv' = <<"-h">> /\ result' = "accepted" /\ global_options' = HELP_OPTION
      BY <1>2, <1>3 DEF Help
    <2> QED
      BY <2>1 DEF IInv, Ended
  <1>4. CASE argv # <<>>
    <2>1. result' = "refused"
      BY <1>4 DEF Help, Refuse
    <2>2. \A b : ~GoesOn(f, t, "-h", b)
      BY DEF GoesOn, NoWord, Kinds
    <2> QED
      BY <1>1, <1>2, <1>4, <2>1, <2>2, WordOff
  <1> QED
    BY <1>3, <1>4

LEMMA OtherKeeps ==
    ASSUME IInv, result = "reading", Other
    PROVE  IInv'
  <1>1. PICK f \in Formats, t \in Transforms : Meant(f, t)
    BY DEF IInv
  <1>2. PICK w \in Words \ Options : argv' = argv \o <<w>> /\ result' = "fault"
    BY DEF Other, Read, Fault
  <1>3. w \in Strings /\ w # "-h" /\ w # NoWord /\ w \notin Kinds \cup {"-i", "-o"}
    BY <1>2, NoWordIsNoWord DEF Options, Kinds
  <1>4. \A b : ~GoesOn(f, t, w, b)
    BY <1>3 DEF GoesOn
  <1> QED
    BY <1>1, <1>2, <1>3, <1>4, WordOff

LEMMA InputKeeps ==
    ASSUME IInv, result = "reading", Input
    PROVE  IInv'
  <1>1. PICK f \in Formats, t \in Transforms : Meant(f, t)
    BY DEF IInv
  <1>2. "-i" \in Strings /\ NoWord \in Strings /\ NoWord \notin {"pgm", "birp"}
    BY WordsAre DEF Strings, NoWord
  <1>3. CASE ~(tdef /\ idef) /\ argv' = argv \o <<"-i">> /\ result' = "refused"
    <2>1. t # <<>> \/ Contains(f, "-i")
      BY <1>1, <1>3, MeantIs
    <2>2. \A b : ~GoesOn(f, t, "-i", b)
      BY <2>1 DEF GoesOn, NoWord
    <2> QED
      BY <1>1, <1>2, <1>3, <2>2, WordOff
  <1>4. CASE argv' = argv \o <<"-i", NoWord>> /\ result' = "fault"
    <2>1. ~GoesOn(f, t, "-i", NoWord)
      BY <1>2 DEF GoesOn
    <2> QED
      BY <1>1, <1>2, <1>4, <2>1, PairOff
  <1>5. ASSUME NEW w \in Words, argv' = argv \o <<"-i", w>>, w \notin {"pgm", "birp"},
               result' = "refused"
        PROVE  IInv'
    <2>1. ~GoesOn(f, t, "-i", w) /\ w \in Strings
      BY <1>5 DEF GoesOn, Strings
    <2> QED
      BY <1>1, <1>2, <1>5, <2>1, PairOff
  <1>6. ASSUME NEW w \in {"pgm", "birp"}, argv' = argv \o <<"-i", w>>, tdef /\ idef,
               result' = result,
               global_options' = global_options \cup (IF w = "pgm" THEN {0} ELSE {1}),
               ibirp' = (w = "birp"), idef' = FALSE, UNCHANGED <<obirp, odef, tdef>>
        PROVE  IInv'
    <2> DEFINE g == f \o <<"-i", w>>
    <2>1. t = <<>> /\ argv = f /\ Said(f, "-i") = {}
      BY <1>1, <1>6, MeantIs DEF Meant
    <2>2. g \in Formats /\ Said(g, "-i") = {w} /\ Said(g, "-o") = Said(f, "-o")
      BY <2>1, MoreFormats
    <2>3. argv' = g /\ g \in Seq(Strings)
      BY <1>6, <2>1, <2>2, FormatIs
    <2> HIDE DEF g
    <2>4. argv' = g \o <<>> /\ <<>> \in Transforms
      BY <2>3 DEF Transforms
    <2>5. global_options' = Given(Said(g, "-i"), IBits) \cup Given(Said(g, "-o"), OBits)
                            \cup TransformBits(<<>>)
      <3>1. global_options = Given({}, IBits) \cup Given(Said(f, "-o"), OBits) \cup TransformBits(<<>>)
        BY <1>1, <2>1 DEF Meant
      <3>2. Given({w}, IBits) = IF w = "pgm" THEN {0} ELSE {1}
        BY GivenOne, FormatBits
      <3>3. Given({}, IBits) = {}
        BY GivenOne
      <3> QED
        BY <1>6, <2>2, <3>1, <3>2, <3>3
    <2>6. /\ tdef' /\ ~idef' /\ (odef' <=> Said(g, "-o") = {})
          /\ obirp' <=> Said(g, "-o") \cap {"pgm", "ascii"} = {}
      BY <1>1, <1>6, <2>2 DEF Meant
    <2>7. ibirp' <=> "pgm" \notin Said(g, "-i")
      <3>1. ibirp' <=> w = "birp"
        BY <1>6, Zenon
      <3>2. w = "birp" <=> "pgm" \notin {w}
        OBVIOUS
      <3> QED
        BY <2>2, <3>1, <3>2
    <2>8. idef' <=> Said(g, "-i") = {}
      BY <2>2, <2>6
    <2>9. Meant(g, <<>>)'
      BY <2>4, <2>5, <2>6, <2>7, <2>8 DEF Meant
    <2> QED
      BY <1>6, <2>2, <2>4, <2>9, ReadingKeeps
  <1>7. \/ ~(tdef /\ idef) /\ argv' = argv \o <<"-i">> /\ result' = "refused"
        \/ argv' = argv \o <<"-i", NoWord>> /\ result' = "fault"
        \/ /\ tdef /\ idef
           /\ \E w \in Words :
                 /\ argv' = argv \o <<"-i", w>>
                 /\ IF w \notin {"pgm", "birp"} THEN result' = "refused"
                    ELSE /\ global_options' = global_options \cup (IF w = "pgm" THEN {0} ELSE {1})
                         /\ result' = result /\ ibirp' = (w = "birp") /\ idef' = FALSE
                         /\ UNCHANGED <<obirp, odef, tdef>>
    BY DEF Input, WithWord, Read, Refuse, Fault, Set
  <1> QED
    BY <1>3, <1>4, <1>5, <1>6, <1>7

LEMMA OutputKeeps ==
    ASSUME IInv, result = "reading", Output
    PROVE  IInv'
  <1> DEFINE Out == {"pgm", "birp", "ascii"}
             bits(w) == CASE w = "pgm" -> {4} [] w = "birp" -> {5} [] w = "ascii" -> {4, 5}
  <1>1. PICK f \in Formats, t \in Transforms : Meant(f, t)
    BY DEF IInv
  <1>2. "-o" \in Strings /\ NoWord \in Strings /\ NoWord \notin Out
    BY WordsAre DEF Strings, NoWord
  <1>3. CASE ~(tdef /\ odef) /\ argv' = argv \o <<"-o">> /\ result' = "refused"
    <2>1. t # <<>> \/ Contains(f, "-o")
      BY <1>1, <1>3, MeantIs
    <2>2. \A b : ~GoesOn(f, t, "-o", b)
      BY <2>1 DEF GoesOn, NoWord
    <2> QED
      BY <1>1, <1>2, <1>3, <2>2, WordOff
  <1>4. CASE argv' = argv \o <<"-o", NoWord>> /\ result' = "fault"
    <2>1. ~GoesOn(f, t, "-o", NoWord)
      BY <1>2 DEF GoesOn
    <2> QED
      BY <1>1, <1>2, <1>4, <2>1, PairOff
  <1>5. ASSUME NEW w \in Words, argv' = argv \o <<"-o", w>>, w \notin Out, result' = "refused"
        PROVE  IInv'
    <2>1. ~GoesOn(f, t, "-o", w) /\ w \in Strings
      BY <1>5 DEF GoesOn, Strings
    <2> QED
      BY <1>1, <1>2, <1>5, <2>1, PairOff
  <1>6. ASSUME NEW w \in Out, argv' = argv \o <<"-o", w>>, tdef /\ odef, result' = result,
               global_options' = global_options \cup bits(w),
               obirp' = (w = "birp"), odef' = FALSE, UNCHANGED <<ibirp, idef, tdef>>
        PROVE  IInv'
    <2> DEFINE g == f \o <<"-o", w>>
    <2>1. t = <<>> /\ argv = f /\ Said(f, "-o") = {}
      BY <1>1, <1>6, MeantIs DEF Meant
    <2>2. g \in Formats /\ Said(g, "-o") = {w} /\ Said(g, "-i") = Said(f, "-i")
      BY <2>1, MoreFormats
    <2>3. argv' = g /\ g \in Seq(Strings)
      BY <1>6, <2>1, <2>2, FormatIs
    <2> HIDE DEF g
    <2>4. argv' = g \o <<>> /\ <<>> \in Transforms
      BY <2>3 DEF Transforms
    <2>5. global_options' = Given(Said(g, "-i"), IBits) \cup Given(Said(g, "-o"), OBits)
                            \cup TransformBits(<<>>)
      <3>1. global_options = Given(Said(f, "-i"), IBits) \cup Given({}, OBits) \cup TransformBits(<<>>)
        BY <1>1, <2>1 DEF Meant
      <3>2. Given({w}, OBits) = bits(w)
        BY GivenOne, FormatBits
      <3>3. Given({}, OBits) = {}
        BY GivenOne
      <3> HIDE DEF bits
      <3> QED
        BY <1>6, <2>2, <3>1, <3>2, <3>3
    <2>6. /\ tdef' /\ ~odef' /\ (idef' <=> Said(g, "-i") = {})
          /\ ibirp' <=> "pgm" \notin Said(g, "-i")
      BY <1>1, <1>6, <2>2 DEF Meant
    <2>7. obirp' <=> Said(g, "-o") \cap {"pgm", "ascii"} = {}
      <3>1. obirp' <=> w = "birp"
        BY <1>6, Zenon
      <3>2. w = "birp" <=> {w} \cap {"pgm", "ascii"} = {}
        OBVIOUS
      <3> QED
        BY <2>2, <3>1, <3>2
    <2>8. odef' <=> Said(g, "-o") = {}
      BY <2>2, <2>6
    <2>9. Meant(g, <<>>)'
      BY <2>4, <2>5, <2>6, <2>7, <2>8 DEF Meant
    <2> QED
      BY <1>6, <2>2, <2>4, <2>9, ReadingKeeps
  <1>7. \/ ~(tdef /\ odef) /\ argv' = argv \o <<"-o">> /\ result' = "refused"
        \/ argv' = argv \o <<"-o", NoWord>> /\ result' = "fault"
        \/ /\ tdef /\ odef
           /\ \E w \in Words :
                 /\ argv' = argv \o <<"-o", w>>
                 /\ IF w \notin Out THEN result' = "refused"
                    ELSE /\ global_options' = global_options \cup bits(w)
                         /\ result' = result /\ obirp' = (w = "birp") /\ odef' = FALSE
                         /\ UNCHANGED <<ibirp, idef, tdef>>
    BY DEF Output, WithWord, Read, Refuse, Fault, Set
  <1> HIDE DEF bits
  <1> QED
    BY <1>3, <1>4, <1>5, <1>6, <1>7

-----------------------------------------------------------------------------
(* The transformations. *)
LEMMA NoTransform ==
    ASSUME NEW f \in Formats, NEW t \in Transforms, Meant(f, t), ~MayTransform, NEW x \in Kinds
    PROVE  \A b : ~GoesOn(f, t, x, b)
  <1>1. t # <<>> \/ Contains(f, "pgm") \/ Contains(f, "ascii")
    BY MeantIs DEF MayTransform
  <1> QED
    BY <1>1 DEF GoesOn, NoWord, Kinds

LEMMA TransformKeeps ==
    ASSUME result = "reading", NEW f \in Formats, NEW t \in Transforms, Meant(f, t),
           NEW u \in Transforms, u # <<>>,
           MayTransform, argv' = argv \o u, Transform(TransformBits(u))
    PROVE  IInv'
  <1>1. t = <<>> /\ argv = f
    BY MeantIs DEF MayTransform
  <1>2. /\ global_options' = global_options \cup TransformBits(u) /\ result' = "reading"
        /\ tdef' = FALSE /\ UNCHANGED <<ibirp, obirp, idef, odef>>
    BY DEF Transform, Set
  <1>3. argv' = f \o u
    BY <1>1
  <1>4. global_options' = Given(Said(f, "-i"), IBits) \cup Given(Said(f, "-o"), OBits)
                          \cup TransformBits(u)
    <2>1. global_options = Given(Said(f, "-i"), IBits) \cup Given(Said(f, "-o"), OBits)
                           \cup TransformBits(<<>>)
      BY <1>1 DEF Meant
    <2>2. TransformBits(<<>>) = {}
      BY TransformBitsAre
    <2> QED
      BY <1>2, <2>1, <2>2
  <1>5. ibirp /\ obirp
    BY DEF MayTransform
  <1>6. /\ ibirp' /\ obirp' /\ ~tdef'
        /\ idef' <=> Said(f, "-i") = {}
        /\ odef' <=> Said(f, "-o") = {}
        /\ ibirp' <=> "pgm" \notin Said(f, "-i")
        /\ obirp' <=> Said(f, "-o") \cap {"pgm", "ascii"} = {}
    BY <1>2, <1>5 DEF Meant
  <1>7. Meant(f, u)'
    BY <1>3, <1>4, <1>6 DEF Meant
  <1> QED
    BY <1>2, <1>7, ReadingKeeps

LEMMA PlainKeeps ==
    ASSUME IInv, result = "reading",
           NEW option \in {"-n", "-r"}, NEW bits, bits = TransformBits(<<option>>), Plain(option, bits)
    PROVE  IInv'
  <1>1. PICK f \in Formats, t \in Transforms : Meant(f, t)
    BY DEF IInv
  <1>2. option \in Strings /\ option \in Kinds /\ <<option>> \in Transforms /\ <<option>> # <<>> /\ option # "-h"
    BY WordsAre DEF Strings, Kinds, Transforms
  <1>3. argv' = argv \o <<option>>
    BY DEF Plain, Read
  <1>4. CASE MayTransform
    <2>1. Transform(TransformBits(<<option>>))
      BY <1>4 DEF Plain
    <2> QED
      BY <1>1, <1>2, <1>3, <1>4, <2>1, TransformKeeps
  <1>5. CASE ~MayTransform
    <2>1. result' = "refused"
      BY <1>5 DEF Plain, Refuse
    <2> QED
      BY <1>1, <1>2, <1>3, <1>5, <2>1, NoTransform, WordOff
  <1> QED
    BY <1>4, <1>5

\* The words that the number of a transformation may be.
NumbersOf(option) == IF option = "-t" THEN UpTo(255) ELSE UpTo(16)

LEMMA NumberKeeps ==
    ASSUME IInv, result = "reading", NEW option \in {"-t", "-z", "-Z"},
           \/ ~MayTransform /\ argv' = argv \o <<option>> /\ result' = "refused"
           \/ argv' = argv \o <<option, NoWord>> /\ result' = "fault"
           \/ /\ MayTransform
              /\ \E w \in Words :
                    /\ argv' = argv \o <<option, w>>
                    /\ IF w \in NumbersOf(option) THEN Transform(TransformBits(<<option, w>>))
                       ELSE result' = "refused"
    PROVE  IInv'
  <1>1. PICK f \in Formats, t \in Transforms : Meant(f, t)
    BY DEF IInv
  <1>2. option \in Strings /\ option \in Kinds /\ NoWord \in Strings /\ option # "-h"
    BY WordsAre DEF Strings, Kinds
  <1>3. NoWord \notin NumbersOf(option)
    BY NoWordIsNoWord DEF NumbersOf
  <1>4. ASSUME NEW w, w \notin NumbersOf(option) PROVE ~GoesOn(f, t, option, w)
    BY <1>4 DEF GoesOn, NumbersOf
  <1>5. CASE ~MayTransform /\ argv' = argv \o <<option>> /\ result' = "refused"
    BY <1>1, <1>2, <1>5, NoTransform, WordOff
  <1>6. CASE argv' = argv \o <<option, NoWord>> /\ result' = "fault"
    BY <1>1, <1>2, <1>3, <1>4, <1>6, PairOff
  <1>7. ASSUME MayTransform, NEW w \in Words, argv' = argv \o <<option, w>>,
               w \in NumbersOf(option), Transform(TransformBits(<<option, w>>))
        PROVE  IInv'
    <2>1. <<option, w>> \in Transforms /\ <<option, w>> # <<>>
      BY <1>7 DEF NumbersOf, Transforms
    <2> QED
      BY <1>1, <1>7, <2>1, TransformKeeps
  <1>8. ASSUME NEW w \in Words, argv' = argv \o <<option, w>>, w \notin NumbersOf(option),
               result' = "refused"
        PROVE  IInv'
    <2>1. w \in Strings
      BY NoWordIsNoWord
    <2> QED
      BY <1>1, <1>2, <1>4, <1>8, <2>1, PairOff
  <1> QED
    BY <1>5, <1>6, <1>7, <1>8

LEMMA ThresholdKeeps ==
    ASSUME IInv, result = "reading", Threshold
    PROVE  IInv'
  <1>1. \/ ~MayTransform /\ argv' = argv \o <<"-t">> /\ result' = "refused"
        \/ argv' = argv \o <<"-t", NoWord>> /\ result' = "fault"
        \/ /\ MayTransform
           /\ \E w \in Words :
                 /\ argv' = argv \o <<"-t", w>>
                 /\ IF w \in UpTo(255) THEN Transform({9} \cup Shifted(atoiReplacement(w)))
                    ELSE result' = "refused"
    BY DEF Threshold, WithWord, Read, Refuse, Fault
  <1>2. \A w : TransformBits(<<"-t", w>>) = {9} \cup Shifted(atoiReplacement(w))
    BY TransformBitsAre
  <1>3. \A w : w \in UpTo(255) => w \in NumbersOf("-t")
    BY DEF NumbersOf
  <1>4. \A w : w \notin UpTo(255) => w \notin NumbersOf("-t")
    BY DEF NumbersOf
  <1> QED
    BY <1>1, <1>2, <1>3, <1>4, NumberKeeps

LEMMA ZoomOutKeeps ==
    ASSUME IInv, result = "reading", ZoomOut
    PROVE  IInv'
  <1>1. \/ ~MayTransform /\ argv' = argv \o <<"-z">> /\ result' = "refused"
        \/ argv' = argv \o <<"-z", NoWord>> /\ result' = "fault"
        \/ /\ MayTransform
           /\ \E w \in Words :
                 /\ argv' = argv \o <<"-z", w>>
                 /\ IF w \in UpTo(16) THEN Transform({8, 9} \cup Shifted(Shrink(atoiReplacement(w))))
                    ELSE result' = "refused"
    BY DEF ZoomOut, WithWord, Read, Refuse, Fault
  <1>2. \A w : TransformBits(<<"-z", w>>) = {8, 9} \cup Shifted(Shrink(atoiReplacement(w)))
    BY TransformBitsAre
  <1>3. NumbersOf("-z") = UpTo(16)
    BY DEF NumbersOf
  <1> QED
    BY <1>1, <1>2, <1>3, NumberKeeps

LEMMA ZoomInKeeps ==
    ASSUME IInv, result = "reading", ZoomIn
    PROVE  IInv'
  <1>1. \/ ~MayTransform /\ argv' = argv \o <<"-Z">> /\ result' = "refused"
        \/ argv' = argv \o <<"-Z", NoWord>> /\ result' = "fault"
        \/ /\ MayTransform
           /\ \E w \in Words :
                 /\ argv' = argv \o <<"-Z", w>>
                 /\ IF w \in UpTo(16) THEN Transform({8, 9} \cup Shifted(atoiReplacement(w)))
                    ELSE result' = "refused"
    BY DEF ZoomIn, WithWord, Read, Refuse, Fault
  <1>2. \A w : TransformBits(<<"-Z", w>>) = {8, 9} \cup Shifted(atoiReplacement(w))
    BY TransformBitsAre
  <1>3. NumbersOf("-Z") = UpTo(16)
    BY DEF NumbersOf
  <1> QED
    BY <1>1, <1>2, <1>3, NumberKeeps

\* The end of the line: what was not said is birp.
LEMMA EndKeeps ==
    ASSUME IInv, result = "reading", End
    PROVE  IInv'
  <1>1. PICK f \in Formats, t \in Transforms : Meant(f, t)
    BY DEF IInv
  <1>2. argv' = argv \o <<NoWord>> /\ NoWord \in Strings /\ NoWord # "-h"
    BY NoWordIsNoWord DEF End, Read, NoWord
  <1>3. argv = f \o t /\ f \in Seq(Strings) /\ t \in Seq(Strings)
    BY <1>1, FormatIs, TransformIs DEF Meant
  <1>4. CASE argv = <<>>
    <2>1. result' = "refused"
      BY <1>4 DEF End
    <2>2. f = <<>> /\ t = <<>>
      <3>1. Len(f \o t) = Len(f) + Len(t) /\ Len(f) \in Nat /\ Len(t) \in Nat /\ Len(f \o t) = 0
        <4>1. f \o t = <<>> /\ Len(f) \in Nat /\ Len(t) \in Nat
          BY <1>3, <1>4
        <4>2. Len(f \o t) = Len(f) + Len(t)
          BY <1>3
        <4> QED
          BY <4>1, <4>2
      <3>2. Len(f) = 0 /\ Len(t) = 0
        BY <3>1
      <3> QED
        BY <1>3, <3>2
    <2>3. \A b : ~GoesOn(f, t, NoWord, b)
      BY <2>2 DEF GoesOn
    <2> QED
      BY <1>1, <1>2, <2>1, <2>3, WordOff
  <1>5. CASE argv # <<>>
    <2> DEFINE l == <<f, t>>
    <2>1. l[1] = f /\ l[2] = t /\ l \in Formats \X Transforms
      OBVIOUS
    <2> HIDE DEF l
    <2>2. t # <<>> => ~Contains(f, "pgm") /\ ~Contains(f, "ascii")
      BY <1>1, MeantIs DEF Meant
    <2>3. l \in Lines
      BY <1>3, <1>5, <2>1, <2>2 DEF Lines, Usage
    <2>4. argv' = Written(l)
      BY <1>2, <1>3, <2>1 DEF Written
    <2>5. /\ result' = "accepted"
          /\ global_options' = global_options \cup (IF idef THEN {1} ELSE {})
                                              \cup (IF odef THEN {5} ELSE {})
      BY <1>5 DEF End
    <2>6. Given(Said(f, "-i"), IBits) \cup (IF idef THEN {1} ELSE {})
              = Given(Default(Said(f, "-i")), IBits)
      <3>1. idef <=> Said(f, "-i") = {}
        BY <1>1 DEF Meant
      <3>2. Given({}, IBits) = {} /\ Given({"birp"}, IBits) = {1}
        BY GivenOne, FormatBits
      <3> QED
        BY <3>1, <3>2 DEF Default
    <2>7. Given(Said(f, "-o"), OBits) \cup (IF odef THEN {5} ELSE {})
              = Given(Default(Said(f, "-o")), OBits)
      <3>1. odef <=> Said(f, "-o") = {}
        BY <1>1 DEF Meant
      <3>2. Given({}, OBits) = {} /\ Given({"birp"}, OBits) = {5}
        <4>1. Given({}, OBits) = {} /\ Given({"birp"}, OBits) = OBits["birp"]
          BY GivenOne
        <4> QED
          BY <4>1, FormatBits
      <3> QED
        BY <3>1, <3>2 DEF Default
    <2>8. global_options = Given(Said(f, "-i"), IBits) \cup Given(Said(f, "-o"), OBits)
                           \cup TransformBits(t)
      BY <1>1 DEF Meant
    <2>9. global_options' = LineBits(l)
      BY <2>1, <2>5, <2>6, <2>7, <2>8 DEF LineBits
    <2> QED
      BY <2>3, <2>4, <2>5, <2>9 DEF IInv, Ended
  <1> QED
    BY <1>4, <1>5

LEMMA MainKeeps ==
    ASSUME IInv, main
    PROVE  IInv'
  <1>1. result \in {"refused", "accepted"} /\ UNCHANGED <<argv, global_options>>
    BY DEF main
  <1>2. CASE result = "refused"
    <2>1. result' = "usage failed"
      BY <1>2 DEF main
    <2> QED
      BY <2>1 DEF IInv
  <1>3. CASE result = "accepted"
    <2>1. Ended'
      BY <1>1, <1>3 DEF IInv, Ended
    <2>2. CASE HELP_OPTION \subseteq global_options
      <3>1. result' = "usage"
        BY <1>3, <2>2 DEF main
      <3> QED
        BY <1>1, <2>1, <2>2, <3>1 DEF IInv
    <2>3. CASE ~(HELP_OPTION \subseteq global_options)
      <3>1. result' = "birp_to_birp"
        BY <1>3, <2>3 DEF main
      <3> QED
        BY <1>1, <2>1, <2>3, <3>1 DEF IInv
    <2> QED
      BY <2>2, <2>3
  <1> QED
    BY <1>1, <1>2, <1>3

LEMMA StepKeeps ==
    ASSUME IInv, [Next]_vars
    PROVE  IInv'
  <1>1. CASE validargs
    <2>1. result = "reading"
      BY <1>1 DEF validargs
    <2>2. {8} = TransformBits(<<"-n">>) /\ {10} = TransformBits(<<"-r">>)
      BY TransformBitsAre
    <2>3. CASE Help
      BY <2>1, <2>3, HelpKeeps
    <2>4. CASE Input
      BY <2>1, <2>4, InputKeeps
    <2>5. CASE Output
      BY <2>1, <2>5, OutputKeeps
    <2>6. CASE Plain("-n", {8})
      BY <2>1, <2>2, <2>6, PlainKeeps
    <2>7. CASE Plain("-r", {10})
      BY <2>1, <2>2, <2>7, PlainKeeps
    <2>8. CASE Threshold
      BY <2>1, <2>8, ThresholdKeeps
    <2>9. CASE ZoomOut
      BY <2>1, <2>9, ZoomOutKeeps
    <2>10. CASE ZoomIn
      BY <2>1, <2>10, ZoomInKeeps
    <2>11. CASE Other
      BY <2>1, <2>11, OtherKeeps
    <2>12. CASE End
      BY <2>1, <2>12, EndKeeps
    <2> QED
      BY <1>1, <2>3, <2>4, <2>5, <2>6, <2>7, <2>8, <2>9, <2>10, <2>11, <2>12 DEF validargs
  <1>2. CASE main
    BY <1>2, MainKeeps
  <1>3. CASE UNCHANGED vars
    BY <1>3 DEF IInv, Meant, Ended, vars, flags
  <1> QED
    BY <1>1, <1>2, <1>3 DEF Next

LEMMA InitHolds ==
    ASSUME Init
    PROVE  IInv
  <1>1. <<>> \in Formats /\ <<>> \in Transforms /\ <<>> \o <<>> = <<>>
    BY DEF Formats, Transforms
  <1>2. Said(<<>>, "-i") = {} /\ Said(<<>>, "-o") = {}
    BY <1>1, SaidIs
  <1>3. Given({}, IBits) = {} /\ Given({}, OBits) = {} /\ TransformBits(<<>>) = {}
    BY GivenOne, TransformBitsAre
  <1>4. Meant(<<>>, <<>>)
    BY <1>1, <1>2, <1>3 DEF Init, Meant
  <1> QED
    BY <1>1, <1>4 DEF Init, IInv

LEMMA Invariance == Spec => []IInv
  BY InitHolds, StepKeeps, PTL DEF Spec

\* Whatever the length of the command line, validargs accepts the lines of
\* USAGE and -h, no others, and refuses at the first word after which none of
\* them can follow.
THEOREM AcceptsUsage == Spec => []Accepts
  <1>1. IInv => Accepts
    <2> SUFFICES ASSUME IInv PROVE Accepts
      OBVIOUS
    <2>1. result = "accepted" => argv = <<"-h">> \/ \E l \in Lines : argv = Written(l)
      BY DEF IInv, Ended
    <2>2. result \in {"refused", "fault"} =>
              \A l \in Lines : ~IsPrefix(argv, Written(l)) /\ argv # <<"-h">>
      BY DEF IInv, Off
    <2> QED
      BY <2>1, <2>2 DEF Accepts
  <1> QED
    BY <1>1, Invariance, PTL

-----------------------------------------------------------------------------
(* The bits of a transformation. *)
LEMMA SetBits ==
    ASSUME NEW v
    PROVE  /\ Shifted(v) \subseteq 16..31
           /\ \A j \in 0..15 : 16 + j \in Shifted(v) <=> (v \div Power[j]) % 2 = 1
  <1> DEFINE B == {j \in 0..15 : (v \div Power[j]) % 2 = 1}
  <1>1. Shifted(v) = {16 + k : k \in B}
    BY ShiftedIs
  <1>2. \A j \in 0..15 : j \in B <=> (v \div Power[j]) % 2 = 1
    BY Zenon
  <1>3. B \subseteq 0..15
    BY Zenon
  <1> HIDE DEF B
  <1>4. \A j \in 0..15 : 16 + j \in Shifted(v) <=> j \in B
    BY <1>1, <1>3
  <1>5. Shifted(v) \subseteq 16..31
    BY <1>1, <1>3
  <1> QED
    BY <1>2, <1>4, <1>5, Zenon

\* The sixteenth is that of a negative number.
LEMMA HighBit ==
    ASSUME NEW v \in Int, v >= -15, v <= 255
    PROVE  31 \in Shifted(v) <=> v < 0
  <1>1. 31 \in Shifted(v) <=> (v \div Power[15]) % 2 = 1
    <2>1. 16 + 15 = 31 /\ 15 \in 0..15
      OBVIOUS
    <2>2. 16 + 15 \in Shifted(v) <=> (v \div Power[15]) % 2 = 1
      BY <2>1, SetBits, Zenon
    <2> QED
      BY <2>1, <2>2, Zenon
  <1>2. Power[15] = 32768
    BY Powers
  <1>3. (v \div 32768) % 2 = 1 <=> v < 0
    OBVIOUS
  <1> DEFINE q(d) == (v \div d) % 2 = 1
  <1>4. 31 \in Shifted(v) <=> q(Power[15])
    BY <1>1, Zenon
  <1>5. q(32768) <=> v < 0
    BY <1>3
  <1> HIDE DEF q
  <1> QED
    BY <1>2, <1>4, <1>5

LEMMA UpToIs ==
    ASSUME NEW max \in Nat, NEW w \in UpTo(max)
    PROVE  atoiReplacement(w) \in Int /\ atoiReplacement(w) >= 0 /\ atoiReplacement(w) <= max
  BY DEF UpTo

LEMMA KindsAre ==
    ASSUME NEW t \in Transforms
    PROVE  KindOf(t) \subseteq {8, 9, 10}
  <1>1. t # <<>> => t[1] \in {"-n", "-r", "-t", "-z", "-Z"}
    <2>1. t \in Seq(Strings) /\ Len(t) \in {0, 1, 2}
      BY TransformIs
    <2>2. t # <<>> => Len(t) \in {1, 2}
      BY <2>1
    <2> QED
      BY <2>2, TransformIs
  <1>2. CASE t = <<>>
    BY <1>2 DEF KindOf
  <1>3. CASE t # <<>>
    BY <1>1, <1>3 DEF KindOf
  <1> QED
    BY <1>2, <1>3

LEMMA ParameterIs ==
    ASSUME NEW t \in Transforms
    PROVE  /\ ParameterOf(t) \in Int /\ ParameterOf(t) >= -15 /\ ParameterOf(t) <= 255
           /\ ParameterOf(t) < 0 <=> Len(t) = 2 /\ t[1] = "-z" /\ atoiReplacement(t[2]) > 1
  <1>1. Len(t) \in {0, 1, 2} /\ (Len(t) = 2 => \/ t[1] = "-t" /\ t[2] \in UpTo(255)
                                               \/ t[1] \in {"-z", "-Z"} /\ t[2] \in UpTo(16))
    BY TransformIs
  <1>2. CASE Len(t) # 2
    <2>1. ParameterOf(t) = 0
      BY <1>1, <1>2 DEF ParameterOf
    <2> QED
      BY <1>2, <2>1
  <1>3. CASE Len(t) = 2
    <2> DEFINE v == atoiReplacement(t[2])
    <2>1. v \in Int /\ v >= 0 /\ ((v <= 255 /\ t[1] = "-t") \/ (v <= 16 /\ t[1] \in {"-z", "-Z"}))
      BY <1>1, <1>3, UpToIs
    <2>2. ParameterOf(t) = IF t[1] = "-z" THEN 1 - v ELSE v
      BY <1>3 DEF ParameterOf
    <2> HIDE DEF v
    <2>3. /\ ParameterOf(t) \in Int /\ ParameterOf(t) >= -15 /\ ParameterOf(t) <= 255
          /\ ParameterOf(t) < 0 <=> t[1] = "-z" /\ v > 1
      BY <2>1, <2>2
    <2> QED
      BY <1>3, <2>3 DEF v
  <1> QED
    BY <1>2, <1>3

\* What a line sets: the formats, the kind and the parameter keep apart.
LEMMA FormatBitsApart ==
    ASSUME NEW f \in Formats
    PROVE  /\ Given(Default(Said(f, "-i")), IBits) \subseteq {0, 1}
           /\ Given(Default(Said(f, "-o")), OBits) \subseteq {4, 5}
  <1>1. /\ f \in Seq(Strings) /\ Len(f) \in {0, 2, 4}
        /\ Len(f) >= 2 => Names(f, 1)
        /\ Len(f) = 4 => Names(f, 3) /\ f[1] # f[3]
    BY FormatIs
  <1>2. /\ Len(f) >= 2 => (f[1] = "-i" /\ f[2] \in {"pgm", "birp"}) \/ (f[1] = "-o" /\ f[2] \in {"pgm", "birp", "ascii"})
        /\ Len(f) = 4 => (f[3] = "-i" /\ f[4] \in {"pgm", "birp"}) \/ (f[3] = "-o" /\ f[4] \in {"pgm", "birp", "ascii"})
    BY <1>1 DEF Names
  <1>3. Said(f, "-i") \subseteq {"pgm", "birp"}
    <2>1. Said(f, "-i") = (IF Len(f) >= 2 /\ f[1] = "-i" THEN {f[2]} ELSE {})
                          \cup (IF Len(f) = 4 /\ f[3] = "-i" THEN {f[4]} ELSE {})
      BY SaidIs
    <2> QED
      BY <1>2, <2>1
  <1>4. Said(f, "-o") \subseteq {"pgm", "birp", "ascii"}
    <2>1. Said(f, "-o") = (IF Len(f) >= 2 /\ f[1] = "-o" THEN {f[2]} ELSE {})
                          \cup (IF Len(f) = 4 /\ f[3] = "-o" THEN {f[4]} ELSE {})
      BY SaidIs
    <2> QED
      BY <1>2, <2>1
  <1>5. ASSUME NEW S, S \subseteq {"pgm", "birp"} PROVE Given(S, IBits) \subseteq {0, 1}
    <2>1. ASSUME NEW x \in Given(S, IBits) PROVE x \in {0, 1}
      <3>1. PICK w \in S : x \in IBits[w]
        BY DEF Given
      <3> QED
        BY <1>5, <3>1, FormatBits
    <2> QED
      BY <2>1
  <1>6. ASSUME NEW S, S \subseteq {"pgm", "birp", "ascii"} PROVE Given(S, OBits) \subseteq {4, 5}
    <2>1. ASSUME NEW x \in Given(S, OBits) PROVE x \in {4, 5}
      <3>1. PICK w \in S : x \in OBits[w]
        BY DEF Given
      <3> QED
        BY <1>6, <3>1, FormatBits
    <2> QED
      BY <2>1
  <1> QED
    BY <1>3, <1>4, <1>5, <1>6 DEF Default

LEMMA LineHelps ==
    ASSUME NEW l \in Lines
    PROVE  HELP_OPTION \subseteq LineBits(l)
               <=> Len(l[2]) = 2 /\ l[2][1] = "-z" /\ atoiReplacement(l[2][2]) > 1
  <1>1. l[1] \in Formats /\ l[2] \in Transforms
    BY DEF Lines, Usage
  <1>2. HELP_OPTION \subseteq LineBits(l) <=> 31 \in LineBits(l)
    BY DEF HELP_OPTION
  <1>3. 31 \in LineBits(l) <=> 31 \in Shifted(ParameterOf(l[2]))
    <2>1. 31 \notin {0, 1} /\ 31 \notin {4, 5} /\ 31 \notin {8, 9, 10}
      OBVIOUS
    <2> QED
      BY <1>1, <2>1, FormatBitsApart, KindsAre, Zenon DEF LineBits, TransformBits
  <1> QED
    BY <1>1, <1>2, <1>3, HighBit, ParameterIs

LEMMA SuffixIs ==
    ASSUME NEW W \in Seq(Strings), NEW x \in Strings, NEW y \in Strings, NEW z \in Strings
    PROVE  IsSuffix(<<x, y, z>>, W)
               <=> Len(W) >= 3 /\ W[Len(W) - 2] = x /\ W[Len(W) - 1] = y /\ W[Len(W)] = z
  <1> DEFINE s == <<x, y, z>>
             n == Len(W)
             R == Reverse(W)
             Q == Reverse(s)
  <1>1. n \in Nat
    OBVIOUS
  <1>11. s \in Seq(Strings) /\ Len(s) = 3 /\ s[1] = x /\ s[2] = y /\ s[3] = z
    OBVIOUS
  <1> HIDE DEF s
  <1>2. R = [i \in 1..n |-> W[(n - i) + 1]] /\ Q = [i \in 1..3 |-> s[(3 - i) + 1]]
    BY <1>11 DEF Reverse
  <1>3. \A i \in 1..n : W[(n - i) + 1] \in Strings
    BY <1>1
  <1>4. R \in Seq(Strings) /\ Len(R) = n
    BY <1>1, <1>2, <1>3
  <1>5. Q \in Seq(Strings) /\ Len(Q) = 3 /\ Q[1] = z /\ Q[2] = y /\ Q[3] = x
    <2>1. \A i \in 1..3 : s[(3 - i) + 1] \in Strings
      BY <1>11
    <2>2. Q \in Seq(Strings) /\ Len(Q) = 3
      BY <1>2, <2>1
    <2>3. Q[1] = s[(3 - 1) + 1] /\ Q[2] = s[(3 - 2) + 1] /\ Q[3] = s[(3 - 3) + 1]
      BY <1>2
    <2> QED
      BY <1>11, <2>2, <2>3
  <1>6. n >= 3 => R[1] = W[n] /\ R[2] = W[n - 1] /\ R[3] = W[n - 2]
    BY <1>1, <1>2
  <1> HIDE DEF R, Q
  <1>7. IsPrefix(Q, R) <=> 3 <= n /\ \A i \in 1..3 : Q[i] = R[i]
    <2> DEFINE u == SubSeq(Q, 1, 3)
               v == SubSeq(R, 1, 3)
    <2>1. IsPrefix(Q, R) <=> 3 <= n /\ u = v
      BY <1>4, <1>5 DEF IsPrefix
    <2>2. CASE 3 <= n
      <3>1. u \in Seq(Strings) /\ Len(u) = 3 /\ \A i \in 1..3 : u[i] = Q[i]
        <4>1. \A i \in 1..3 : Q[i] \in Strings
          BY <1>5
        <4>2. u \in Seq(Strings) /\ Len(u) = 3 - 1 + 1 /\ \A i \in 1..(3 - 1 + 1) : u[i] = Q[1 + i - 1]
          BY <4>1, SubSeqProperties
        <4> QED
          BY <4>2
      <3>2. v \in Seq(Strings) /\ Len(v) = 3 /\ \A i \in 1..3 : v[i] = R[i]
        <4>1. \A i \in 1..3 : R[i] \in Strings
          BY <1>1, <1>4, <2>2
        <4>2. v \in Seq(Strings) /\ Len(v) = 3 - 1 + 1 /\ \A i \in 1..(3 - 1 + 1) : v[i] = R[1 + i - 1]
          BY <4>1, SubSeqProperties
        <4> QED
          BY <4>2
      <3> HIDE DEF u, v
      <3>3. u = v <=> \A i \in 1..3 : u[i] = v[i]
        BY <3>1, <3>2
      <3> QED
        BY <2>1, <2>2, <3>1, <3>2, <3>3
    <2> QED
      BY <2>1, <2>2
  <1>8. (\A i \in 1..3 : Q[i] = R[i]) <=> Q[1] = R[1] /\ Q[2] = R[2] /\ Q[3] = R[3]
    OBVIOUS
  <1>9. IsSuffix(s, W) <=> IsPrefix(Q, R)
    BY DEF IsSuffix, Q, R
  <1>10. IsSuffix(s, W) <=> n >= 3 /\ W[n - 2] = x /\ W[n - 1] = y /\ W[n] = z
    BY <1>1, <1>5, <1>6, <1>7, <1>8, <1>9
  <1> QED
    BY <1>10 DEF s

\* The line W, made of the formats F and the transformation T.
MadeOf(W, F, T) ==
    /\ F \in Formats /\ T \in Transforms /\ F \o T # <<>>
    /\ W \in Seq(Strings) /\ Len(W) = Len(F) + Len(T) + 1
    /\ \A i \in 1..Len(F) : W[i] = F[i]
    /\ \A i \in 1..Len(T) : W[Len(F) + i] = T[i]
    /\ W[Len(F) + Len(T) + 1] = NoWord
    /\ Len(F) \in {0, 2, 4} /\ Len(T) \in {0, 1, 2} /\ (Len(F) # 0 \/ Len(T) # 0)

LEMMA LineIs ==
    ASSUME NEW l \in Lines
    PROVE  MadeOf(Written(l), l[1], l[2])
  <1> DEFINE F == l[1]
             T == l[2]
  <1>1. F \in Formats /\ T \in Transforms /\ F \o T # <<>> /\ Written(l) = F \o T \o <<NoWord>>
    BY DEF Lines, Usage, Written
  <1> HIDE DEF F, T
  <1>2. F \in Seq(Strings) /\ T \in Seq(Strings) /\ NoWord \in Strings
    BY <1>1, FormatIs, TransformIs, NoWordIsNoWord
  <1>3. Len(F) \in {0, 2, 4} /\ Len(T) \in {0, 1, 2}
    BY <1>1, FormatIs, TransformIs
  <1>4. Len(F) # 0 \/ Len(T) # 0
    <2>1. ASSUME Len(F) = 0, Len(T) = 0 PROVE F = <<>> /\ T = <<>>
      BY <1>2, <2>1
    <2>2. <<>> \o <<>> = <<>>
      OBVIOUS
    <2> QED
      BY <1>1, <2>1, <2>2, Zenon
  <1> DEFINE W == Written(l)
  <1>5. W = F \o T \o <<NoWord>>
    BY <1>1
  <1> HIDE DEF W
  <1>6. /\ W \in Seq(Strings) /\ Len(W) = Len(F) + Len(T) + 1
        /\ \A i \in 1..Len(F) : W[i] = F[i]
        /\ \A i \in 1..Len(T) : W[Len(F) + i] = T[i]
        /\ W[Len(F) + Len(T) + 1] = NoWord
    <2>1. W \in Seq(Strings)
      BY <1>2, <1>5
    <2>2. /\ Len(W) = Len(F) + Len(T) + 1
          /\ \A i \in 1..Len(F) : W[i] = F[i]
          /\ \A i \in 1..Len(T) : W[Len(F) + i] = T[i]
          /\ W[Len(F) + Len(T) + 1] = NoWord
      BY <1>2, <1>3, <1>5, Places
    <2> QED
      BY <2>1, <2>2
  <1> QED
    <2>1. MadeOf(W, F, T)
      BY <1>1, <1>3, <1>4, <1>6 DEF MadeOf
    <2> QED
      BY <2>1 DEF W, F, T

LEMMA ZoomsOut ==
    ASSUME NEW l \in Lines, NEW w \in Words
    PROVE  IsSuffix(<<"-z", w, NoWord>>, Written(l))
               <=> Len(l[2]) = 2 /\ l[2][1] = "-z" /\ l[2][2] = w
  <1> DEFINE W == Written(l)
             F == l[1]
             T == l[2]
  <1>0. MadeOf(W, F, T)
    BY LineIs
  <1> HIDE DEF W, F, T
  <1>1. /\ F \in Formats /\ T \in Transforms
        /\ W \in Seq(Strings) /\ Len(W) = Len(F) + Len(T) + 1
        /\ \A i \in 1..Len(F) : W[i] = F[i]
        /\ \A i \in 1..Len(T) : W[Len(F) + i] = T[i]
        /\ W[Len(F) + Len(T) + 1] = NoWord
        /\ Len(F) \in {0, 2, 4} /\ Len(T) \in {0, 1, 2} /\ (Len(F) # 0 \/ Len(T) # 0)
    BY <1>0 DEF MadeOf
  <1>2. "-z" \in Strings /\ w \in Strings /\ NoWord \in Strings
    BY WordsAre DEF Strings
  <1>3. IsSuffix(<<"-z", w, NoWord>>, W)
            <=> Len(W) >= 3 /\ W[Len(W) - 2] = "-z" /\ W[Len(W) - 1] = w /\ W[Len(W)] = NoWord
    <2>1. W \in Seq(Strings)
      BY <1>1
    <2> HIDE DEF W
    <2> QED
      BY <1>2, <2>1, SuffixIs
  <1>4. /\ Len(F) >= 2 => Names(F, 1)
        /\ Len(F) = 4 => Names(F, 3)
        /\ Len(T) = 1 => T[1] \in {"-n", "-r"}
    BY <1>1, FormatIs, TransformIs
  <1>5. CASE Len(T) = 2
    <2>1. Len(W) = Len(F) + 3 /\ W[Len(F) + 1] = T[1] /\ W[Len(F) + 2] = T[2] /\ W[Len(F) + 3] = NoWord
      BY <1>1, <1>5
    <2>2. Len(W) - 2 = Len(F) + 1 /\ Len(W) - 1 = Len(F) + 2 /\ Len(W) >= 3
      BY <1>1, <2>1
    <2> QED
      BY <1>3, <1>5, <2>1, <2>2 DEF W, F, T
  <1>6. CASE Len(T) # 2
    <2>1. SUFFICES ASSUME Len(W) >= 3, W[Len(W) - 2] = "-z" PROVE FALSE
      BY <1>3, <1>6 DEF W, F, T
    <2>2. \/ Len(F) = 2 /\ Len(W) - 2 \in {1, 2}
          \/ Len(F) = 4 /\ Len(W) - 2 \in {3, 4}
      <3> DEFINE m == Len(F)
                 n == Len(T)
                 k == Len(W)
      <3>1. m \in {0, 2, 4} /\ n \in {0, 1} /\ k = m + n + 1 /\ k >= 3
        BY <1>1, <1>6, <2>1
      <3> HIDE DEF m, n, k
      <3>2. (m = 2 /\ k - 2 \in {1, 2}) \/ (m = 4 /\ k - 2 \in {3, 4})
        BY <3>1
      <3> QED
        BY <3>2 DEF m, k
    <2>3. CASE Len(F) = 2 /\ Len(W) - 2 \in {1, 2}
      <3>1. W[1] = F[1] /\ W[2] = F[2] /\ Names(F, 1)
        BY <1>1, <1>4, <2>3
      <3>2. F[1] \in {"-i", "-o"} /\ F[1 + 1] \in {"pgm", "birp", "ascii"}
        BY <3>1 DEF Names
      <3>3. W[1] # "-z" /\ W[2] # "-z"
        BY <3>1, <3>2
      <3>4. CASE Len(W) - 2 = 1
        BY <2>1, <3>3, <3>4
      <3>5. CASE Len(W) - 2 = 2
        BY <2>1, <3>3, <3>5
      <3> QED
        BY <2>3, <3>4, <3>5
    <2>4. CASE Len(F) = 4 /\ Len(W) - 2 \in {3, 4}
      <3>1. W[3] = F[3] /\ W[4] = F[4] /\ Names(F, 3)
        BY <1>1, <1>4, <2>4
      <3>2. F[3] \in {"-i", "-o"} /\ F[3 + 1] \in {"pgm", "birp", "ascii"}
        BY <3>1 DEF Names
      <3>3. W[3] # "-z" /\ W[4] # "-z"
        BY <3>1, <3>2
      <3>4. CASE Len(W) - 2 = 3
        BY <2>1, <3>3, <3>4
      <3>5. CASE Len(W) - 2 = 4
        BY <2>1, <3>3, <3>5
      <3> QED
        BY <2>4, <3>4, <3>5
    <2> QED
      BY <2>2, <2>3, <2>4
  <1> QED
    BY <1>5, <1>6

\* Which accepted lines are answered with the help, and success: -h, and each one
\* that zooms out by two or more.
HelpShown ==
    result \in {"usage", "birp_to_birp"} =>
        (result = "usage" <=>
             argv = <<"-h">> \/ \E w \in UpTo(16) : atoiReplacement(w) > 1 /\ IsSuffix(<<"-z", w, NoWord>>, argv))

\* What refutes HelpAsked holds of every line, however long: a zoom out by two or
\* more, for which const.h:26 promises a smaller raster, is always answered with the
\* help, because its negated factor reaches the bit of HELP_OPTION; no other line is.
THEOREM HelpForZoomOut == Spec => []HelpShown
  <1>1. IInv => HelpShown
    <2> DEFINE zoomed == \E w \in UpTo(16) : atoiReplacement(w) > 1 /\ IsSuffix(<<"-z", w, NoWord>>, argv)
    <2> SUFFICES ASSUME IInv, result \in {"usage", "birp_to_birp"}
                 PROVE  result = "usage" <=> argv = <<"-h">> \/ zoomed
      BY DEF HelpShown
    <2>1. Ended /\ (result = "usage" <=> HELP_OPTION \subseteq global_options)
      BY DEF IInv
    <2>2. CASE argv = <<"-h">> /\ global_options = HELP_OPTION
      BY <2>1, <2>2
    <2>3. ASSUME NEW l \in Lines, argv = Written(l), global_options = LineBits(l)
          PROVE  result = "usage" <=> argv = <<"-h">> \/ zoomed
      <3> DEFINE t == l[2]
      <3>1. result = "usage" <=> Len(t) = 2 /\ t[1] = "-z" /\ atoiReplacement(t[2]) > 1
        BY <2>1, <2>3, LineHelps
      <3>2. argv # <<"-h">>
        <4> DEFINE F == l[1]
        <4>3. MadeOf(Written(l), F, t)
          BY LineIs
        <4> HIDE DEF F, t
        <4>2. /\ Len(Written(l)) = Len(F) + Len(t) + 1
              /\ Len(F) \in {0, 2, 4} /\ Len(t) \in {0, 1, 2} /\ (Len(F) # 0 \/ Len(t) # 0)
          BY <4>3 DEF MadeOf
        <4>1. Len(argv) >= 2
          BY <2>3, <4>2
        <4> QED
          BY <4>1
      <3>3. ASSUME NEW w \in UpTo(16)
            PROVE  IsSuffix(<<"-z", w, NoWord>>, argv) <=> Len(t) = 2 /\ t[1] = "-z" /\ t[2] = w
        <4>1. w \in Words
          BY NoWordIsNoWord
        <4> QED
          BY <2>3, <4>1, ZoomsOut
      <3>4. Len(t) = 2 /\ t[1] = "-z" => t[2] \in UpTo(16)
        <4>1. t \in Transforms
          BY LineIs DEF MadeOf
        <4> HIDE DEF t
        <4> QED
          BY <4>1, TransformIs
      <3> HIDE DEF t
      <3> QED
        BY <3>1, <3>2, <3>3, <3>4
    <2> HIDE DEF zoomed
    <2> QED
      BY <2>1, <2>2, <2>3 DEF Ended
  <1> QED
    BY <1>1, Invariance, PTL

-----------------------------------------------------------------------------
(* The parameter, as the sum of its bits. *)
LEMMA OneLine ==
    ASSUME NEW l \in Lines, NEW m \in Lines, Written(l) = Written(m)
    PROVE  l = m
  <1> DEFINE W == Written(l)
             F == l[1]
             T == l[2]
             G == m[1]
             U == m[2]
  <1>1. MadeOf(W, F, T) /\ MadeOf(W, G, U)
    BY LineIs
  <1> HIDE DEF W, F, T, G, U
  <1>2. ASSUME NEW A, NEW B, NEW C, NEW D, MadeOf(W, A, B), MadeOf(W, C, D) PROVE ~(Len(A) < Len(C))
    <2> SUFFICES ASSUME Len(A) < Len(C) PROVE FALSE
      OBVIOUS
    <2>1. /\ Len(W) = Len(A) + Len(B) + 1
          /\ \A i \in 1..Len(B) : W[Len(A) + i] = B[i]
          /\ W[Len(A) + Len(B) + 1] = NoWord
          /\ Len(A) \in {0, 2, 4} /\ Len(B) \in {0, 1, 2}
          /\ A \in Formats /\ B \in Transforms
      BY <1>2 DEF MadeOf
    <2>2. /\ \A i \in 1..Len(C) : W[i] = C[i]
          /\ Len(C) \in {0, 2, 4} /\ C \in Formats
      BY <1>2 DEF MadeOf
    <2>3. W[Len(A) + 1] \in Kinds \cup {NoWord}
      <3>1. CASE Len(B) = 0
        BY <2>1, <3>1
      <3>2. CASE Len(B) # 0
        <4>1. B[1] \in Kinds /\ 1 \in 1..Len(B)
          BY <2>1, <3>2, TransformIs DEF Kinds
        <4> QED
          BY <2>1, <4>1
      <3> QED
        BY <3>1, <3>2
    <2>4. W[Len(A) + 1] \in {"-i", "-o"}
      <3>1. Len(C) >= 2 /\ Len(A) + 1 \in 1..Len(C) /\ (Len(A) = 0 \/ (Len(A) = 2 /\ Len(C) = 4))
        BY <2>1, <2>2, Evens
      <3>2. W[Len(A) + 1] = C[Len(A) + 1]
        BY <2>2, <3>1
      <3>3. (Len(C) >= 2 => Names(C, 1)) /\ (Len(C) = 4 => Names(C, 3))
        BY <2>2, FormatIs
      <3>4. CASE Len(A) = 0
        BY <3>1, <3>2, <3>3, <3>4 DEF Names
      <3>5. CASE Len(A) = 2 /\ Len(C) = 4
        BY <3>2, <3>3, <3>5 DEF Names
      <3> QED
        BY <3>1, <3>4, <3>5
    <2> QED
      BY <2>3, <2>4 DEF Kinds, NoWord
  <1>3. /\ F \in Formats /\ T \in Transforms /\ G \in Formats /\ U \in Transforms
        /\ Len(W) = Len(F) + Len(T) + 1 /\ Len(W) = Len(G) + Len(U) + 1
        /\ \A i \in 1..Len(F) : W[i] = F[i]
        /\ \A i \in 1..Len(T) : W[Len(F) + i] = T[i]
        /\ \A i \in 1..Len(G) : W[i] = G[i]
        /\ \A i \in 1..Len(U) : W[Len(G) + i] = U[i]
    BY <1>1 DEF MadeOf
  <1>4. F \in Seq(Strings) /\ T \in Seq(Strings) /\ G \in Seq(Strings) /\ U \in Seq(Strings)
    BY <1>3, FormatIs, TransformIs
  <1>5. Len(F) = Len(G) /\ Len(T) = Len(U)
    <2>1. ~(Len(F) < Len(G)) /\ ~(Len(G) < Len(F))
      BY <1>1, <1>2
    <2>2. Len(F) \in Nat /\ Len(G) \in Nat /\ Len(T) \in Nat /\ Len(U) \in Nat
      BY <1>4
    <2> QED
      BY <1>3, <2>1, <2>2
  <1>6. F = G
    <2>1. \A i \in 1..Len(F) : F[i] = G[i]
      BY <1>3, <1>5
    <2> QED
      BY <1>4, <1>5, <2>1
  <1>7. T = U
    <2>1. \A i \in 1..Len(T) : T[i] = U[i]
      BY <1>3, <1>5
    <2> QED
      BY <1>4, <1>5, <2>1
  <1>8. l = <<F, T>> /\ m = <<G, U>>
    BY DEF Lines, Usage, F, T, G, U
  <1> QED
    BY <1>6, <1>7, <1>8

Adds(h, T) ==
    h = [s \in SUBSET T |-> IF s = {} THEN 0 ELSE LET x == CHOOSE x \in s : TRUE IN x + h[s \ {x}]]

PowersOfTwo == {1, 2, 4, 8, 16, 32, 64, 128,
                256, 512, 1024, 2048, 4096, 8192, 16384, 32768}

\* The sum of a set of powers of two, term by term.
Total(s) ==
      (IF 1 \in s THEN 1 ELSE 0) + (IF 2 \in s THEN 2 ELSE 0)
    + (IF 4 \in s THEN 4 ELSE 0) + (IF 8 \in s THEN 8 ELSE 0)
    + (IF 16 \in s THEN 16 ELSE 0) + (IF 32 \in s THEN 32 ELSE 0)
    + (IF 64 \in s THEN 64 ELSE 0) + (IF 128 \in s THEN 128 ELSE 0)
    + (IF 256 \in s THEN 256 ELSE 0) + (IF 512 \in s THEN 512 ELSE 0)
    + (IF 1024 \in s THEN 1024 ELSE 0) + (IF 2048 \in s THEN 2048 ELSE 0)
    + (IF 4096 \in s THEN 4096 ELSE 0) + (IF 8192 \in s THEN 8192 ELSE 0)
    + (IF 16384 \in s THEN 16384 ELSE 0) + (IF 32768 \in s THEN 32768 ELSE 0)

LEMMA SumIs ==
    ASSUME NEW T
    PROVE  SumSet(T) = (CHOOSE h : Adds(h, T))[T]
  BY DEF SumSet, FoldSet, MapThenFoldSet, Adds

LEMMA TotalGrows ==
    ASSUME NEW s, NEW x \in s, x \in PowersOfTwo
    PROVE  Total(s) = x + Total(s \ {x}) /\ Total(s) \in Nat
  <1>1. CASE x = 1
    BY <1>1 DEF Total
  <1>2. CASE x = 2
    BY <1>2 DEF Total
  <1>3. CASE x = 4
    BY <1>3 DEF Total
  <1>4. CASE x = 8
    BY <1>4 DEF Total
  <1>5. CASE x = 16
    BY <1>5 DEF Total
  <1>6. CASE x = 32
    BY <1>6 DEF Total
  <1>7. CASE x = 64
    BY <1>7 DEF Total
  <1>8. CASE x = 128
    BY <1>8 DEF Total
  <1>9. CASE x = 256
    BY <1>9 DEF Total
  <1>10. CASE x = 512
    BY <1>10 DEF Total
  <1>11. CASE x = 1024
    BY <1>11 DEF Total
  <1>12. CASE x = 2048
    BY <1>12 DEF Total
  <1>13. CASE x = 4096
    BY <1>13 DEF Total
  <1>14. CASE x = 8192
    BY <1>14 DEF Total
  <1>15. CASE x = 16384
    BY <1>15 DEF Total
  <1>16. CASE x = 32768
    BY <1>16 DEF Total
  <1> QED
    BY <1>1, <1>2, <1>3, <1>4, <1>5, <1>6, <1>7, <1>8, <1>9, <1>10, <1>11, <1>12, <1>13, <1>14, <1>15, <1>16 DEF PowersOfTwo

LEMMA TotalIsSum ==
    ASSUME NEW T, T \subseteq PowersOfTwo
    PROVE  SumSet(T) = Total(T)
  <1> DEFINE h == CHOOSE h : Adds(h, T)
             g == [s \in SUBSET T |-> Total(s)]
  <1>1. Total({}) = 0
    BY DEF Total
  <1>2. ASSUME NEW s \in SUBSET T, s # {}
        PROVE  LET x == CHOOSE x \in s : TRUE
               IN  x \in s /\ x \in Nat /\ x > 0 /\ s \ {x} \in SUBSET T
                   /\ Total(s) = x + Total(s \ {x}) /\ Total(s) \in Nat
    <2> DEFINE x == CHOOSE x \in s : TRUE
    <2>1. x \in s
      BY <1>2
    <2> HIDE DEF x
    <2>2. x \in PowersOfTwo
      BY <2>1
    <2>3. x \in Nat /\ x > 0
      BY <2>2 DEF PowersOfTwo
    <2>4. Total(s) = x + Total(s \ {x}) /\ Total(s) \in Nat
      BY <2>1, <2>2, TotalGrows
    <2>5. s \ {x} \in SUBSET T
      OBVIOUS
    <2> QED
      BY <2>1, <2>3, <2>4, <2>5 DEF x
  <1>3. Adds(g, T)
    <2> HIDE DEF g
    <2>1. \A s \in SUBSET T : g[s] = Total(s)
      BY DEF g
    <2>2. ASSUME NEW s \in SUBSET T
          PROVE  g[s] = IF s = {} THEN 0 ELSE LET x == CHOOSE x \in s : TRUE IN x + g[s \ {x}]
      <3>1. CASE s = {}
        BY <1>1, <2>1, <3>1
      <3>2. CASE s # {}
        <4> DEFINE x == CHOOSE x \in s : TRUE
        <4>1. s \ {x} \in SUBSET T /\ Total(s) = x + Total(s \ {x})
          BY <1>2, <3>2
        <4> HIDE DEF x
        <4>2. g[s] = x + g[s \ {x}]
          BY <2>1, <4>1
        <4> QED
          BY <3>2, <4>2 DEF x
      <3> QED
        BY <3>1, <3>2
    <2>3. g = [s \in SUBSET T |-> g[s]]
      BY DEF g
    <2> DEFINE e(s) == IF s = {} THEN 0 ELSE LET x == CHOOSE x \in s : TRUE IN x + g[s \ {x}]
    <2>4. \A s \in SUBSET T : g[s] = e(s)
      BY <2>2
    <2> HIDE DEF e
    <2>5. g = [s \in SUBSET T |-> e(s)]
      BY <2>3, <2>4
    <2> QED
      BY <2>5 DEF Adds, e
  <1>4. Adds(h, T)
    BY <1>3
  <1> HIDE DEF h, g
  <1>5. ASSUME NEW s \in SUBSET T
        PROVE  h[s] = IF s = {} THEN 0 ELSE LET x == CHOOSE x \in s : TRUE IN x + h[s \ {x}]
    BY <1>4 DEF Adds
  <1>6. \A s \in SUBSET T : h[s] = Total(s)
    <2> DEFINE Bad == {n \in Nat : \E s \in SUBSET T : n = Total(s) /\ h[s] # Total(s)}
    <2>1. SUFFICES Bad = {}
      <3>1. ASSUME Bad = {}, NEW s \in SUBSET T PROVE h[s] = Total(s)
        <4>1. Total(s) \in Nat
          <5>1. CASE s = {}
            BY <1>1, <5>1
          <5>2. CASE s # {}
            BY <1>2, <5>2
          <5> QED
            BY <5>1, <5>2
        <4> QED
          BY <3>1, <4>1
      <3> QED
        BY <3>1
    <2>2. SUFFICES ASSUME Bad # {} PROVE FALSE
      OBVIOUS
    <2>3. IsWellFoundedOn(OpToRel(<, Nat), Nat)
      BY NatLessThanWellFounded
    <2>4. PICK n \in Bad : \A m \in Bad : ~(<<m, n>> \in OpToRel(<, Nat))
      <3>1. Bad \subseteq Nat
        OBVIOUS
      <3> HIDE DEF Bad
      <3> QED
        BY <2>2, <2>3, <3>1, WFMin, Zenon
    <2>5. \A m \in Bad : ~(m < n)
      BY <2>4 DEF OpToRel
    <2>6. PICK s \in SUBSET T : n = Total(s) /\ h[s] # Total(s)
      OBVIOUS
    <2>7. s # {}
      BY <1>1, <1>5, <2>6
    <2> DEFINE x == CHOOSE x \in s : TRUE
    <2>8. /\ x \in s /\ x \in Nat /\ x > 0 /\ s \ {x} \in SUBSET T
          /\ Total(s) = x + Total(s \ {x}) /\ Total(s) \in Nat
      BY <1>2, <2>7
    <2>9. h[s] = x + h[s \ {x}]
      BY <1>5, <2>7
    <2> HIDE DEF x
    <2>10. h[s \ {x}] # Total(s \ {x})
      BY <2>6, <2>8, <2>9
    <2>11. Total(s \ {x}) \in Nat
      <3>1. CASE s \ {x} = {}
        BY <1>1, <3>1
      <3>2. CASE s \ {x} # {}
        BY <1>2, <2>8, <3>2
      <3> QED
        BY <3>1, <3>2
    <2>12. Total(s \ {x}) \in Bad
      BY <2>8, <2>10, <2>11
    <2> HIDE DEF Bad
    <2> QED
      BY <2>5, <2>6, <2>8, <2>11, <2>12
  <1>7. h[T] = Total(T)
    BY <1>6
  <1> QED
    BY <1>7, SumIs DEF h

\* Bit by bit, a number in its last sixteen.
BitOf(v, d) == IF (v \div d) % 2 = 1 THEN d ELSE 0

LEMMA Binary ==
    ASSUME NEW v \in Int
    PROVE  BitOf(v, 1) + BitOf(v, 2) + BitOf(v, 4) + BitOf(v, 8)
           + BitOf(v, 16) + BitOf(v, 32) + BitOf(v, 64) + BitOf(v, 128)
           + BitOf(v, 256) + BitOf(v, 512) + BitOf(v, 1024) + BitOf(v, 2048)
           + BitOf(v, 4096) + BitOf(v, 8192) + BitOf(v, 16384) + BitOf(v, 32768)
           = v % 65536
  <1> DEFINE part(d) == d * (v \div d)
             rest == v % 65536
             bit(d) == BitOf(v, d)
  <1>1. bit(1) \in Int /\ part(1) \in Int /\ part(2) \in Int /\ part(1) = part(2) + bit(1)
    BY DEF BitOf
  <1>2. bit(2) \in Int /\ part(2) \in Int /\ part(4) \in Int /\ part(2) = part(4) + bit(2)
    BY DEF BitOf
  <1>3. bit(4) \in Int /\ part(4) \in Int /\ part(8) \in Int /\ part(4) = part(8) + bit(4)
    BY DEF BitOf
  <1>4. bit(8) \in Int /\ part(8) \in Int /\ part(16) \in Int /\ part(8) = part(16) + bit(8)
    BY DEF BitOf
  <1>5. bit(16) \in Int /\ part(16) \in Int /\ part(32) \in Int /\ part(16) = part(32) + bit(16)
    BY DEF BitOf
  <1>6. bit(32) \in Int /\ part(32) \in Int /\ part(64) \in Int /\ part(32) = part(64) + bit(32)
    BY DEF BitOf
  <1>7. bit(64) \in Int /\ part(64) \in Int /\ part(128) \in Int /\ part(64) = part(128) + bit(64)
    BY DEF BitOf
  <1>8. bit(128) \in Int /\ part(128) \in Int /\ part(256) \in Int /\ part(128) = part(256) + bit(128)
    BY DEF BitOf
  <1>9. bit(256) \in Int /\ part(256) \in Int /\ part(512) \in Int /\ part(256) = part(512) + bit(256)
    BY DEF BitOf
  <1>10. bit(512) \in Int /\ part(512) \in Int /\ part(1024) \in Int /\ part(512) = part(1024) + bit(512)
    BY DEF BitOf
  <1>11. bit(1024) \in Int /\ part(1024) \in Int /\ part(2048) \in Int /\ part(1024) = part(2048) + bit(1024)
    BY DEF BitOf
  <1>12. bit(2048) \in Int /\ part(2048) \in Int /\ part(4096) \in Int /\ part(2048) = part(4096) + bit(2048)
    BY DEF BitOf
  <1>13. bit(4096) \in Int /\ part(4096) \in Int /\ part(8192) \in Int /\ part(4096) = part(8192) + bit(4096)
    BY DEF BitOf
  <1>14. bit(8192) \in Int /\ part(8192) \in Int /\ part(16384) \in Int /\ part(8192) = part(16384) + bit(8192)
    BY DEF BitOf
  <1>15. bit(16384) \in Int /\ part(16384) \in Int /\ part(32768) \in Int /\ part(16384) = part(32768) + bit(16384)
    BY DEF BitOf
  <1>16. bit(32768) \in Int /\ part(32768) \in Int /\ part(65536) \in Int /\ part(32768) = part(65536) + bit(32768)
    BY DEF BitOf
  <1>17. part(1) = v /\ part(65536) \in Int /\ rest \in Int /\ rest = v - part(65536)
    OBVIOUS
  <1> HIDE DEF part, rest, bit
  <1>18. part(1) = part(16) + bit(1) + bit(2) + bit(4) + bit(8)
    BY <1>1, <1>2, <1>3, <1>4
  <1>19. part(16) = part(256) + bit(16) + bit(32) + bit(64) + bit(128)
    BY <1>5, <1>6, <1>7, <1>8
  <1>20. part(256) = part(4096) + bit(256) + bit(512) + bit(1024) + bit(2048)
    BY <1>9, <1>10, <1>11, <1>12
  <1>21. part(4096) = part(65536) + bit(4096) + bit(8192) + bit(16384) + bit(32768)
    BY <1>13, <1>14, <1>15, <1>16
  <1>22. rest = bit(1) + bit(2) + bit(4) + bit(8)
         + bit(16) + bit(32) + bit(64) + bit(128)
         + bit(256) + bit(512) + bit(1024) + bit(2048)
         + bit(4096) + bit(8192) + bit(16384) + bit(32768)
    BY <1>1, <1>2, <1>3, <1>4, <1>5, <1>6, <1>7, <1>8, <1>9, <1>10, <1>11, <1>12, <1>13, <1>14, <1>15, <1>16, <1>17, <1>18, <1>19, <1>20, <1>21
  <1> QED
    BY <1>22 DEF rest, bit

LEMMA ParameterSum ==
    ASSUME NEW v \in Int
    PROVE  SumSet({2^(k - 16) : k \in Shifted(v)}) = v % 2^16
  <1> DEFINE T == {2^(k - 16) : k \in Shifted(v)}
             bit(d) == (v \div d) % 2 = 1
  <1>1. ASSUME NEW k \in 16..31 PROVE 2^(k - 16) = Power[k - 16]
    BY DEF Power
  <1>2. \A k \in Shifted(v) : k \in 16..31
    BY SetBits
  <1>3. T = {Power[k - 16] : k \in Shifted(v)}
    BY <1>1, <1>2
  <1>4. \A j \in 0..15 : 16 + j \in Shifted(v) <=> bit(Power[j])
    BY SetBits
  <1> HIDE DEF T, bit
  <1>5. ASSUME NEW j \in 0..15
        PROVE  \/ j = 0 \/ j = 1 \/ j = 2 \/ j = 3 \/ j = 4 \/ j = 5 \/ j = 6 \/ j = 7
               \/ j = 8 \/ j = 9 \/ j = 10 \/ j = 11 \/ j = 12 \/ j = 13 \/ j = 14 \/ j = 15
    OBVIOUS
  <1>6. T \subseteq PowersOfTwo
    <2>1. ASSUME NEW j \in 0..15 PROVE Power[j] \in PowersOfTwo
      BY <1>5, Powers DEF PowersOfTwo
    <2>2. ASSUME NEW k \in 16..31 PROVE k - 16 \in 0..15
      OBVIOUS
    <2> QED
      BY <1>2, <1>3, <2>1, <2>2
  <1>7. ASSUME NEW i \in 0..15, NEW j \in 0..15, Power[i] = Power[j] PROVE i = j
    BY <1>5, <1>7, Powers
  <1>8. ASSUME NEW j \in 0..15 PROVE Power[j] \in T <=> bit(Power[j])
    <2>1. ASSUME Power[j] \in T PROVE 16 + j \in Shifted(v)
      <3>1. PICK k \in Shifted(v) : Power[j] = Power[k - 16]
        BY <1>3, <2>1
      <3>2. k - 16 \in 0..15 /\ k \in 16..31
        BY <1>2
      <3>3. j = k - 16
        BY <1>7, <3>1, <3>2
      <3>4. k = 16 + j
        BY <3>2, <3>3
      <3> QED
        BY <3>4
    <2>2. ASSUME 16 + j \in Shifted(v) PROVE Power[j] \in T
      <3>1. (16 + j) - 16 = j
        OBVIOUS
      <3>2. Power[(16 + j) - 16] \in T
        BY <1>3, <2>2
      <3> QED
        BY <3>1, <3>2
    <2> QED
      BY <1>4, <2>1, <2>2
  <1>10. (IF 1 \in T THEN 1 ELSE 0) = BitOf(v, 1)
    <2>1. 1 \in T <=> bit(1)
      <3>1. Power[0] \in T <=> bit(Power[0])
        BY <1>8
      <3> QED
        BY <3>1, Powers
    <2> QED
      BY <2>1 DEF BitOf, bit
  <1>11. (IF 2 \in T THEN 2 ELSE 0) = BitOf(v, 2)
    <2>1. 2 \in T <=> bit(2)
      <3>1. Power[1] \in T <=> bit(Power[1])
        BY <1>8
      <3> QED
        BY <3>1, Powers
    <2> QED
      BY <2>1 DEF BitOf, bit
  <1>12. (IF 4 \in T THEN 4 ELSE 0) = BitOf(v, 4)
    <2>1. 4 \in T <=> bit(4)
      <3>1. Power[2] \in T <=> bit(Power[2])
        BY <1>8
      <3> QED
        BY <3>1, Powers
    <2> QED
      BY <2>1 DEF BitOf, bit
  <1>13. (IF 8 \in T THEN 8 ELSE 0) = BitOf(v, 8)
    <2>1. 8 \in T <=> bit(8)
      <3>1. Power[3] \in T <=> bit(Power[3])
        BY <1>8
      <3> QED
        BY <3>1, Powers
    <2> QED
      BY <2>1 DEF BitOf, bit
  <1>14. (IF 16 \in T THEN 16 ELSE 0) = BitOf(v, 16)
    <2>1. 16 \in T <=> bit(16)
      <3>1. Power[4] \in T <=> bit(Power[4])
        BY <1>8
      <3> QED
        BY <3>1, Powers
    <2> QED
      BY <2>1 DEF BitOf, bit
  <1>15. (IF 32 \in T THEN 32 ELSE 0) = BitOf(v, 32)
    <2>1. 32 \in T <=> bit(32)
      <3>1. Power[5] \in T <=> bit(Power[5])
        BY <1>8
      <3> QED
        BY <3>1, Powers
    <2> QED
      BY <2>1 DEF BitOf, bit
  <1>16. (IF 64 \in T THEN 64 ELSE 0) = BitOf(v, 64)
    <2>1. 64 \in T <=> bit(64)
      <3>1. Power[6] \in T <=> bit(Power[6])
        BY <1>8
      <3> QED
        BY <3>1, Powers
    <2> QED
      BY <2>1 DEF BitOf, bit
  <1>17. (IF 128 \in T THEN 128 ELSE 0) = BitOf(v, 128)
    <2>1. 128 \in T <=> bit(128)
      <3>1. Power[7] \in T <=> bit(Power[7])
        BY <1>8
      <3> QED
        BY <3>1, Powers
    <2> QED
      BY <2>1 DEF BitOf, bit
  <1>18. (IF 256 \in T THEN 256 ELSE 0) = BitOf(v, 256)
    <2>1. 256 \in T <=> bit(256)
      <3>1. Power[8] \in T <=> bit(Power[8])
        BY <1>8
      <3> QED
        BY <3>1, Powers
    <2> QED
      BY <2>1 DEF BitOf, bit
  <1>19. (IF 512 \in T THEN 512 ELSE 0) = BitOf(v, 512)
    <2>1. 512 \in T <=> bit(512)
      <3>1. Power[9] \in T <=> bit(Power[9])
        BY <1>8
      <3> QED
        BY <3>1, Powers
    <2> QED
      BY <2>1 DEF BitOf, bit
  <1>20. (IF 1024 \in T THEN 1024 ELSE 0) = BitOf(v, 1024)
    <2>1. 1024 \in T <=> bit(1024)
      <3>1. Power[10] \in T <=> bit(Power[10])
        BY <1>8
      <3> QED
        BY <3>1, Powers
    <2> QED
      BY <2>1 DEF BitOf, bit
  <1>21. (IF 2048 \in T THEN 2048 ELSE 0) = BitOf(v, 2048)
    <2>1. 2048 \in T <=> bit(2048)
      <3>1. Power[11] \in T <=> bit(Power[11])
        BY <1>8
      <3> QED
        BY <3>1, Powers
    <2> QED
      BY <2>1 DEF BitOf, bit
  <1>22. (IF 4096 \in T THEN 4096 ELSE 0) = BitOf(v, 4096)
    <2>1. 4096 \in T <=> bit(4096)
      <3>1. Power[12] \in T <=> bit(Power[12])
        BY <1>8
      <3> QED
        BY <3>1, Powers
    <2> QED
      BY <2>1 DEF BitOf, bit
  <1>23. (IF 8192 \in T THEN 8192 ELSE 0) = BitOf(v, 8192)
    <2>1. 8192 \in T <=> bit(8192)
      <3>1. Power[13] \in T <=> bit(Power[13])
        BY <1>8
      <3> QED
        BY <3>1, Powers
    <2> QED
      BY <2>1 DEF BitOf, bit
  <1>24. (IF 16384 \in T THEN 16384 ELSE 0) = BitOf(v, 16384)
    <2>1. 16384 \in T <=> bit(16384)
      <3>1. Power[14] \in T <=> bit(Power[14])
        BY <1>8
      <3> QED
        BY <3>1, Powers
    <2> QED
      BY <2>1 DEF BitOf, bit
  <1>25. (IF 32768 \in T THEN 32768 ELSE 0) = BitOf(v, 32768)
    <2>1. 32768 \in T <=> bit(32768)
      <3>1. Power[15] \in T <=> bit(Power[15])
        BY <1>8
      <3> QED
        BY <3>1, Powers
    <2> QED
      BY <2>1 DEF BitOf, bit
  <1>30. Total(T) = v % 65536
    <2> DEFINE c(d) == IF d \in T THEN d ELSE 0
    <2>1. Total(T) = c(1) + c(2) + c(4) + c(8)
                     + c(16) + c(32) + c(64) + c(128)
                     + c(256) + c(512) + c(1024) + c(2048)
                     + c(4096) + c(8192) + c(16384) + c(32768)
      BY DEF Total
    <2>2. c(1) = BitOf(v, 1)
      BY <1>10
    <2>3. c(2) = BitOf(v, 2)
      BY <1>11
    <2>4. c(4) = BitOf(v, 4)
      BY <1>12
    <2>5. c(8) = BitOf(v, 8)
      BY <1>13
    <2>6. c(16) = BitOf(v, 16)
      BY <1>14
    <2>7. c(32) = BitOf(v, 32)
      BY <1>15
    <2>8. c(64) = BitOf(v, 64)
      BY <1>16
    <2>9. c(128) = BitOf(v, 128)
      BY <1>17
    <2>10. c(256) = BitOf(v, 256)
      BY <1>18
    <2>11. c(512) = BitOf(v, 512)
      BY <1>19
    <2>12. c(1024) = BitOf(v, 1024)
      BY <1>20
    <2>13. c(2048) = BitOf(v, 2048)
      BY <1>21
    <2>14. c(4096) = BitOf(v, 4096)
      BY <1>22
    <2>15. c(8192) = BitOf(v, 8192)
      BY <1>23
    <2>16. c(16384) = BitOf(v, 16384)
      BY <1>24
    <2>17. c(32768) = BitOf(v, 32768)
      BY <1>25
    <2> HIDE DEF c
    <2>20. Total(T) = BitOf(v, 1) + BitOf(v, 2) + BitOf(v, 4) + BitOf(v, 8)
                      + BitOf(v, 16) + BitOf(v, 32) + BitOf(v, 64) + BitOf(v, 128)
                      + BitOf(v, 256) + BitOf(v, 512) + BitOf(v, 1024) + BitOf(v, 2048)
                      + BitOf(v, 4096) + BitOf(v, 8192) + BitOf(v, 16384) + BitOf(v, 32768)
      BY <2>1, <2>2, <2>3, <2>4, <2>5, <2>6, <2>7, <2>8, <2>9, <2>10, <2>11, <2>12, <2>13, <2>14, <2>15, <2>16, <2>17
    <2> QED
      BY <2>20, Binary
  <1>31. 2^16 = 65536
    OBVIOUS
  <1>32. SumSet(T) = Total(T)
    BY <1>6, TotalIsSum
  <1> QED
    BY <1>30, <1>31, <1>32 DEF T

\* Whatever the length of the command line, the bits of an accepted line say
\* what the line said: its formats, birp for those it does not give, the kind
\* of its transformation, and the parameter of that, in sixteen bits.
THEOREM BitsSayTheLine == Spec => []Decodes
  <1>1. IInv => Decodes
    <2> SUFFICES ASSUME IInv, NEW l \in Lines, result = "accepted", argv = Written(l)
                 PROVE  /\ global_options \cap {0, 1} = Given(Default(Said(l[1], "-i")), IBits)
                        /\ global_options \cap {4, 5} = Given(Default(Said(l[1], "-o")), OBits)
                        /\ global_options \cap 8..10 = KindOf(l[2])
                        /\ SumSet({2^(k - 16) : k \in global_options \cap 16..31})
                               = ParameterOf(l[2]) % 2^16
      BY DEF Decodes, Given, Default, Said, Two, IBits, OBits, KindOf, ParameterOf
    <2> DEFINE I == Given(Default(Said(l[1], "-i")), IBits)
               O == Given(Default(Said(l[1], "-o")), OBits)
               K == KindOf(l[2])
               P == Shifted(ParameterOf(l[2]))
    <2>1. l[1] \in Formats /\ l[2] \in Transforms
      BY DEF Lines, Usage
    <2>2. global_options = I \cup O \cup K \cup P
      <3>1. argv # <<"-h">>
        <4> DEFINE F == l[1]
                   T == l[2]
        <4>1. MadeOf(argv, F, T)
          BY LineIs
        <4> HIDE DEF F, T
        <4>2. Len(argv) >= 2
          BY <4>1 DEF MadeOf
        <4> QED
          BY <4>2
      <3>2. PICK m \in Lines : argv = Written(m) /\ global_options = LineBits(m)
        BY <3>1 DEF IInv, Ended
      <3>3. m = l
        BY <3>2, OneLine
      <3> QED
        BY <3>2, <3>3 DEF LineBits, TransformBits
    <2>3. I \subseteq {0, 1} /\ O \subseteq {4, 5} /\ K \subseteq {8, 9, 10} /\ P \subseteq 16..31
      BY <2>1, FormatBitsApart, KindsAre, SetBits
    <2>4. ParameterOf(l[2]) \in Int
      BY <2>1, ParameterIs
    <2>5. SumSet({2^(k - 16) : k \in P}) = ParameterOf(l[2]) % 2^16
      BY <2>4, ParameterSum
    <2> HIDE DEF I, O, K, P
    <2>6. global_options \cap {0, 1} = I
      <3>1. ASSUME NEW x \in O \cup K \cup P PROVE x \notin {0, 1}
        BY <2>3
      <3>2. I \subseteq {0, 1}
        BY <2>3
      <3>3. global_options = I \cup (O \cup K \cup P)
        BY <2>2, Zenon
      <3> QED
        BY <3>1, <3>2, <3>3, Zenon
    <2>7. global_options \cap {4, 5} = O
      <3>1. ASSUME NEW x \in I \cup K \cup P PROVE x \notin {4, 5}
        BY <2>3
      <3>2. O \subseteq {4, 5}
        BY <2>3
      <3>3. global_options = O \cup (I \cup K \cup P)
        BY <2>2, Zenon
      <3> QED
        BY <3>1, <3>2, <3>3, Zenon
    <2>8. global_options \cap 8..10 = K
      <3>1. ASSUME NEW x \in I \cup O \cup P PROVE x \notin 8..10
        BY <2>3
      <3>2. K \subseteq 8..10
        BY <2>3
      <3>3. global_options = K \cup (I \cup O \cup P)
        BY <2>2, Zenon
      <3> QED
        BY <3>1, <3>2, <3>3, Zenon
    <2>9. global_options \cap 16..31 = P
      <3>1. ASSUME NEW x \in I \cup O \cup K PROVE x \notin 16..31
        BY <2>3
      <3>2. P \subseteq 16..31
        BY <2>3
      <3>3. global_options = P \cup (I \cup O \cup K)
        BY <2>2, Zenon
      <3> QED
        BY <3>1, <3>2, <3>3, Zenon
    <2>10. SumSet({2^(k - 16) : k \in global_options \cap 16..31}) = ParameterOf(l[2]) % 2^16
      BY <2>5, <2>9
    <2> QED
      BY <2>6, <2>7, <2>8, <2>10 DEF I, O, K
  <1> QED
    BY <1>1, Invariance, PTL
=============================================================================

------------------------ MODULE ContextManagerProofs ------------------------
(* Theorems about ContextManager and the FactStore it uses: what a reload  *)
(* finds after any faults, whatever the facts are made of, and what the    *)
(* digest and the working sets can be relied on for.                       *)
EXTENDS ContextManager, FiniteSetTheorems, WellFoundedInduction, TLAPS

-----------------------------------------------------------------------------
(* Induction over a prefix of the numbers, and functions defined by it.    *)
LEMMA PrefixInduction ==
  ASSUME NEW m \in Nat, NEW S \in SUBSET Nat, 0 \in S,
         \A n \in 1..m : n - 1 \in S => n \in S
  PROVE  \A n \in 0..m : n \in S
<1> SUFFICES ASSUME NEW bad \in 0..m, bad \notin S PROVE FALSE
  OBVIOUS
<1> DEFINE Bad == {n \in Nat : n <= m /\ n \notin S}
<1>1. PICK k \in Bad : \A n \in Bad : ~ (<<n, k>> \in OpToRel(<, Nat))
  <2>1. bad \in Bad
    OBVIOUS
  <2> QED
    BY <2>1, NatLessThanWellFounded, WFMin
<1>2. \A n \in Bad : ~ (n < k)
  BY <1>1 DEF OpToRel
<1>3. k # 0 /\ k - 1 \in Nat /\ k - 1 < k /\ k \in 1..m /\ k - 1 <= m
  <2>1. k \in Nat /\ k <= m /\ k # 0
    OBVIOUS
  <2> QED
    BY <2>1
<1>4. k - 1 \in S
  BY <1>2, <1>3
<1> QED
  BY <1>1, <1>3, <1>4

Steps(V, m) == [1..m -> [V -> V]]

Recursion(f, V, b, m, step) ==
  /\ f \in [0..m -> V]
  /\ f[0] = b
  /\ \A n \in 1..m : f[n] = step[n][f[n - 1]]

LEMMA RecursionExists ==
  ASSUME NEW V, NEW b \in V, NEW m \in Nat, NEW step \in Steps(V, m)
  PROVE  \E f : Recursion(f, V, b, m, step)
<1> USE DEF Steps
<1> DEFINE Upto(n, f) == \A k \in 0..n : f[k] = IF k = 0 THEN b ELSE step[k][f[k - 1]]
           S == {n \in Nat : n <= m => \E f \in [0..n -> V] : Upto(n, f)}
<1>1. 0 \in S
  <2> DEFINE f == [k \in 0..0 |-> b]
  <2>1. f \in [0..0 -> V] /\ Upto(0, f)
    OBVIOUS
  <2> QED
    BY <2>1
<1>2. ASSUME NEW n \in 1..m, n - 1 \in S PROVE n \in S
  <2>1. PICK f \in [0..(n - 1) -> V] : Upto(n - 1, f)
    BY <1>2
  <2> DEFINE g == [k \in 0..n |-> IF k <= n - 1 THEN f[k] ELSE step[n][f[n - 1]]]
  <2>2. step[n][f[n - 1]] \in V
    <3>1. f[n - 1] \in V
      OBVIOUS
    <3> QED
      BY <3>1
  <2>3. g \in [0..n -> V]
    BY <2>2
  <2>4. ASSUME NEW k \in 0..n
        PROVE  g[k] = IF k = 0 THEN b ELSE step[k][g[k - 1]]
    <3>1. CASE k <= n - 1
      <4>1. k \in 0..(n - 1) /\ g[k] = f[k] /\ (k # 0 => g[k - 1] = f[k - 1])
        BY <3>1
      <4> QED
        BY <4>1, <2>1
    <3>2. CASE k = n
      <4>1. k # 0 /\ g[k] = step[n][f[n - 1]] /\ g[k - 1] = f[n - 1]
        BY <3>2
      <4> QED
        BY <4>1, <3>2
    <3> QED
      BY <3>1, <3>2
  <2>5. n \in Nat
    OBVIOUS
  <2> HIDE DEF g
  <2> QED
    BY <2>3, <2>4, <2>5
<1>3. m \in S
  <2>1. S \in SUBSET Nat
    OBVIOUS
  <2> HIDE DEF S
  <2>2. \A n \in 0..m : n \in S
    BY <2>1, <1>1, <1>2, PrefixInduction
  <2> QED
    BY <2>2
<1>4. PICK f \in [0..m -> V] : Upto(m, f)
  BY <1>3
<1>5. f[0] = b /\ \A n \in 1..m : f[n] = step[n][f[n - 1]]
  BY <1>4
<1> QED
  BY <1>5 DEF Recursion

-----------------------------------------------------------------------------
(* The format of a line.  The characters are those of the strings, with    *)
(* the ones escape and unescape name.                                      *)
Chr == STRING \cup {"\\", "n", "r", "t", "\n", "\r", "\t"}

Controls == {"\n", "\r", "\t"}

LEMMA EscapedChar ==
  ASSUME NEW c \in Chr
  PROVE  /\ Escaped(c) \in Seq(Chr)
         /\ \A k \in 1..Len(Escaped(c)) : Escaped(c)[k] \notin Controls
         /\ \/ c # "\\" /\ Escaped(c) = <<c>>
            \/ \E m \in DOMAIN Meaning : Escaped(c) = <<"\\", m>> /\ Meaning[m] = c
<1>1. {"\\", "n", "r", "t", "\n", "\r", "\t"} \subseteq Chr
  BY DEF Chr
<1>2. CASE c = "\\"
  <2>1. Escaped(c) = <<"\\", "\\">> /\ "\\" \in DOMAIN Meaning /\ Meaning["\\"] = "\\"
    BY <1>2 DEF Escaped, Meaning
  <2> QED
    BY <2>1, <1>1, <1>2 DEF Controls
<1>3. CASE c = "\n"
  <2>1. Escaped(c) = <<"\\", "n">> /\ "n" \in DOMAIN Meaning /\ Meaning["n"] = "\n"
    BY <1>3 DEF Escaped, Meaning
  <2> QED
    BY <2>1, <1>1, <1>3 DEF Controls
<1>4. CASE c = "\r"
  <2>1. Escaped(c) = <<"\\", "r">> /\ "r" \in DOMAIN Meaning /\ Meaning["r"] = "\r"
    BY <1>4 DEF Escaped, Meaning
  <2> QED
    BY <2>1, <1>1, <1>4 DEF Controls
<1>5. CASE c = "\t"
  <2>1. Escaped(c) = <<"\\", "t">> /\ "t" \in DOMAIN Meaning /\ Meaning["t"] = "\t"
    BY <1>5 DEF Escaped, Meaning
  <2> QED
    BY <2>1, <1>1, <1>5 DEF Controls
<1>6. CASE c \notin {"\\", "\n", "\r", "\t"}
  <2>1. Escaped(c) = <<c>>
    BY <1>6 DEF Escaped
  <2> QED
    BY <2>1, <1>1, <1>6 DEF Controls
<1> QED
  BY <1>2, <1>3, <1>4, <1>5, <1>6

(* The texts escape has written after each character.                      *)
EscapedUpto(out, s) ==
  /\ out \in [0..Len(s) -> Seq(Chr)]
  /\ out[0] = <<>>
  /\ \A n \in 1..Len(s) : out[n] = out[n - 1] \o Escaped(s[n])

LEMMA EscapeUnfolds ==
  ASSUME NEW s \in Seq(Chr)
  PROVE  \E out : EscapedUpto(out, s) /\ Escape(s) = out[Len(s)]
<1> DEFINE V == Seq(Chr)
           step == [n \in 1..Len(s) |-> [v \in V |-> v \o Escaped(s[n])]]
           out == CHOOSE f : f = [n \in 0..Len(s) |->
                                   IF n = 0 THEN <<>> ELSE f[n - 1] \o Escaped(s[n])]
<1>1. \A n \in 1..Len(s) : Escaped(s[n]) \in V
  BY EscapedChar
<1>2. step \in Steps(V, Len(s))
  <2>1. \A v \in V, n \in 1..Len(s) : v \o Escaped(s[n]) \in V
    BY <1>1
  <2> QED
    BY <2>1 DEF Steps
<1>3. PICK f : Recursion(f, V, <<>>, Len(s), step)
  <2>1. <<>> \in V /\ Len(s) \in Nat
    OBVIOUS
  <2> HIDE DEF V, step
  <2> QED
    BY <2>1, <1>2, RecursionExists
<1>4. f = [n \in 0..Len(s) |-> IF n = 0 THEN <<>> ELSE f[n - 1] \o Escaped(s[n])]
  <2>1. ASSUME NEW n \in 0..Len(s), n # 0 PROVE f[n] = f[n - 1] \o Escaped(s[n])
    <3>1. f[n - 1] \in V /\ n \in 1..Len(s)
      BY <2>1, <1>3 DEF Recursion
    <3> QED
      BY <3>1, <1>3 DEF Recursion
  <2> HIDE DEF step
  <2> QED
    BY <2>1, <1>3 DEF Recursion
<1>5. out = [n \in 0..Len(s) |-> IF n = 0 THEN <<>> ELSE out[n - 1] \o Escaped(s[n])]
  BY <1>4
<1> HIDE DEF out
<1>6. out[0] = <<>> /\ \A n \in 1..Len(s) : out[n] = out[n - 1] \o Escaped(s[n])
  BY <1>5
<1>7. \A n \in 0..Len(s) : out[n] \in V
  <2> DEFINE S == {n \in Nat : out[n] \in V}
  <2>1. S \in SUBSET Nat /\ 0 \in S
    <3>1. out[0] \in V
      BY <1>6
    <3> QED
      BY <3>1
  <2>2. ASSUME NEW n \in 1..Len(s), n - 1 \in S PROVE n \in S
    <3>1. out[n - 1] \in V /\ out[n] = out[n - 1] \o Escaped(s[n]) /\ Escaped(s[n]) \in V
      BY <2>2, <1>6, <1>1
    <3>2. out[n] \in V
      BY <3>1
    <3>3. n \in Nat
      OBVIOUS
    <3> QED
      BY <3>2, <3>3
  <2>3. Len(s) \in Nat
    OBVIOUS
  <2>4. \A n \in 0..Len(s) : n \in S
    <3> HIDE DEF S
    <3> QED
      BY <2>1, <2>2, <2>3, PrefixInduction
  <2> QED
    BY <2>4
<1>8. out \in [0..Len(s) -> Seq(Chr)]
  BY <1>5, <1>7
<1>9. Escape(s) = out[Len(s)]
  BY DEF Escape, out
<1> QED
  BY <1>6, <1>8, <1>9 DEF EscapedUpto

(* c is a followed by b.                                                   *)
Joined(c, a, b) ==
  /\ Len(a) \in Nat /\ Len(b) \in Nat /\ Len(c) \in Nat
  /\ Len(c) = Len(a) + Len(b) /\ Len(a) <= Len(c)
  /\ \A k \in 1..Len(a) : c[k] = a[k]
  /\ \A k \in 1..Len(b) : c[Len(a) + k] = b[k]
  /\ \A k \in 1..Len(c) : \/ k \in 1..Len(a) /\ c[k] = a[k]
                          \/ k - Len(a) \in 1..Len(b) /\ c[k] = b[k - Len(a)]

LEMMA ConcatJoins ==
  ASSUME NEW T, NEW a \in Seq(T), NEW b \in Seq(T)
  PROVE  a \o b \in Seq(T) /\ Joined(a \o b, a, b)
<1>1. /\ Len(a) \in Nat /\ Len(b) \in Nat /\ a \o b \in Seq(T)
      /\ Len(a \o b) = Len(a) + Len(b)
  OBVIOUS
<1>2. /\ \A k \in 1..Len(a) : (a \o b)[k] = a[k]
      /\ \A k \in 1..Len(b) : (a \o b)[Len(a) + k] = b[k]
  OBVIOUS
<1>3. ASSUME NEW k \in 1..Len(a \o b)
      PROVE  \/ k \in 1..Len(a) /\ (a \o b)[k] = a[k]
             \/ k - Len(a) \in 1..Len(b) /\ (a \o b)[k] = b[k - Len(a)]
  <2>1. CASE k <= Len(a)
    BY <1>1, <1>2, <2>1
  <2>2. CASE ~ (k <= Len(a))
    <3>1. k - Len(a) \in 1..Len(b) /\ Len(a) + (k - Len(a)) = k
      BY <1>1, <2>2
    <3> QED
      BY <1>2, <3>1
  <2> QED
    BY <2>1, <2>2
<1>4. Len(a) <= Len(a) + Len(b) /\ Len(a) + Len(b) \in Nat
  BY <1>1
<1> QED
  BY <1>1, <1>2, <1>3, <1>4 DEF Joined

LEMMA JoinedLengths ==
  ASSUME NEW a, NEW b, NEW c, Joined(c, a, b)
  PROVE  /\ Len(a) \in Nat /\ Len(b) \in Nat /\ Len(c) \in Nat
         /\ Len(a) + Len(b) = Len(c)
         /\ \A j \in 1..Len(b) : Len(a) + j \in 1..Len(c) /\ c[Len(a) + j] = b[j]
BY DEF Joined

LEMMA EscapedStep ==
  ASSUME NEW s \in Seq(Chr), NEW out, EscapedUpto(out, s), NEW q \in 1..Len(s)
  PROVE  Joined(out[q], out[q - 1], Escaped(s[q]))
<1>1. q - 1 \in 0..Len(s) /\ q \in 0..Len(s) /\ s[q] \in Chr
  OBVIOUS
<1>2. out[q - 1] \in Seq(Chr) /\ out[q] = out[q - 1] \o Escaped(s[q])
  BY <1>1 DEF EscapedUpto
<1>3. Escaped(s[q]) \in Seq(Chr)
  BY <1>1, EscapedChar
<1> QED
  BY <1>2, <1>3, ConcatJoins

(* What is written stays, and holds none of the characters a line is cut   *)
(* at.                                                                     *)
LEMMA EscapedPrefixes ==
  ASSUME NEW s \in Seq(Chr), NEW out, EscapedUpto(out, s), NEW m \in 0..Len(s)
  PROVE  \A n \in 0..m : /\ Len(out[n]) <= Len(out[m])
                         /\ \A k \in 1..Len(out[n]) : out[m][k] = out[n][k]
<1> DEFINE S == {p \in Nat : p <= Len(s) =>
                   \A n \in 0..p : /\ Len(out[n]) <= Len(out[p])
                                   /\ \A k \in 1..Len(out[n]) : out[p][k] = out[n][k]}
<1>1. S \in SUBSET Nat /\ 0 \in S
  BY DEF EscapedUpto
<1>2. ASSUME NEW q \in 1..Len(s), q - 1 \in S PROVE q \in S
  <2>1. Joined(out[q], out[q - 1], Escaped(s[q]))
    BY EscapedStep
  <2>2. /\ Len(out[q - 1]) \in Nat /\ Len(out[q]) \in Nat
        /\ Len(out[q - 1]) <= Len(out[q])
        /\ \A k \in 1..Len(out[q - 1]) : out[q][k] = out[q - 1][k]
    BY <2>1 DEF Joined
  <2>3. ASSUME NEW n \in 0..q
        PROVE  /\ Len(out[n]) <= Len(out[q])
               /\ \A k \in 1..Len(out[n]) : out[q][k] = out[n][k]
    <3>1. CASE n = q
      BY <3>1, <2>2
    <3>2. CASE n # q
      <4>1. n \in 0..(q - 1)
        BY <3>2
      <4>2. /\ Len(out[n]) <= Len(out[q - 1])
            /\ \A k \in 1..Len(out[n]) : out[q - 1][k] = out[n][k]
        BY <1>2, <4>1
      <4>3. Len(out[n]) \in Nat
        <5>1. out[n] \in Seq(Chr)
          BY <4>1 DEF EscapedUpto
        <5> QED
          BY <5>1
      <4>4. Len(out[n]) <= Len(out[q])
        BY <2>2, <4>2, <4>3
      <4>5. ASSUME NEW k \in 1..Len(out[n]) PROVE out[q][k] = out[n][k]
        <5>1. k \in 1..Len(out[q - 1])
          BY <2>2, <4>2, <4>3
        <5> QED
          BY <5>1, <2>2, <4>2
      <4> QED
        BY <4>4, <4>5
    <3> QED
      BY <3>1, <3>2
  <2> QED
    BY <2>3
<1>3. Len(s) \in Nat
  OBVIOUS
<1>4. m \in S
  <2> HIDE DEF S
  <2>1. \A n \in 0..Len(s) : n \in S
    BY <1>1, <1>2, <1>3, PrefixInduction
  <2> QED
    BY <2>1
<1> QED
  BY <1>4

LEMMA EscapeHoldsNoControls ==
  ASSUME NEW s \in Seq(Chr)
  PROVE  /\ Escape(s) \in Seq(Chr)
         /\ \A k \in 1..Len(Escape(s)) : Escape(s)[k] \notin Controls
<1>1. PICK out : EscapedUpto(out, s) /\ Escape(s) = out[Len(s)]
  BY EscapeUnfolds
<1> DEFINE S == {p \in Nat : p <= Len(s) => \A k \in 1..Len(out[p]) : out[p][k] \notin Controls}
<1>2. S \in SUBSET Nat /\ 0 \in S
  BY <1>1 DEF EscapedUpto
<1>3. ASSUME NEW q \in 1..Len(s), q - 1 \in S PROVE q \in S
  <2>0. s[q] \in Chr
    OBVIOUS
  <2>1. /\ Joined(out[q], out[q - 1], Escaped(s[q]))
        /\ \A k \in 1..Len(Escaped(s[q])) : Escaped(s[q])[k] \notin Controls
    BY <1>1, <2>0, EscapedStep, EscapedChar
  <2>2. \A k \in 1..Len(out[q - 1]) : out[q - 1][k] \notin Controls
    BY <1>3
  <2>3. ASSUME NEW k \in 1..Len(out[q]) PROVE out[q][k] \notin Controls
    <3>1. CASE k \in 1..Len(out[q - 1]) /\ out[q][k] = out[q - 1][k]
      BY <2>2, <3>1
    <3>2. CASE /\ k - Len(out[q - 1]) \in 1..Len(Escaped(s[q]))
               /\ out[q][k] = Escaped(s[q])[k - Len(out[q - 1])]
      BY <2>1, <3>2
    <3> QED
      BY <2>1, <3>1, <3>2 DEF Joined
  <2> QED
    BY <2>3
<1>4. Len(s) \in Nat
  OBVIOUS
<1>5. Len(s) \in S
  <2> HIDE DEF S
  <2>1. \A n \in 0..Len(s) : n \in S
    BY <1>2, <1>3, <1>4, PrefixInduction
  <2> QED
    BY <1>4, <2>1
<1> QED
  BY <1>1, <1>4, <1>5 DEF EscapedUpto

(* What unescape has understood after each character.                      *)
NothingRead == [text |-> <<>>, esc |-> FALSE]

ReadUpto(read, e) ==
  read[0] = NothingRead /\ \A n \in 1..Len(e) : read[n] = ReadChar(read[n - 1], e[n])

LEMMA ReadCharType ==
  ASSUME NEW st \in [text : Seq(Chr), esc : BOOLEAN], NEW c \in Chr
  PROVE  ReadChar(st, c) \in [text : Seq(Chr), esc : BOOLEAN]
<1>1. {"\\", "n", "r", "t", "\n", "\r", "\t"} \subseteq Chr
  BY DEF Chr
<1>2. \A m \in DOMAIN Meaning : Meaning[m] \in Chr
  BY <1>1 DEF Meaning
<1>3. st.text \in Seq(Chr) /\ st.esc \in BOOLEAN
  OBVIOUS
<1>4. CASE st.esc /\ c \in DOMAIN Meaning
  <2>1. ReadChar(st, c) = [text |-> Append(st.text, Meaning[c]), esc |-> FALSE]
    BY <1>4 DEF ReadChar
  <2>2. Append(st.text, Meaning[c]) \in Seq(Chr)
    BY <1>2, <1>3, <1>4
  <2> QED
    BY <2>1, <2>2
<1>5. CASE st.esc /\ c \notin DOMAIN Meaning
  <2>1. ReadChar(st, c) = [text |-> st.text \o <<"\\", c>>, esc |-> FALSE]
    BY <1>5 DEF ReadChar
  <2>2. <<"\\", c>> \in Seq(Chr)
    BY <1>1
  <2>3. st.text \o <<"\\", c>> \in Seq(Chr)
    BY <1>3, <2>2
  <2> QED
    BY <2>1, <2>3
<1>6. CASE ~ st.esc /\ c = "\\"
  <2>1. ReadChar(st, c) = [text |-> st.text, esc |-> TRUE]
    BY <1>6 DEF ReadChar
  <2> QED
    BY <2>1, <1>3
<1>7. CASE ~ st.esc /\ c # "\\"
  <2>1. ReadChar(st, c) = [text |-> Append(st.text, c), esc |-> FALSE]
    BY <1>7 DEF ReadChar
  <2>2. Append(st.text, c) \in Seq(Chr)
    BY <1>3
  <2> QED
    BY <2>1, <2>2
<1> QED
  BY <1>3, <1>4, <1>5, <1>6, <1>7

LEMMA UnescapeUnfolds ==
  ASSUME NEW e \in Seq(Chr)
  PROVE  \E read : /\ ReadUpto(read, e)
                   /\ Unescape(e) = IF read[Len(e)].esc THEN Append(read[Len(e)].text, "\\")
                                    ELSE read[Len(e)].text
<1> DEFINE V == [text : Seq(Chr), esc : BOOLEAN]
           step == [n \in 1..Len(e) |-> [v \in V |-> ReadChar(v, e[n])]]
           read == CHOOSE f : f = [n \in 0..Len(e) |->
                      IF n = 0 THEN [text |-> <<>>, esc |-> FALSE] ELSE ReadChar(f[n - 1], e[n])]
<1>1. step \in Steps(V, Len(e))
  <2>1. \A n \in 1..Len(e) : e[n] \in Chr
    OBVIOUS
  <2>2. \A v \in V, n \in 1..Len(e) : ReadChar(v, e[n]) \in V
    BY <2>1, ReadCharType
  <2> QED
    BY <2>2 DEF Steps
<1>2. PICK f : Recursion(f, V, NothingRead, Len(e), step)
  <2>1. NothingRead \in V /\ Len(e) \in Nat
    BY DEF NothingRead
  <2> HIDE DEF V, step
  <2> QED
    BY <2>1, <1>1, RecursionExists
<1>3. f = [n \in 0..Len(e) |->
             IF n = 0 THEN [text |-> <<>>, esc |-> FALSE] ELSE ReadChar(f[n - 1], e[n])]
  <2>1. ASSUME NEW n \in 0..Len(e), n # 0 PROVE f[n] = ReadChar(f[n - 1], e[n])
    <3>1. n - 1 \in 0..Len(e) /\ n \in 1..Len(e)
      BY <2>1
    <3>2. f[n - 1] \in V
      <4> HIDE DEF V, step
      <4> QED
        BY <3>1, <1>2 DEF Recursion
    <3>3. f[n] = step[n][f[n - 1]]
      <4> HIDE DEF V, step
      <4> QED
        BY <3>1, <1>2 DEF Recursion
    <3>4. step[n][f[n - 1]] = ReadChar(f[n - 1], e[n])
      <4> HIDE DEF V
      <4> QED
        BY <3>1, <3>2
    <3> QED
      BY <3>3, <3>4
  <2> HIDE DEF step
  <2> QED
    BY <2>1, <1>2 DEF Recursion, NothingRead
<1>4. read = [n \in 0..Len(e) |->
                IF n = 0 THEN [text |-> <<>>, esc |-> FALSE] ELSE ReadChar(read[n - 1], e[n])]
  BY <1>3
<1>5. Unescape(e) = IF read[Len(e)].esc THEN Append(read[Len(e)].text, "\\")
                    ELSE read[Len(e)].text
  BY DEF Unescape
<1> HIDE DEF read
<1>6. ReadUpto(read, e)
  <2>1. \A n \in 0..Len(e) : read[n] = IF n = 0 THEN NothingRead ELSE ReadChar(read[n - 1], e[n])
    BY <1>4 DEF NothingRead
  <2>2. 0 \in 0..Len(e) /\ \A n \in 1..Len(e) : n \in 0..Len(e) /\ n # 0
    OBVIOUS
  <2> QED
    BY <2>1, <2>2 DEF ReadUpto
<1> QED
  BY <1>5, <1>6

(* The first n characters of a text.                                       *)
Upto(s, n) == [i \in 1..n |-> s[i]]

LEMMA UptoGrows ==
  ASSUME NEW s \in Seq(Chr), NEW q \in 1..Len(s)
  PROVE  Append(Upto(s, q - 1), s[q]) = Upto(s, q)
<1>1. Upto(s, q - 1) \in Seq(Chr) /\ Len(Upto(s, q - 1)) = q - 1 /\ s[q] \in Chr
  BY DEF Upto
<1> QED
  BY <1>1 DEF Upto

LEMMA ReadEscaped ==
  ASSUME NEW text, NEW c \in Chr, NEW read, NEW e, NEW k \in Nat,
         ReadUpto(read, e), k + Len(Escaped(c)) <= Len(e), Len(e) \in Nat,
         \A j \in 1..Len(Escaped(c)) : e[k + j] = Escaped(c)[j],
         read[k] = [text |-> text, esc |-> FALSE]
  PROVE  read[k + Len(Escaped(c))] = [text |-> Append(text, c), esc |-> FALSE]
<1>1. CASE c # "\\" /\ Escaped(c) = <<c>>
  <2>1. Len(Escaped(c)) = 1 /\ e[k + 1] = c /\ k + 1 \in 1..Len(e) /\ (k + 1) - 1 = k
    BY <1>1
  <2>2. read[k + 1] = ReadChar(read[k], c)
    BY <2>1 DEF ReadUpto
  <2> QED
    BY <1>1, <2>1, <2>2 DEF ReadChar
<1>2. CASE \E m \in DOMAIN Meaning : Escaped(c) = <<"\\", m>> /\ Meaning[m] = c
  <2>1. PICK m \in DOMAIN Meaning : Escaped(c) = <<"\\", m>> /\ Meaning[m] = c
    BY <1>2
  <2>2. /\ Len(Escaped(c)) = 2 /\ Escaped(c)[1] = "\\" /\ Escaped(c)[2] = m
    BY <2>1
  <2>3. /\ e[k + 1] = "\\" /\ e[k + 2] = m
        /\ k + 1 \in 1..Len(e) /\ (k + 1) - 1 = k
        /\ k + 2 \in 1..Len(e) /\ (k + 2) - 1 = k + 1
    BY <2>2
  <2>4. read[k + 1] = ReadChar(read[k], "\\") /\ read[k + 2] = ReadChar(read[k + 1], m)
    BY <2>3 DEF ReadUpto
  <2>5. read[k + 1] = [text |-> text, esc |-> TRUE]
    BY <2>4 DEF ReadChar
  <2>6. read[k + 2] = [text |-> Append(text, Meaning[m]), esc |-> FALSE]
    <3> DEFINE st == read[k + 1]
    <3>1. st.esc = TRUE /\ st.text = text
      BY <2>5
    <3>2. ReadChar(st, m) = [text |-> Append(st.text, Meaning[m]), esc |-> FALSE]
      <4> HIDE DEF st
      <4> QED
        BY <2>1, <3>1 DEF ReadChar
    <3> QED
      BY <2>4, <3>1, <3>2
  <2> QED
    BY <2>1, <2>2, <2>6
<1> QED
  BY <1>1, <1>2, EscapedChar

(* What is escaped is read back, whatever the text (fact_store.cpp:30 and  *)
(* :45): no fact comes back as another.                                    *)
THEOREM UnescapeEscape ==
  ASSUME NEW s \in Seq(Chr)
  PROVE  Unescape(Escape(s)) = s
<1>1. PICK out : EscapedUpto(out, s) /\ Escape(s) = out[Len(s)]
  BY EscapeUnfolds
<1> DEFINE e == Escape(s)
<1>2. e \in Seq(Chr)
  BY EscapeHoldsNoControls
<1>3. PICK read : /\ ReadUpto(read, e)
                  /\ Unescape(e) = IF read[Len(e)].esc THEN Append(read[Len(e)].text, "\\")
                                   ELSE read[Len(e)].text
  <2> HIDE DEF e
  <2> QED
    BY <1>2, UnescapeUnfolds
<1> DEFINE S == {p \in Nat : p <= Len(s) => read[Len(out[p])] = [text |-> Upto(s, p), esc |-> FALSE]}
<1>4. Len(s) \in Nat /\ Len(e) \in Nat
  BY <1>2
<1>5. S \in SUBSET Nat /\ 0 \in S
  <2>1. out[0] = <<>> /\ Len(out[0]) = 0 /\ Upto(s, 0) = <<>>
    BY <1>1 DEF EscapedUpto, Upto
  <2> QED
    BY <1>3, <2>1 DEF ReadUpto, NothingRead
<1>6. ASSUME NEW q \in 1..Len(s), q - 1 \in S PROVE q \in S
  <2> DEFINE k == Len(out[q - 1])
  <2>1. Joined(out[q], out[q - 1], Escaped(s[q])) /\ s[q] \in Chr
    BY <1>1, EscapedStep
  <2>2. Len(out[q]) <= Len(e) /\ \A j \in 1..Len(out[q]) : e[j] = out[q][j]
    <3>1. Len(s) \in 0..Len(s) /\ q \in 0..Len(s)
      OBVIOUS
    <3> QED
      BY <1>1, <3>1, EscapedPrefixes
  <2>3. read[k] = [text |-> Upto(s, q - 1), esc |-> FALSE]
    BY <1>6
  <2>4. /\ k \in Nat /\ k + Len(Escaped(s[q])) = Len(out[q])
        /\ \A j \in 1..Len(Escaped(s[q])) :
             k + j \in 1..Len(out[q]) /\ out[q][k + j] = Escaped(s[q])[j]
    <3> DEFINE a == out[q - 1]
               b == Escaped(s[q])
               c == out[q]
    <3>1. Joined(c, a, b)
      BY <2>1
    <3> HIDE DEF a, b, c
    <3>2. /\ Len(a) \in Nat /\ Len(a) + Len(b) = Len(c)
          /\ \A j \in 1..Len(b) : Len(a) + j \in 1..Len(c) /\ c[Len(a) + j] = b[j]
      BY <3>1, JoinedLengths
    <3> QED
      BY <3>2 DEF a, b, c
  <2>5. \A j \in 1..Len(Escaped(s[q])) : e[k + j] = Escaped(s[q])[j]
    BY <2>2, <2>4
  <2>6. read[Len(out[q])] = [text |-> Append(Upto(s, q - 1), s[q]), esc |-> FALSE]
    <3> DEFINE c == s[q]
               text == Upto(s, q - 1)
    <3>1. k + Len(Escaped(c)) <= Len(e) /\ Len(e) \in Nat /\ k \in Nat /\ c \in Chr
      BY <1>4, <2>1, <2>2, <2>4
    <3>2. \A j \in 1..Len(Escaped(c)) : e[k + j] = Escaped(c)[j]
      BY <2>5
    <3>3. ReadUpto(read, e) /\ read[k] = [text |-> text, esc |-> FALSE]
      BY <1>3, <2>3
    <3> HIDE DEF e, k, c, text
    <3>4. read[k + Len(Escaped(c))] = [text |-> Append(text, c), esc |-> FALSE]
      BY <3>1, <3>2, <3>3, ReadEscaped
    <3> QED
      BY <3>4, <2>4 DEF c, text, k
  <2>7. q \in Nat /\ read[Len(out[q])] = [text |-> Upto(s, q), esc |-> FALSE]
    <3>1. Append(Upto(s, q - 1), s[q]) = Upto(s, q)
      BY UptoGrows
    <3>2. q \in Nat
      OBVIOUS
    <3> QED
      BY <2>6, <3>1, <3>2
  <2> QED
    BY <2>7
<1>7. Len(s) \in S
  <2> HIDE DEF S
  <2>1. \A n \in 0..Len(s) : n \in S
    BY <1>4, <1>5, <1>6, PrefixInduction
  <2> QED
    BY <1>4, <2>1
<1>8. read[Len(e)] = [text |-> Upto(s, Len(s)), esc |-> FALSE]
  BY <1>1, <1>4, <1>7
<1>9. Upto(s, Len(s)) = s
  BY DEF Upto
<1> QED
  BY <1>3, <1>8, <1>9

-----------------------------------------------------------------------------
(* Lines.  l is t, a tab, c and a newline.                                 *)
IsLine(l, t, c) ==
  /\ Len(t) \in Nat /\ Len(c) \in Nat /\ Len(l) = Len(t) + Len(c) + 2
  /\ \A k \in 1..Len(t) : l[k] = t[k]
  /\ l[Len(t) + 1] = "\t"
  /\ \A k \in 1..Len(c) : l[(Len(t) + 1) + k] = c[k]
  /\ l[Len(t) + Len(c) + 2] = "\n"

LEMMA LineIsMade ==
  ASSUME NEW T, NEW t \in Seq(T), NEW c \in Seq(T), "\t" \in T, "\n" \in T
  PROVE  /\ t \o <<"\t">> \o c \o <<"\n">> \in Seq(T)
         /\ IsLine(t \o <<"\t">> \o c \o <<"\n">>, t, c)
<1> DEFINE tab == <<"\t">>
           nl == <<"\n">>
           l1 == t \o tab
           l2 == l1 \o c
           l3 == l2 \o nl
<1>1. tab \in Seq(T) /\ nl \in Seq(T) /\ Len(tab) = 1 /\ Len(nl) = 1
      /\ tab[1] = "\t" /\ nl[1] = "\n"
  OBVIOUS
<1>2. l1 \in Seq(T) /\ Joined(l1, t, tab)
  <2> HIDE DEF tab
  <2> QED
    BY <1>1, ConcatJoins
<1>3. l2 \in Seq(T) /\ Joined(l2, l1, c)
  <2> HIDE DEF l1
  <2> QED
    BY <1>2, ConcatJoins
<1>4. l3 \in Seq(T) /\ Joined(l3, l2, nl)
  <2> HIDE DEF l2, nl
  <2> QED
    BY <1>1, <1>3, ConcatJoins
<1> HIDE DEF l1, l2, l3, tab, nl
<1>5. Len(l1) = Len(t) + 1 /\ Len(l2) = Len(t) + 1 + Len(c) /\ Len(l3) = Len(t) + Len(c) + 2
      /\ Len(t) \in Nat /\ Len(c) \in Nat
  BY <1>1, <1>2, <1>3, <1>4 DEF Joined
<1>6. ASSUME NEW k \in 1..Len(t) PROVE l3[k] = t[k]
  <2>1. k \in 1..Len(l1) /\ k \in 1..Len(l2)
    BY <1>5
  <2> QED
    BY <2>1, <1>2, <1>3, <1>4 DEF Joined
<1>7. l3[Len(t) + 1] = "\t"
  <2>1. Len(t) + 1 \in 1..Len(l1) /\ Len(t) + 1 \in 1..Len(l2) /\ 1 \in 1..Len(tab)
    BY <1>1, <1>5
  <2>2. l1[Len(t) + 1] = "\t"
    BY <1>1, <1>2, <2>1 DEF Joined
  <2> QED
    BY <2>1, <2>2, <1>3, <1>4 DEF Joined
<1>8. ASSUME NEW k \in 1..Len(c) PROVE l3[(Len(t) + 1) + k] = c[k]
  <2>1. (Len(t) + 1) + k = Len(l1) + k /\ (Len(t) + 1) + k \in 1..Len(l2)
    BY <1>5
  <2> QED
    BY <2>1, <1>3, <1>4 DEF Joined
<1>9. l3[Len(t) + Len(c) + 2] = "\n"
  <2>1. Len(t) + Len(c) + 2 = Len(l2) + 1 /\ 1 \in 1..Len(nl)
    BY <1>1, <1>5
  <2> QED
    BY <2>1, <1>1, <1>4 DEF Joined
<1>10. IsLine(l3, t, c)
  BY <1>5, <1>6, <1>7, <1>8, <1>9 DEF IsLine
<1> QED
  BY <1>4, <1>10 DEF l1, l2, l3, tab, nl

(* The line l begins at place i of the text.                               *)
LineIsAt(text, i, l) ==
  /\ i + Len(l) - 1 <= Len(text)
  /\ \A k \in 1..Len(l) : text[(i - 1) + k] = l[k]

NoControls(t) == \A k \in 1..Len(t) : t[k] \notin Controls

(* Only the last character of a line is a newline, and only one is a tab.  *)
LEMMA LineCharacters ==
  ASSUME NEW l, NEW t, NEW c, IsLine(l, t, c), NoControls(t), NoControls(c)
  PROVE  /\ \A k \in 1..(Len(l) - 1) : l[k] \notin {"\n", "\r"}
         /\ \A k \in 1..(Len(l) - 1) : l[k] = "\t" <=> k = Len(t) + 1
<1>1. Len(t) \in Nat /\ Len(c) \in Nat /\ Len(l) - 1 = Len(t) + 1 + Len(c)
  BY DEF IsLine
<1> SUFFICES ASSUME NEW k \in 1..(Len(l) - 1)
             PROVE  l[k] \notin {"\n", "\r"} /\ (l[k] = "\t" <=> k = Len(t) + 1)
  OBVIOUS
<1>2. CASE k <= Len(t)
  <2>1. k \in 1..Len(t) /\ k # Len(t) + 1
    BY <1>1, <1>2
  <2>2. l[k] \notin Controls
    BY <2>1 DEF IsLine, NoControls
  <2> QED
    BY <2>1, <2>2 DEF Controls
<1>3. CASE k = Len(t) + 1
  BY <1>3 DEF IsLine
<1>4. CASE k > Len(t) + 1
  <2>1. k - (Len(t) + 1) \in 1..Len(c) /\ (Len(t) + 1) + (k - (Len(t) + 1)) = k /\ k # Len(t) + 1
    BY <1>1, <1>4
  <2>2. l[k] = c[k - (Len(t) + 1)]
    BY <2>1 DEF IsLine
  <2>3. l[k] \notin Controls
    BY <2>1, <2>2 DEF NoControls
  <2> QED
    BY <2>1, <2>3 DEF Controls
<1> QED
  BY <1>1, <1>2, <1>3, <1>4

LEMMA MinIs ==
  ASSUME NEW S \in SUBSET Nat, NEW m \in S, \A x \in S : m <= x
  PROVE  Min(S) = m
<1>1. \A x \in S : (\A y \in S : x <= y) => x = m
  <2> SUFFICES ASSUME NEW x \in S, \A y \in S : x <= y PROVE x = m
    OBVIOUS
  <2>1. x <= m /\ m <= x /\ x \in Nat /\ m \in Nat
    OBVIOUS
  <2> QED
    BY <2>1
<1> QED
  BY <1>1 DEF Min

LEMMA SubSeqIs ==
  ASSUME NEW T, NEW s \in Seq(T), NEW i \in Nat \ {0}, NEW j \in Nat, j <= Len(s), i <= j + 1,
         NEW t \in Seq(T), Len(t) = j - i + 1,
         \A k \in 1..Len(t) : s[(i - 1) + k] = t[k]
  PROVE  SubSeq(s, i, j) = t
<1>1. SubSeq(s, i, j) \in Seq(T) /\ Len(SubSeq(s, i, j)) = j - i + 1
  OBVIOUS
<1>2. ASSUME NEW k \in 1..Len(t) PROVE SubSeq(s, i, j)[k] = t[k]
  <2>1. k \in 1..(j - i + 1) /\ i + k - 1 = (i - 1) + k
    OBVIOUS
  <2>2. SubSeq(s, i, j)[k] = s[i + k - 1]
    BY <2>1
  <2> QED
    BY <2>1, <2>2
<1> QED
  BY <1>1, <1>2

(* What getline returns where a line begins: the line without its newline. *)
LEMMA LineIsRead ==
  ASSUME NEW text \in Seq(Chr), NEW i \in Nat \ {0}, NEW l, NEW t, NEW c,
         IsLine(l, t, c), NoControls(t), NoControls(c), LineIsAt(text, i, l)
  PROVE  LineAt(text, i) = SubSeq(text, i, (i - 1) + (Len(l) - 1))
<1> DEFINE M == {j \in Newlines(text) \cup {Len(text) + 1} : j >= i}
           e == (i - 1) + Len(l)
<1>1. Len(l) \in Nat /\ Len(l) >= 2 /\ Len(text) \in Nat /\ e \in Nat /\ e <= Len(text)
      /\ e >= i + 1
  BY DEF IsLine, LineIsAt
<1>2. text[e] = "\n"
  BY <1>1 DEF IsLine, LineIsAt
<1>3. e \in M /\ M \in SUBSET Nat
  BY <1>1, <1>2 DEF Newlines
<1>4. ASSUME NEW j \in M PROVE e <= j
  <2> SUFFICES ASSUME j < e PROVE FALSE
    BY <1>1, <1>3
  <2>1. j \in Nat /\ j >= i /\ j # Len(text) + 1 /\ j \in Newlines(text)
    BY <1>1, <1>3
  <2>2. text[j] = "\n"
    BY <2>1 DEF Newlines
  <2>3. j - (i - 1) \in 1..(Len(l) - 1) /\ (i - 1) + (j - (i - 1)) = j
    BY <1>1, <2>1
  <2>4. j - (i - 1) \in 1..Len(l)
    BY <1>1, <2>3
  <2>5. text[j] = l[j - (i - 1)]
    BY <2>3, <2>4 DEF LineIsAt
  <2> QED
    BY <2>2, <2>3, <2>5, LineCharacters
<1>5. Min(M) = e
  <2> HIDE DEF M, e
  <2> QED
    BY <1>3, <1>4, MinIs
<1>6. text[e - 1] # "\r"
  <2>1. Len(l) - 1 \in 1..(Len(l) - 1) /\ Len(l) - 1 \in 1..Len(l) /\ (i - 1) + (Len(l) - 1) = e - 1
    BY <1>1
  <2>2. text[e - 1] = l[Len(l) - 1]
    BY <2>1 DEF LineIsAt
  <2> QED
    BY <2>1, <2>2, LineCharacters
<1>7. LineAt(text, i) = SubSeq(text, i, e - 1)
  <2> HIDE DEF e
  <2> QED
    BY <1>5, <1>6 DEF LineAt
<1> QED
  BY <1>1, <1>7

(* A line that is whole on the file is read back as what it was made of.   *)
LEMMA LineIsParsed ==
  ASSUME NEW text \in Seq(Chr), NEW i \in Nat \ {0}, NEW l \in Seq(Chr),
         NEW type \in Seq(Chr), NEW content \in Seq(Chr),
         IsLine(l, Escape(type), Escape(content)), LineIsAt(text, i, l)
  PROVE  /\ Tabs(LineAt(text, i)) # {}
         /\ Parsed(LineAt(text, i)) = [type |-> type, content |-> content]
<1> DEFINE t == Escape(type)
           c == Escape(content)
           n == Len(l) - 1
           line == LineAt(text, i)
<1>1. t \in Seq(Chr) /\ c \in Seq(Chr) /\ NoControls(t) /\ NoControls(c)
  BY EscapeHoldsNoControls DEF NoControls
<1>2. Len(t) \in Nat /\ Len(c) \in Nat /\ n = Len(t) + 1 + Len(c) /\ Len(l) = n + 1
      /\ Len(text) \in Nat /\ (i - 1) + n <= Len(text) /\ n \in Nat
      /\ i <= ((i - 1) + n) + 1 /\ (i - 1) + n \in Nat /\ ((i - 1) + n) - i + 1 = n
  BY <1>1 DEF IsLine, LineIsAt
<1>3. line = SubSeq(text, i, (i - 1) + n)
  BY <1>1, LineIsRead
<1> HIDE DEF line, n, t, c
<1>4. line \in Seq(Chr) /\ Len(line) = n
  BY <1>2, <1>3
<1>5. \A k \in 1..n : line[k] = l[k]
  <2> SUFFICES ASSUME NEW k \in 1..n PROVE line[k] = l[k]
    OBVIOUS
  <2>1. line[k] = text[i + k - 1] /\ i + k - 1 = (i - 1) + k /\ k \in 1..Len(l)
    BY <1>2, <1>3
  <2> QED
    BY <2>1 DEF LineIsAt
<1>6. \A k \in 1..n : l[k] = "\t" <=> k = Len(t) + 1
  BY <1>1, LineCharacters DEF n, t, c
<1>7. Tabs(line) = {Len(t) + 1}
  <2>1. DOMAIN line = 1..n /\ Len(t) + 1 \in 1..n
    BY <1>2, <1>4
  <2> QED
    BY <2>1, <1>5, <1>6 DEF Tabs
<1>8. Min(Tabs(line)) = Len(t) + 1
  <2>1. Tabs(line) \in SUBSET Nat /\ Len(t) + 1 \in Tabs(line)
    BY <1>2, <1>7
  <2>2. \A x \in Tabs(line) : Len(t) + 1 <= x
    BY <1>2, <1>7
  <2> HIDE DEF Tabs
  <2> QED
    BY <2>1, <2>2, MinIs
<1>9. SubSeq(line, 1, Len(t)) = t
  <2>1. ASSUME NEW k \in 1..Len(t) PROVE line[(1 - 1) + k] = t[k]
    <3>1. (1 - 1) + k = k /\ k \in 1..n
      BY <1>2
    <3>2. l[k] = t[k]
      BY DEF IsLine, t
    <3> QED
      BY <3>1, <3>2, <1>5
  <2>2. Len(t) <= Len(line) /\ 1 <= Len(t) + 1 /\ Len(t) = Len(t) - 1 + 1 /\ 1 \in Nat \ {0}
    BY <1>2, <1>4
  <2> QED
    BY <1>1, <1>2, <1>4, <2>1, <2>2, SubSeqIs
<1>10. SubSeq(line, (Len(t) + 1) + 1, Len(line)) = c
  <2>1. ASSUME NEW k \in 1..Len(c) PROVE line[(((Len(t) + 1) + 1) - 1) + k] = c[k]
    <3>1. (((Len(t) + 1) + 1) - 1) + k = (Len(t) + 1) + k /\ (Len(t) + 1) + k \in 1..n
      BY <1>2
    <3>2. l[(Len(t) + 1) + k] = c[k]
      BY DEF IsLine, t, c
    <3> QED
      BY <3>1, <3>2, <1>5
  <2>2. /\ Len(line) <= Len(line) /\ (Len(t) + 1) + 1 <= Len(line) + 1
        /\ Len(c) = Len(line) - ((Len(t) + 1) + 1) + 1
        /\ (Len(t) + 1) + 1 \in Nat \ {0} /\ Len(line) \in Nat
    BY <1>2, <1>4
  <2> DEFINE first == (Len(t) + 1) + 1
             last == Len(line)
  <2>3. /\ \A k \in 1..Len(c) : line[(first - 1) + k] = c[k]
        /\ last <= Len(line) /\ first <= last + 1 /\ Len(c) = last - first + 1
        /\ first \in Nat \ {0} /\ last \in Nat
    BY <2>1, <2>2
  <2> HIDE DEF first, last
  <2>4. SubSeq(line, first, last) = c
    BY <1>1, <1>4, <2>3, SubSeqIs
  <2> QED
    BY <2>4 DEF first, last
<1>11. Parsed(line) = [type |-> Unescape(t), content |-> Unescape(c)]
  <2>1. Min(Tabs(line)) - 1 = Len(t) /\ Min(Tabs(line)) + 1 = (Len(t) + 1) + 1
    BY <1>2, <1>8
  <2>2. SubSeq(line, 1, Min(Tabs(line)) - 1) = t
    BY <2>1, <1>9
  <2>3. SubSeq(line, Min(Tabs(line)) + 1, Len(line)) = c
    BY <2>1, <1>10
  <2> QED
    BY <2>2, <2>3, Zenon DEF Parsed
<1>12. Unescape(t) = type /\ Unescape(c) = content
  BY UnescapeEscape DEF t, c
<1>13. Tabs(line) # {}
  BY <1>7
<1> QED
  BY <1>11, <1>12, <1>13 DEF line

-----------------------------------------------------------------------------
(* The file.                                                               *)
LEMMA SeqOverLarger ==
  ASSUME NEW S, NEW T, S \subseteq T, NEW s \in Seq(S)
  PROVE  s \in Seq(T)
OBVIOUS

LEMMA FactsAreText ==
  ASSUME NEW f \in Facts
  PROVE  /\ f.type \in Seq(Chr) /\ f.content \in Seq(Chr)
         /\ f = [type |-> f.type, content |-> f.content]
         /\ Line(f) \in Seq(Chr)
         /\ IsLine(Line(f), Escape(f.type), Escape(f.content))
         /\ NoControls(Escape(f.type)) /\ NoControls(Escape(f.content))
<1>1. f \in [type : Seq(STRING), content : Seq(STRING)]
  BY FactAssumption
<1>2. f = [type |-> f.type, content |-> f.content] /\ f.type \in Seq(STRING) /\ f.content \in Seq(STRING)
  BY <1>1
<1>3. STRING \subseteq Chr /\ "\t" \in Chr /\ "\n" \in Chr
  BY DEF Chr
<1>4. f.type \in Seq(Chr) /\ f.content \in Seq(Chr)
  BY <1>2, <1>3, SeqOverLarger
<1>5. /\ Escape(f.type) \in Seq(Chr) /\ Escape(f.content) \in Seq(Chr)
      /\ NoControls(Escape(f.type)) /\ NoControls(Escape(f.content))
  BY <1>4, EscapeHoldsNoControls DEF NoControls
<1>6. Line(f) \in Seq(Chr) /\ IsLine(Line(f), Escape(f.type), Escape(f.content))
  BY <1>3, <1>5, LineIsMade DEF Line
<1> QED
  BY <1>2, <1>4, <1>5, <1>6

LEMMA StartsAreNumbers ==
  ASSUME NEW text \in Seq(Chr), NEW i \in LineStarts(text)
  PROVE  i \in Nat \ {0}
BY DEF LineStarts, Newlines

(* The line of f is on the file, whole.                                    *)
WholeAt(text, i, f) == f \in Facts /\ LineIsAt(text, i, Line(f))

LEMMA WholeLineIsRead ==
  ASSUME NEW text \in Seq(Chr), NEW i \in LineStarts(text), NEW f, WholeAt(text, i, f)
  PROVE  Parsed(LineAt(text, i)) = f /\ f \in FactsOn(text)
<1>1. f \in Facts /\ LineIsAt(text, i, Line(f))
  BY DEF WholeAt
<1>2. i \in Nat \ {0}
  BY StartsAreNumbers
<1>3. /\ Tabs(LineAt(text, i)) # {}
      /\ Parsed(LineAt(text, i)) = [type |-> f.type, content |-> f.content]
  BY <1>1, <1>2, FactsAreText, LineIsParsed
<1>4. Parsed(LineAt(text, i)) = f
  BY <1>1, <1>3, FactsAreText
<1> QED
  BY <1>3, <1>4 DEF FactsOn

WholeLines(text, fs) == \A f \in fs : \E i \in LineStarts(text) : WholeAt(text, i, f)

LEMMA WholeLinesAreRead ==
  ASSUME NEW text \in Seq(Chr), NEW fs, WholeLines(text, fs)
  PROVE  fs \subseteq FactsOn(text)
BY WholeLineIsRead DEF WholeLines

(* Every line but those beginning in T was written whole.                  *)
Accounted(text, T, fs) ==
  /\ IsFiniteSet(T)
  /\ \A i \in LineStarts(text) \ T : i = Len(text) + 1 \/ \E f \in fs : WholeAt(text, i, f)

TornAtMost(text, n, fs) == \E T : Accounted(text, T, fs) /\ Cardinality(T) <= n

(* After the last newline comes a line without a tab.                      *)
LEMMA NothingAtTheEnd ==
  ASSUME NEW text \in Seq(Chr)
  PROVE  Tabs(LineAt(text, Len(text) + 1)) = {}
<1> DEFINE n == Len(text)
           M == {j \in Newlines(text) \cup {n + 1} : j >= n + 1}
<1>1. n \in Nat /\ M \in SUBSET Nat /\ n + 1 \in M /\ \A x \in M : n + 1 <= x
  BY DEF Newlines
<1>2. Min(M) = n + 1
  <2> HIDE DEF M, n
  <2> QED
    BY <1>1, MinIs
<1>3. Min(M) - 1 = n /\ ~ (n >= n + 1)
  BY <1>1, <1>2
<1>4. LineAt(text, n + 1) = SubSeq(text, n + 1, n)
  <2> HIDE DEF n
  <2> QED
    BY <1>3 DEF LineAt, n
<1>5. SubSeq(text, n + 1, n) = <<>>
  BY <1>1
<1> QED
  BY <1>4, <1>5 DEF Tabs

LEMMA FewStrangers ==
  ASSUME NEW text \in Seq(Chr), NEW fs, NEW n \in Nat, TornAtMost(text, n, fs)
  PROVE  IsFiniteSet(FactsOn(text) \ fs) /\ Cardinality(FactsOn(text) \ fs) <= n
<1>1. PICK T : Accounted(text, T, fs) /\ Cardinality(T) <= n
  BY DEF TornAtMost
<1> DEFINE image == {Parsed(LineAt(text, i)) : i \in T}
           read == [i \in T |-> Parsed(LineAt(text, i))]
<1>2. FactsOn(text) \ fs \subseteq image
  <2> SUFFICES ASSUME NEW i \in LineStarts(text), Tabs(LineAt(text, i)) # {},
                      Parsed(LineAt(text, i)) \notin fs
               PROVE  i \in T
    BY DEF FactsOn
  <2>1. i # Len(text) + 1
    BY NothingAtTheEnd
  <2>2. ~ \E f \in fs : WholeAt(text, i, f)
    BY WholeLineIsRead
  <2> QED
    BY <1>1, <2>1, <2>2 DEF Accounted
<1>3. read \in Surjection(T, image) /\ IsFiniteSet(T)
  BY <1>1 DEF Surjection, Accounted
<1>4. IsFiniteSet(image) /\ Cardinality(image) <= Cardinality(T)
  <2> HIDE DEF read, image
  <2> QED
    BY <1>3, FS_Surjection
<1>5. /\ IsFiniteSet(FactsOn(text) \ fs)
      /\ Cardinality(FactsOn(text) \ fs) <= Cardinality(image)
  <2> HIDE DEF image
  <2> QED
    BY <1>2, <1>4, FS_Subset
<1>6. /\ Cardinality(FactsOn(text) \ fs) \in Nat /\ Cardinality(image) \in Nat
      /\ Cardinality(T) \in Nat
  <2> HIDE DEF image
  <2> QED
    BY <1>3, <1>4, <1>5, FS_CardinalityType
<1> QED
  BY <1>1, <1>4, <1>5, <1>6

(* What append writes, whole or in part: no newline before its end.        *)
Appended(more) == more \in Seq(Chr) /\ \A k \in 1..(Len(more) - 1) : more[k] # "\n"

LEMMA FileGrows ==
  ASSUME NEW text \in Seq(Chr), NEW more \in Seq(Chr)
  PROVE  /\ text \o more \in Seq(Chr) /\ Joined(text \o more, text, more)
         /\ LineStarts(text) \subseteq LineStarts(text \o more)
         /\ \A i \in LineStarts(text) : \A f : WholeAt(text, i, f) => WholeAt(text \o more, i, f)
<1> DEFINE text2 == text \o more
<1>1. text2 \in Seq(Chr) /\ Joined(text2, text, more)
  BY ConcatJoins
<1> HIDE DEF text2
<1>2. /\ Len(text) \in Nat /\ Len(text2) \in Nat /\ Len(text) <= Len(text2)
      /\ \A k \in 1..Len(text) : text2[k] = text[k]
  BY <1>1 DEF Joined
<1>3. Newlines(text) \subseteq Newlines(text2)
  <2>1. DOMAIN text = 1..Len(text) /\ DOMAIN text2 = 1..Len(text2)
    BY <1>1
  <2> QED
    BY <1>2, <2>1 DEF Newlines
<1>4. ASSUME NEW i \in LineStarts(text), NEW f, WholeAt(text, i, f)
      PROVE  WholeAt(text2, i, f)
  <2>1. i \in Nat \ {0} /\ Len(Line(f)) \in Nat
    BY <1>4, StartsAreNumbers, FactsAreText DEF WholeAt, IsLine
  <2>2. i + Len(Line(f)) - 1 <= Len(text)
    BY <1>4 DEF WholeAt, LineIsAt
  <2>3. i + Len(Line(f)) - 1 <= Len(text2)
    BY <1>2, <2>1, <2>2
  <2>4. ASSUME NEW k \in 1..Len(Line(f)) PROVE text2[(i - 1) + k] = Line(f)[k]
    <3>1. (i - 1) + k \in 1..Len(text)
      BY <1>2, <2>1, <2>2
    <3> QED
      BY <1>2, <3>1, <1>4 DEF WholeAt, LineIsAt
  <2> QED
    BY <1>4, <2>3, <2>4 DEF WholeAt, LineIsAt
<1> QED
  BY <1>1, <1>3, <1>4 DEF text2, LineStarts

LEMMA WholeLinesStay ==
  ASSUME NEW text \in Seq(Chr), NEW more \in Seq(Chr), NEW fs, WholeLines(text, fs)
  PROVE  WholeLines(text \o more, fs)
BY FileGrows DEF WholeLines

(* The only new place where a line may begin is the new end.               *)
LEMMA StartsAfter ==
  ASSUME NEW text \in Seq(Chr), NEW more, Appended(more), NEW i \in LineStarts(text \o more)
  PROVE  i \in LineStarts(text) \/ i = Len(text \o more) + 1
<1> DEFINE text2 == text \o more
<1>1. more \in Seq(Chr)
  BY DEF Appended
<1>2. text2 \in Seq(Chr) /\ Joined(text2, text, more)
  BY <1>1, ConcatJoins
<1>3. CASE i = 1
  BY <1>3 DEF LineStarts
<1>4. ASSUME NEW j \in Newlines(text2), i = j + 1
      PROVE  i \in LineStarts(text) \/ i = Len(text2) + 1
  <2> HIDE DEF text2
  <2>1. j \in 1..Len(text2) /\ text2[j] = "\n"
    BY <1>2, <1>4 DEF Newlines
  <2>2. CASE j \in 1..Len(text) /\ text2[j] = text[j]
    <3>1. DOMAIN text = 1..Len(text)
      OBVIOUS
    <3>2. j \in Newlines(text)
      BY <2>1, <2>2, <3>1 DEF Newlines
    <3> QED
      BY <1>4, <3>2 DEF LineStarts
  <2>3. CASE j - Len(text) \in 1..Len(more) /\ text2[j] = more[j - Len(text)]
    <3>1. j - Len(text) \notin 1..(Len(more) - 1)
      BY <2>1, <2>3 DEF Appended
    <3>2. Len(text) \in Nat /\ Len(more) \in Nat /\ Len(text2) = Len(text) + Len(more)
      BY <1>2 DEF Joined
    <3>3. j = Len(text2)
      BY <2>1, <2>3, <3>1, <3>2
    <3> QED
      BY <1>4, <3>3
  <2> QED
    BY <1>2, <2>1, <2>2, <2>3 DEF Joined
<1> QED
  BY <1>3, <1>4 DEF LineStarts

(* A part of a line makes at most one more line that nobody wrote.         *)
LEMMA TornLineCounts ==
  ASSUME NEW text \in Seq(Chr), NEW more, Appended(more), NEW n \in Nat, NEW fs, NEW gs,
         TornAtMost(text, n, fs), fs \subseteq gs
  PROVE  TornAtMost(text \o more, n + 1, gs)
<1>1. PICK T : Accounted(text, T, fs) /\ Cardinality(T) <= n
  BY DEF TornAtMost
<1> DEFINE U == T \cup {Len(text) + 1}
<1>2. IsFiniteSet(T) /\ Cardinality(T) \in Nat
  BY <1>1, FS_CardinalityType DEF Accounted
<1>3. IsFiniteSet(U) /\ Cardinality(U) <= n + 1
  <2>1. IsFiniteSet(U) /\ Cardinality(U) = IF Len(text) + 1 \in T THEN Cardinality(T)
                                           ELSE Cardinality(T) + 1
    BY <1>2, FS_AddElement
  <2> HIDE DEF U
  <2> QED
    BY <1>1, <1>2, <2>1
<1>4. more \in Seq(Chr)
  BY DEF Appended
<1>5. ASSUME NEW i \in LineStarts(text \o more) \ U
      PROVE  i = Len(text \o more) + 1 \/ \E f \in gs : WholeAt(text \o more, i, f)
  <2>1. CASE i \in LineStarts(text)
    <3>1. \E f \in fs : WholeAt(text, i, f)
      BY <1>1, <2>1 DEF Accounted
    <3> QED
      BY <1>4, <2>1, <3>1, FileGrows
  <2> QED
    BY <2>1, StartsAfter
<1>6. Accounted(text \o more, U, gs)
  BY <1>3, <1>5 DEF Accounted
<1> QED
  BY <1>3, <1>6 DEF TornAtMost

(* A whole line makes none, be it after a torn one.                        *)
LEMMA LineWritten ==
  ASSUME NEW text \in Seq(Chr), NEW f \in Facts
  PROVE  /\ Appended(Line(f))
         /\ WholeAt(text \o Line(f), Len(text) + 1, f)
<1> DEFINE l == Line(f)
<1>1. l \in Seq(Chr) /\ IsLine(l, Escape(f.type), Escape(f.content))
      /\ \A k \in 1..(Len(l) - 1) : l[k] \notin {"\n", "\r"}
  BY FactsAreText, LineCharacters
<1> HIDE DEF l
<1>2. Joined(text \o l, text, l)
  BY <1>1, ConcatJoins
<1>3. LineIsAt(text \o l, Len(text) + 1, l)
  <2>1. /\ Len(text) \in Nat /\ Len(l) \in Nat /\ Len(text \o l) = Len(text) + Len(l)
        /\ \A k \in 1..Len(l) : (text \o l)[Len(text) + k] = l[k]
    BY <1>2 DEF Joined
  <2>2. (Len(text) + 1) + Len(l) - 1 <= Len(text \o l) /\ (Len(text) + 1) - 1 = Len(text)
    BY <2>1
  <2> QED
    BY <2>1, <2>2 DEF LineIsAt
<1>4. Appended(l)
  BY <1>1 DEF Appended
<1> QED
  BY <1>3, <1>4 DEF WholeAt, l

LEMMA LineCountsForItself ==
  ASSUME NEW text \in Seq(Chr), NEW f \in Facts, NEW n \in Nat, NEW fs, TornAtMost(text, n, fs)
  PROVE  TornAtMost(text \o Line(f), n, fs \cup {f})
<1>1. PICK T : Accounted(text, T, fs) /\ Cardinality(T) <= n
  BY DEF TornAtMost
<1>2. Line(f) \in Seq(Chr)
  BY FactsAreText
<1>3. ASSUME NEW i \in LineStarts(text \o Line(f)) \ T
      PROVE  i = Len(text \o Line(f)) + 1 \/ \E g \in fs \cup {f} : WholeAt(text \o Line(f), i, g)
  <2>1. CASE i \in LineStarts(text) /\ i # Len(text) + 1
    <3>1. \E g \in fs : WholeAt(text, i, g)
      BY <1>1, <2>1 DEF Accounted
    <3> QED
      BY <1>2, <2>1, <3>1, FileGrows
  <2>2. CASE i = Len(text) + 1
    BY <2>2, LineWritten
  <2> QED
    BY <2>1, <2>2, LineWritten, StartsAfter
<1> QED
  BY <1>1, <1>3 DEF TornAtMost, Accounted

(* After a whole line comes the start of the next; after a torn one none.  *)
LEMMA NextLineStarts ==
  ASSUME NEW text \in Seq(Chr)
  PROVE  ~ (text # <<>> /\ Last(text) # "\n") => Len(text) + 1 \in LineStarts(text)
<1>1. CASE text = <<>>
  BY <1>1 DEF LineStarts
<1>2. CASE text # <<>> /\ Last(text) = "\n"
  <2>1. Len(text) \in DOMAIN text /\ text[Len(text)] = "\n"
    BY <1>2 DEF Last
  <2> QED
    BY <2>1 DEF LineStarts, Newlines
<1> QED
  BY <1>1, <1>2

LEMMA TornStays ==
  ASSUME NEW text \in Seq(Chr), NEW n \in Nat, NEW m \in Nat, n <= m, NEW fs, NEW gs,
         fs \subseteq gs, TornAtMost(text, n, fs)
  PROVE  TornAtMost(text, m, gs)
<1>1. PICK T : Accounted(text, T, fs) /\ Cardinality(T) <= n
  BY DEF TornAtMost
<1>2. Accounted(text, T, gs)
  BY <1>1 DEF Accounted
<1>3. Cardinality(T) \in Nat
  BY <1>1, FS_CardinalityType DEF Accounted
<1>4. Cardinality(T) <= m
  BY <1>1, <1>3
<1> QED
  BY <1>2, <1>4 DEF TornAtMost

LEMMA NothingOnTheFile ==
  TornAtMost(<<>>, 0, {}) /\ WholeLines(<<>>, {}) /\ <<>> \in Seq(Chr)
<1>1. LineStarts(<<>>) = {1} /\ Len(<<>>) + 1 = 1
  BY DEF LineStarts, Newlines
<1>2. IsFiniteSet({}) /\ Cardinality({}) = 0
  BY FS_EmptySet
<1>3. Accounted(<<>>, {}, {})
  BY <1>1, <1>2 DEF Accounted
<1> QED
  BY <1>2, <1>3 DEF TornAtMost, WholeLines

LEMMA PartOfALine ==
  ASSUME NEW f \in Facts, NEW n \in 0..Len(Line(f))
  PROVE  Appended(SubSeq(Line(f), 1, n))
<1> DEFINE l == Line(f)
           part == SubSeq(l, 1, n)
<1>1. l \in Seq(Chr) /\ \A k \in 1..(Len(l) - 1) : l[k] # "\n"
  BY NothingOnTheFile, LineWritten DEF Appended
<1> HIDE DEF l
<1>2. Len(l) \in Nat /\ n \in Nat /\ n <= Len(l)
  BY <1>1 DEF l
<1>3. part \in Seq(Chr) /\ Len(part) = n /\ \A k \in 1..n : part[k] = l[k]
  BY <1>1, <1>2
<1> HIDE DEF part
<1>4. \A k \in 1..(Len(part) - 1) : k \in 1..(Len(l) - 1) /\ k \in 1..n
  BY <1>2, <1>3
<1>5. \A k \in 1..(Len(part) - 1) : part[k] # "\n"
  BY <1>1, <1>3, <1>4
<1>6. Appended(part)
  BY <1>3, <1>5 DEF Appended
<1> QED
  BY <1>6 DEF part, l

-----------------------------------------------------------------------------
(* The store, over all runs.  The file invariant relates the characters on *)
(* it to the history; the memory invariant carries it across an open.      *)
FileInv ==
  /\ disk \in Seq(Chr)
  /\ faults \in Nat
  /\ WholeLines(disk, written \ spoiled)
  /\ TornAtMost(disk, faults, appended)

MemoryInv ==
  /\ up /\ stream # "closed" /\ ~ unread => written \ spoiled \subseteq entries
  /\ up => IsFiniteSet(entries \ appended) /\ Cardinality(entries \ appended) <= faults
  /\ onFile \in BOOLEAN /\ (~ onFile => stream = "closed")

StoreInv == FileInv /\ MemoryInv

LEMMA StoreInitially == Init => StoreInv
BY NothingOnTheFile DEF Init, StoreInit, StoreInv, FileInv, MemoryInv

LEMMA OpenKeepsStore ==
  ASSUME StoreInv, NEW path \in BOOLEAN, OpenStore(path), path = onFile, UNCHANGED onFile
  PROVE  StoreInv'
<1>1. /\ UNCHANGED <<disk, written, spoiled, appended>>
      /\ faults' \in Nat /\ faults <= faults'
      /\ entries' = FactsOn(disk) \/ (entries' = {} /\ unread')
      /\ ~ onFile => stream' = "closed"
  <2>1. /\ faults' = faults \/ faults' = faults + 1
        /\ entries' = FactsOn(disk) \/ (entries' = {} /\ unread')
    BY DEF OpenStore, fileVars
  <2> QED
    BY <2>1 DEF OpenStore, fileVars, StoreInv, FileInv
<1>2. TornAtMost(disk, faults', appended)
  BY <1>1, TornStays DEF StoreInv, FileInv
<1>3. IsFiniteSet(entries' \ appended) /\ Cardinality(entries' \ appended) <= faults'
  <2>1. CASE entries' = FactsOn(disk)
    BY <1>1, <1>2, <2>1, FewStrangers DEF StoreInv, FileInv
  <2>2. CASE entries' = {}
    <3>1. entries' \ appended = {} /\ 0 <= faults'
      BY <1>1, <2>2
    <3> QED
      BY <3>1, FS_EmptySet
  <2> QED
    BY <1>1, <2>1, <2>2
<1>4. ~ unread' => written \ spoiled \subseteq entries'
  BY <1>1, WholeLinesAreRead DEF StoreInv, FileInv
<1> QED
  BY <1>1, <1>2, <1>3, <1>4 DEF StoreInv, FileInv, MemoryInv

(* A fact that is known, or one more: no more strangers.                   *)
LEMMA StrangersStay ==
  ASSUME NEW es, NEW fs, NEW es2, NEW f, NEW n \in Nat,
         es2 \subseteq es \cup {f}, IsFiniteSet(es \ fs), Cardinality(es \ fs) <= n
  PROVE  /\ IsFiniteSet(es2 \ (fs \cup {f}))
         /\ Cardinality(es2 \ (fs \cup {f})) <= n
<1> DEFINE S == es \ fs
           T == es2 \ (fs \cup {f})
<1>1. T \subseteq S /\ IsFiniteSet(S) /\ Cardinality(S) <= n
  OBVIOUS
<1> HIDE DEF S, T
<1>2. IsFiniteSet(T) /\ Cardinality(T) <= Cardinality(S)
  BY <1>1, FS_Subset
<1>3. Cardinality(T) \in Nat /\ Cardinality(S) \in Nat
  BY <1>1, <1>2, FS_CardinalityType
<1>4. IsFiniteSet(T) /\ Cardinality(T) <= n
  BY <1>1, <1>2, <1>3
<1> QED
  BY <1>4 DEF T

LEMMA AppendKeepsStore ==
  ASSUME StoreInv, NEW f, AppendFact(f), onFile => f \in Facts, UNCHANGED onFile
  PROVE  StoreInv'
<1>1. /\ up /\ UNCHANGED <<stream, up, unread, faults>> /\ appended' = appended \cup {f}
      /\ entries' = entries \/ entries' = entries \cup {f}
  BY DEF AppendFact
<1>2. IsFiniteSet(entries' \ appended') /\ Cardinality(entries' \ appended') <= faults'
  BY <1>1, StrangersStay DEF StoreInv, FileInv, MemoryInv
<1>3. CASE UNCHANGED fileVars
  <2>1. TornAtMost(disk, faults, appended')
    BY <1>1, TornStays DEF StoreInv, FileInv
  <2> QED
    BY <1>1, <1>2, <1>3, <2>1 DEF StoreInv, FileInv, MemoryInv, fileVars
<1>4. CASE stream = "good" /\ entries' = entries \cup {f} /\ WriteLine(f)
  <2>1. /\ f \in Facts /\ disk' = disk \o Line(f) /\ written' = written \cup {f}
        /\ spoiled' = IF ~ Torn THEN spoiled \ {f}
                      ELSE IF f \in written THEN spoiled ELSE spoiled \cup {f}
    BY <1>4 DEF WriteLine, StoreInv, MemoryInv
  <2>2. disk \in Seq(Chr) /\ Line(f) \in Seq(Chr) /\ disk' \in Seq(Chr) /\ faults \in Nat
    BY <2>1, FactsAreText, ConcatJoins DEF StoreInv, FileInv
  <2>3. TornAtMost(disk', faults, appended')
    BY <1>1, <2>1, <2>2, LineCountsForItself DEF StoreInv, FileInv
  <2>4. WholeLines(disk', written \ spoiled)
    BY <2>1, <2>2, WholeLinesStay DEF StoreInv, FileInv
  <2>5. WholeLines(disk', written' \ spoiled')
    <3>1. CASE Torn
      <4>1. written' \ spoiled' \subseteq written \ spoiled
        BY <2>1, <3>1
      <4> QED
        BY <4>1, <2>4 DEF WholeLines
    <3>2. CASE ~ Torn
      <4>1. written' \ spoiled' \subseteq (written \ spoiled) \cup {f}
        BY <2>1, <3>2
      <4>2. Len(disk) + 1 \in LineStarts(disk \o Line(f))
        BY <2>2, <3>2, NextLineStarts, FileGrows DEF Torn
      <4>3. WholeAt(disk \o Line(f), Len(disk) + 1, f)
        BY <2>1, <2>2, LineWritten
      <4> QED
        BY <4>1, <4>2, <4>3, <2>1, <2>4 DEF WholeLines
    <3> QED
      BY <3>1, <3>2
  <2>6. ~ unread => written' \ spoiled' \subseteq entries'
    <3>1. written' \ spoiled' \subseteq (written \ spoiled) \cup {f}
      BY <2>1
    <3> QED
      BY <3>1, <1>1, <1>4 DEF StoreInv, MemoryInv
  <2> QED
    BY <1>1, <1>2, <1>4, <2>2, <2>3, <2>5, <2>6 DEF StoreInv, FileInv, MemoryInv
<1> QED
  BY <1>3, <1>4 DEF AppendFact, fileVars

LEMMA TearKeepsFile ==
  ASSUME StoreInv, NEW f \in Facts, NEW n \in 0..Len(Line(f)), TearLine(f, n)
  PROVE  FileInv'
<1> DEFINE part == SubSeq(Line(f), 1, n)
<1>1. /\ disk' = disk \o part /\ UNCHANGED <<written, spoiled>>
      /\ appended' = appended \cup {f} /\ faults' = faults + 1
  BY DEF TearLine
<1>2. Appended(part) /\ part \in Seq(Chr)
  BY PartOfALine DEF Appended
<1> HIDE DEF part
<1>3. disk \in Seq(Chr) /\ faults \in Nat /\ disk' \in Seq(Chr) /\ faults' \in Nat
  BY <1>1, <1>2, ConcatJoins DEF StoreInv, FileInv
<1>4. TornAtMost(disk', faults', appended')
  BY <1>1, <1>2, <1>3, TornLineCounts DEF StoreInv, FileInv
<1>5. WholeLines(disk', written \ spoiled)
  BY <1>1, <1>2, <1>3, WholeLinesStay DEF StoreInv, FileInv
<1> QED
  BY <1>1, <1>3, <1>4, <1>5 DEF FileInv

LEMMA FailureKeepsStore ==
  ASSUME StoreInv, NEW f \in Facts, NEW n \in 0..Len(Line(f)), onFile,
         AppendFails(f, n) \/ CrashInAppend(f, n), UNCHANGED onFile
  PROVE  StoreInv'
<1>1. TearLine(f, n)
  BY DEF AppendFails, CrashInAppend
<1>2. FileInv'
  BY <1>1, TearKeepsFile
<1>3. MemoryInv'
  <2>1. CASE AppendFails(f, n)
    <3>1. /\ up /\ stream = "good" /\ up' /\ entries' = entries \cup {f}
          /\ appended' = appended \cup {f} /\ faults' = faults + 1
          /\ UNCHANGED <<written, spoiled, unread>>
      BY <2>1, <1>1 DEF AppendFails, TearLine
    <3>2. faults \in Nat /\ faults <= faults' /\ faults' \in Nat
      BY <3>1 DEF StoreInv, FileInv
    <3>3. IsFiniteSet(entries' \ appended') /\ Cardinality(entries' \ appended') <= faults
      BY <3>1, <3>2, StrangersStay DEF StoreInv, MemoryInv
    <3>4. Cardinality(entries' \ appended') <= faults'
      <4>1. Cardinality(entries' \ appended') \in Nat
        BY <3>3, FS_CardinalityType
      <4> QED
        BY <3>2, <3>3, <4>1
    <3> QED
      BY <3>1, <3>3, <3>4 DEF StoreInv, MemoryInv
  <2>2. CASE CrashInAppend(f, n)
    BY <2>2 DEF CrashInAppend, MemoryInv
  <2> QED
    BY <2>1, <2>2
<1> QED
  BY <1>2, <1>3 DEF StoreInv

LEMMA StepKeepsStore ==
  ASSUME StoreInv, [Next]_vars
  PROVE  StoreInv'
<1>1. CASE UNCHANGED <<storeVars, onFile>>
  BY <1>1 DEF StoreInv, FileInv, MemoryInv, storeVars, fileVars
<1>2. CASE onFile /\ StoreNext /\ UNCHANGED <<onFile, contextVars>>
  <2>1. CASE OpenStore(TRUE)
    BY <1>2, <2>1, OpenKeepsStore
  <2>2. CASE CloseStore
    BY <1>2, <2>2 DEF CloseStore, StoreInv, FileInv, MemoryInv, fileVars
  <2>3. ASSUME NEW f \in Facts, AppendFact(f) PROVE StoreInv'
    BY <1>2, <2>3, AppendKeepsStore
  <2>4. ASSUME NEW f \in Facts, NEW n \in 0..Len(Line(f)), AppendFails(f, n) \/ CrashInAppend(f, n)
        PROVE  StoreInv'
    BY <1>2, <2>4, FailureKeepsStore
  <2> QED
    BY <1>2, <2>1, <2>2, <2>3, <2>4 DEF StoreNext
<1>3. CASE ~ onFile /\ ContextNext
  <2>1. CASE OpenStore(FALSE) /\ UNCHANGED <<onFile, contextVars>>
    <3>1. onFile = FALSE
      BY <1>3 DEF StoreInv, MemoryInv
    <3> QED
      BY <2>1, <3>1, OpenKeepsStore
  <2>2. ASSUME NEW f \in ToolResults, AppendFact(f) /\ UNCHANGED <<onFile, contextVars>>
        PROVE  StoreInv'
    BY <1>3, <2>2, AppendKeepsStore
  <2>3. ASSUME NEW f \in ToolResults, RecordToolResult(f) PROVE StoreInv'
    BY <1>1, <2>3 DEF RecordToolResult
  <2>4. CASE RebuildDigest
    BY <1>1, <2>4 DEF RebuildDigest
  <2>5. ASSUME NEW recent \in Recents, RenderWorkingSet(recent) PROVE StoreInv'
    BY <1>1, <2>5 DEF RenderWorkingSet
  <2> QED
    BY <1>3, <2>1, <2>2, <2>3, <2>4, <2>5 DEF ContextNext
<1>4. CASE UNCHANGED vars
  BY <1>1, <1>4 DEF vars
<1> QED
  BY <1>2, <1>3, <1>4 DEF Next

(* What a store read back from its file holds, after any crashes and any   *)
(* failed writes, for facts of any characters (fact_store.cpp:74-90): every*)
(* fact written whole on a line of its own, and at most one fact nobody    *)
(* appended for each fault.                                                *)
THEOREM ReloadFindsWhatWasWritten == Spec => []ReloadIsFaithful
<1>1. Init => StoreInv
  BY StoreInitially
<1>2. StoreInv /\ [Next]_vars => StoreInv'
  BY StepKeepsStore
<1>3. StoreInv => ReloadIsFaithful
  BY DEF StoreInv, MemoryInv, ReloadIsFaithful
<1> QED
  BY <1>1, <1>2, <1>3, PTL DEF Spec

-----------------------------------------------------------------------------
(* The digest rebuilt from the ids recorded: it can be made id by id, and  *)
(* depends on the store only through which of them are there.              *)
MergedUpto(merged, es, order) ==
  /\ merged[0] = <<>>
  /\ \A n \in 1..Len(order) : merged[n] = MergeKeys(es, merged[n - 1], order[n])

LEMMA DigestUnfolds ==
  ASSUME NEW es, NEW order, Len(order) \in Nat
  PROVE  \E merged : MergedUpto(merged, es, order) /\ DigestOf(es, order) = merged[Len(order)]
<1> DEFINE Made(n, f) == f = [k \in 0..n |-> IF k = 0 THEN <<>>
                                             ELSE MergeKeys(es, f[k - 1], order[k])]
           S == {n \in Nat : \E f : Made(n, f)}
           merged == CHOOSE f : Made(Len(order), f)
<1>1. S \in SUBSET Nat /\ 0 \in S
  <2> DEFINE f == [k \in 0..0 |-> <<>>]
  <2>1. Made(0, f)
    OBVIOUS
  <2> QED
    BY <2>1
<1>2. ASSUME NEW n \in 1..Len(order), n - 1 \in S PROVE n \in S
  <2>1. PICK f : Made(n - 1, f)
    BY <1>2
  <2> DEFINE g == [k \in 0..n |-> IF k <= n - 1 THEN f[k] ELSE MergeKeys(es, f[n - 1], order[n])]
  <2>2. ASSUME NEW k \in 0..n
        PROVE  g[k] = IF k = 0 THEN <<>> ELSE MergeKeys(es, g[k - 1], order[k])
    <3>1. CASE k <= n - 1
      <4>1. k \in 0..(n - 1) /\ g[k] = f[k] /\ (k # 0 => g[k - 1] = f[k - 1])
        BY <3>1
      <4>2. f[k] = IF k = 0 THEN <<>> ELSE MergeKeys(es, f[k - 1], order[k])
        BY <2>1, <4>1
      <4> QED
        BY <4>1, <4>2
    <3>2. CASE ~ (k <= n - 1)
      <4>1. k = n /\ k # 0 /\ g[k] = MergeKeys(es, f[n - 1], order[n]) /\ g[k - 1] = f[n - 1]
        BY <3>2
      <4> QED
        BY <4>1
    <3> QED
      BY <3>1, <3>2
  <2>3. g = [k \in 0..n |-> g[k]] /\ n \in Nat
    OBVIOUS
  <2> HIDE DEF g
  <2>4. Made(n, g)
    BY <2>2, <2>3
  <2> QED
    BY <2>3, <2>4
<1>3. \E f : Made(Len(order), f)
  <2>1. \A n \in 0..Len(order) : n \in S
    <3> HIDE DEF S
    <3> QED
      BY <1>1, <1>2, PrefixInduction
  <2> QED
    BY <2>1
<1>4. Made(Len(order), merged)
  BY <1>3
<1>5. DigestOf(es, order) = merged[Len(order)]
  BY DEF DigestOf
<1> HIDE DEF merged
<1>6. MergedUpto(merged, es, order)
  BY <1>4 DEF MergedUpto
<1> QED
  BY <1>5, <1>6

SameHeld(es, es2, order) ==
  \A i \in 1..Len(order) : Holds(es, order[i]) <=> Holds(es2, order[i])

Extends(order, order2) ==
  /\ Len(order) \in Nat /\ Len(order2) \in Nat /\ Len(order) <= Len(order2)
  /\ \A i \in 1..Len(order) : order2[i] = order[i]

LEMMA MergedAgree ==
  ASSUME NEW es, NEW es2, NEW order, NEW order2, NEW a, NEW b,
         Extends(order, order2), SameHeld(es, es2, order),
         MergedUpto(a, es, order), MergedUpto(b, es2, order2)
  PROVE  a[Len(order)] = b[Len(order)]
<1> DEFINE S == {p \in Nat : p <= Len(order) => a[p] = b[p]}
<1>1. S \in SUBSET Nat /\ 0 \in S
  BY DEF MergedUpto
<1>2. ASSUME NEW q \in 1..Len(order), q - 1 \in S PROVE q \in S
  <2>1. Len(order) \in Nat /\ q \in 1..Len(order2) /\ order2[q] = order[q] /\ a[q - 1] = b[q - 1]
    BY <1>2 DEF Extends
  <2>2. /\ a[q] = MergeKeys(es, a[q - 1], order[q])
        /\ b[q] = MergeKeys(es2, a[q - 1], order[q])
    BY <2>1 DEF MergedUpto
  <2>3. MergeKeys(es, a[q - 1], order[q]) = MergeKeys(es2, a[q - 1], order[q])
    <3>1. Holds(es, order[q]) <=> Holds(es2, order[q])
      BY DEF SameHeld
    <3> QED
      BY <3>1, Zenon DEF MergeKeys
  <2>4. q \in Nat
    OBVIOUS
  <2> QED
    BY <2>2, <2>3, <2>4
<1>3. Len(order) \in Nat
  BY DEF Extends
<1>4. \A n \in 0..Len(order) : n \in S
  <2> HIDE DEF S
  <2> QED
    BY <1>1, <1>2, <1>3, PrefixInduction
<1> QED
  BY <1>3, <1>4

LEMMA DigestOfNothing ==
  ASSUME NEW es
  PROVE  DigestOf(es, <<>>) = <<>>
<1>1. Len(<<>>) = 0
  OBVIOUS
<1>2. PICK merged : MergedUpto(merged, es, <<>>) /\ DigestOf(es, <<>>) = merged[Len(<<>>)]
  BY <1>1, DigestUnfolds
<1> QED
  BY <1>1, <1>2 DEF MergedUpto

LEMMA DigestOfMore ==
  ASSUME NEW es, NEW T, NEW order \in Seq(T), NEW f \in T
  PROVE  DigestOf(es, Append(order, f)) = MergeKeys(es, DigestOf(es, order), f)
<1> DEFINE order2 == Append(order, f)
<1>1. /\ Len(order) \in Nat /\ Len(order2) = Len(order) + 1 /\ order2[Len(order) + 1] = f
      /\ \A i \in 1..Len(order) : order2[i] = order[i]
  OBVIOUS
<1> HIDE DEF order2
<1>2. Extends(order, order2) /\ SameHeld(es, es, order)
  BY <1>1 DEF Extends, SameHeld
<1>3. PICK a : MergedUpto(a, es, order) /\ DigestOf(es, order) = a[Len(order)]
  BY <1>1, DigestUnfolds
<1>4. PICK b : MergedUpto(b, es, order2) /\ DigestOf(es, order2) = b[Len(order2)]
  <2>1. Len(order2) \in Nat
    BY <1>1
  <2> QED
    BY <2>1, DigestUnfolds
<1>5. a[Len(order)] = b[Len(order)]
  BY <1>2, <1>3, <1>4, MergedAgree
<1>6. b[Len(order2)] = MergeKeys(es, b[Len(order)], f)
  <2>1. Len(order2) \in 1..Len(order2) /\ Len(order2) - 1 = Len(order)
    BY <1>1
  <2> QED
    BY <2>1, <1>1, <1>4 DEF MergedUpto
<1> QED
  BY <1>3, <1>4, <1>5, <1>6 DEF order2

LEMMA DigestOfLargerStore ==
  ASSUME NEW es, NEW es2, NEW order, Len(order) \in Nat, SameHeld(es, es2, order)
  PROVE  DigestOf(es2, order) = DigestOf(es, order)
<1>1. PICK a : MergedUpto(a, es, order) /\ DigestOf(es, order) = a[Len(order)]
  BY DigestUnfolds
<1>2. PICK b : MergedUpto(b, es2, order) /\ DigestOf(es2, order) = b[Len(order)]
  BY DigestUnfolds
<1>3. Extends(order, order)
  BY DEF Extends
<1> QED
  BY <1>1, <1>2, <1>3, MergedAgree

-----------------------------------------------------------------------------
(* The context manager.  Its store loses no fact, so that what was there   *)
(* when an id was recorded still is.                                       *)
AllHeld(es, b) == \A i \in 1..Len(b) : Holds(es, b[i])

HeldInv ==
  /\ fact_order \in Seq(ToolResults)
  /\ ~ early => AllHeld(entries, fact_order)
  /\ onFile \/ ~ up => fact_order = <<>> /\ digest = <<>>

ContextInv == HeldInv /\ DigestIsRebuildable

LEMMA ContextInitially == Init => ContextInv
<1> SUFFICES ASSUME Init PROVE ContextInv
  OBVIOUS
<1>1. fact_order = <<>> /\ digest = <<>>
  BY DEF Init
<1>2. HeldInv
  BY <1>1 DEF HeldInv, AllHeld
<1>3. DigestIsRebuildable
  BY <1>1, DigestOfNothing DEF DigestIsRebuildable, Rebuilt
<1> QED
  BY <1>2, <1>3 DEF ContextInv

(* Facts are only added.                                                   *)
LEMMA LargerStoreHolds ==
  ASSUME NEW es, NEW es2, es \subseteq es2, NEW b, AllHeld(es, b)
  PROVE  AllHeld(es2, b) /\ SameHeld(es, es2, b)
BY DEF AllHeld, SameHeld, Holds

LEMMA GrowingStoreKeepsContext ==
  ASSUME ContextInv, UNCHANGED <<onFile, contextVars>>, entries \subseteq entries', up => up'
  PROVE  ContextInv'
<1>1. UNCHANGED <<onFile, fact_order, digest, early>>
  BY DEF contextVars
<1>2. HeldInv'
  <2>1. ~ early => AllHeld(entries', fact_order)
    BY LargerStoreHolds DEF ContextInv, HeldInv
  <2> QED
    BY <1>1, <2>1 DEF ContextInv, HeldInv
<1>3. DigestIsRebuildable'
  <2> SUFFICES ASSUME ~ early PROVE digest = DigestOf(entries', fact_order)
    BY <1>1 DEF DigestIsRebuildable, Rebuilt
  <2>1. Len(fact_order) \in Nat /\ SameHeld(entries, entries', fact_order)
    BY LargerStoreHolds DEF ContextInv, HeldInv
  <2>2. DigestOf(entries', fact_order) = DigestOf(entries, fact_order)
    BY <2>1, DigestOfLargerStore
  <2> QED
    BY <2>2 DEF ContextInv, DigestIsRebuildable, Rebuilt
<1> QED
  BY <1>2, <1>3 DEF ContextInv

(* While the context manager has recorded nothing, any store will do.      *)
LEMMA NothingRecorded ==
  ASSUME ContextInv, UNCHANGED <<onFile, contextVars>>, onFile \/ ~ up
  PROVE  ContextInv'
<1>1. UNCHANGED <<onFile, fact_order, digest, early>>
  BY DEF contextVars
<1>2. fact_order = <<>> /\ digest = <<>>
  BY DEF ContextInv, HeldInv
<1>3. HeldInv'
  BY <1>1, <1>2 DEF HeldInv, AllHeld
<1>4. DigestIsRebuildable'
  BY <1>1, <1>2, DigestOfNothing DEF DigestIsRebuildable, Rebuilt
<1> QED
  BY <1>3, <1>4 DEF ContextInv

LEMMA RecordKeepsContext ==
  ASSUME ContextInv, up, ~ onFile, NEW f \in ToolResults, RecordToolResult(f)
  PROVE  ContextInv'
<1>1. /\ UNCHANGED <<entries, up, onFile>> /\ fact_order' = Append(fact_order, f)
      /\ digest' = MergeKeys(entries, digest, f)
      /\ early' = (early \/ ~ Holds(entries, f))
  BY DEF RecordToolResult, storeVars
<1>2. fact_order \in Seq(ToolResults)
  BY DEF ContextInv, HeldInv
<1>3. ~ early' => AllHeld(entries, fact_order')
  <2> SUFFICES ASSUME ~ early', NEW i \in 1..Len(fact_order')
               PROVE  Holds(entries, fact_order'[i])
    BY DEF AllHeld
  <2>1. /\ Len(fact_order) \in Nat /\ Len(fact_order') = Len(fact_order) + 1
        /\ fact_order'[Len(fact_order) + 1] = f
        /\ \A k \in 1..Len(fact_order) : fact_order'[k] = fact_order[k]
    BY <1>1, <1>2
  <2>2. ~ early /\ Holds(entries, f)
    BY <1>1
  <2>3. CASE i \in 1..Len(fact_order)
    BY <2>1, <2>2, <2>3 DEF ContextInv, HeldInv, AllHeld
  <2>4. CASE i \notin 1..Len(fact_order)
    <3>1. i = Len(fact_order) + 1
      BY <2>1, <2>4
    <3> QED
      BY <2>1, <2>2, <3>1
  <2> QED
    BY <2>3, <2>4
<1>4. HeldInv'
  <2>1. fact_order' \in Seq(ToolResults)
    BY <1>1, <1>2
  <2> QED
    BY <1>1, <1>3, <2>1 DEF ContextInv, HeldInv
<1>5. DigestIsRebuildable'
  <2> SUFFICES ASSUME ~ early' PROVE digest' = DigestOf(entries, fact_order')
    BY <1>1 DEF DigestIsRebuildable, Rebuilt
  <2>1. DigestOf(entries, Append(fact_order, f))
          = MergeKeys(entries, DigestOf(entries, fact_order), f)
    BY <1>2, DigestOfMore
  <2>2. digest = DigestOf(entries, fact_order)
    BY <1>1 DEF ContextInv, DigestIsRebuildable, Rebuilt
  <2> QED
    BY <1>1, <2>1, <2>2
<1> QED
  BY <1>4, <1>5 DEF ContextInv

LEMMA RebuildKeepsContext ==
  ASSUME ContextInv, up, ~ onFile, RebuildDigest
  PROVE  ContextInv'
<1>1. /\ UNCHANGED <<entries, up, onFile, fact_order, early>>
      /\ digest' = DigestOf(entries, fact_order)
  BY DEF RebuildDigest, storeVars, Rebuilt
<1>2. HeldInv'
  BY <1>1 DEF ContextInv, HeldInv
<1>3. DigestIsRebuildable'
  BY <1>1 DEF DigestIsRebuildable, Rebuilt
<1> QED
  BY <1>2, <1>3 DEF ContextInv

LEMMA RenderKeepsContext ==
  ASSUME ContextInv, NEW recent \in Recents, RenderWorkingSet(recent)
  PROVE  ContextInv'
<1>1. UNCHANGED <<entries, up, onFile, fact_order, digest, early>>
  BY DEF RenderWorkingSet, storeVars
<1> QED
  BY <1>1 DEF ContextInv, HeldInv, DigestIsRebuildable, Rebuilt

LEMMA StepKeepsContext ==
  ASSUME ContextInv, [Next]_vars
  PROVE  ContextInv'
<1>1. CASE onFile /\ StoreNext /\ UNCHANGED <<onFile, contextVars>>
  BY <1>1, NothingRecorded
<1>2. CASE ~ onFile /\ ContextNext
  <2>1. CASE OpenStore(FALSE) /\ UNCHANGED <<onFile, contextVars>>
    BY <2>1, NothingRecorded DEF OpenStore
  <2>2. ASSUME NEW f \in ToolResults, AppendFact(f), UNCHANGED <<onFile, contextVars>>
        PROVE  ContextInv'
    <3>1. entries \subseteq entries' /\ (up => up')
      BY <2>2 DEF AppendFact
    <3> QED
      BY <2>2, <3>1, GrowingStoreKeepsContext
  <2>3. ASSUME up, NEW f \in ToolResults, RecordToolResult(f) PROVE ContextInv'
    BY <1>2, <2>3, RecordKeepsContext
  <2>4. CASE up /\ RebuildDigest
    BY <1>2, <2>4, RebuildKeepsContext
  <2>5. ASSUME up, NEW recent \in Recents, RenderWorkingSet(recent) PROVE ContextInv'
    BY <1>2, <2>5, RenderKeepsContext
  <2> QED
    BY <1>2, <2>1, <2>2, <2>3, <2>4, <2>5 DEF ContextNext
<1>3. CASE UNCHANGED vars
  BY <1>3, GrowingStoreKeepsContext DEF vars, storeVars
<1> QED
  BY <1>1, <1>2, <1>3 DEF Next

LEMMA ContextAlways == Spec => []ContextInv
<1>1. Init => ContextInv
  BY ContextInitially
<1>2. ContextInv /\ [Next]_vars => ContextInv'
  BY StepKeepsContext
<1> QED
  BY <1>1, <1>2, PTL DEF Spec

(* The digest kept result by result is the one rebuild_digest would make   *)
(* (context_manager.cpp:28 and :39), whatever keys the results hold, how   *)
(* often they are recorded and how many, unless an id came too early.      *)
THEOREM DigestCanBeRebuilt == Spec => []DigestIsRebuildable
<1>1. ContextInv => DigestIsRebuildable
  BY DEF ContextInv
<1> QED
  BY <1>1, ContextAlways, PTL
=============================================================================

------------------------ MODULE PrometheusTextProofs ------------------------
(***************************************************************************)
(* What generateMetric writes, for help texts and label values of every    *)
(* length and any number of labels.                                        *)
(***************************************************************************)
EXTENDS PrometheusText, SequenceTheorems, WellFoundedInduction, TLAPS

-----------------------------------------------------------------------------
(* Flattening, step by step. *)

(* A set of numbers that has 0, and with a number the next one, has all:   *)
(* the least number outside would follow one inside.                       *)
LEMMA AllNumbers ==
  ASSUME NEW P \in SUBSET Nat, 0 \in P, \A n \in P : n + 1 \in P
  PROVE  P = Nat
<1> DEFINE others == Nat \ P
<1> SUFFICES ASSUME others # {} PROVE FALSE
  OBVIOUS
<1>1. PICK i \in others : \A j \in others : ~ (<<j, i>> \in OpToRel(<, Nat))
  BY NatLessThanWellFounded, WFMin
<1>2. i \in Nat /\ i # 0 /\ i - 1 \in Nat
  OBVIOUS
<1>3. i - 1 \in P
  <2>1. i - 1 < i
    BY <1>2
  <2> QED BY <1>1, <1>2, <2>1 DEF OpToRel
<1>4. (i - 1) + 1 = i
  BY <1>2
<1> QED BY <1>3, <1>4

(* The recursive function inside FlattenSeq. *)
Flattens(f, seqs, n) ==
  f = [i \in 1..n |-> IF i = 1 THEN seqs[i] ELSE f[i - 1] \o seqs[i]]

(* There is such a function. *)
LEMMA FlattenExists ==
  ASSUME NEW seqs
  PROVE  \A n \in Nat : \E f : Flattens(f, seqs, n)
<1> DEFINE P == {n \in Nat : \E f : Flattens(f, seqs, n)}
<1>1. 0 \in P
  <2>1. Flattens([i \in 1..0 |-> 0], seqs, 0)
    BY DEF Flattens
  <2> QED BY <2>1
<1>2. ASSUME NEW n \in P PROVE n + 1 \in P
  <2>1. PICK f : Flattens(f, seqs, n)
    OBVIOUS
  <2> DEFINE last == IF n + 1 = 1 THEN seqs[n + 1] ELSE f[n] \o seqs[n + 1]
             g == [i \in 1..n + 1 |-> IF i = n + 1 THEN last ELSE f[i]]
             h == [i \in 1..n + 1 |->
                     IF i = 1 THEN seqs[i] ELSE g[i - 1] \o seqs[i]]
  <2>2. ASSUME NEW i \in 1..n + 1 PROVE g[i] = h[i]
    <3>1. CASE i = n + 1
      BY <3>1
    <3>2. CASE i # n + 1
      <4>1. i \in 1..n
        BY <3>2
      <4>2. f[i] = IF i = 1 THEN seqs[i] ELSE f[i - 1] \o seqs[i]
        BY <2>1, <4>1 DEF Flattens
      <4>3. i # 1 => i - 1 \in 1..n + 1 /\ i - 1 # n + 1
        BY <4>1
      <4> QED BY <3>2, <4>1, <4>2, <4>3
    <3> QED BY <3>1, <3>2
  <2>3. g = h
    BY <2>2
  <2>4. Flattens(g, seqs, n + 1)
    BY <2>3, Zenon DEF Flattens
  <2> QED BY <2>4
<1> HIDE DEF P
<1>3. P = Nat
  <2>1. P \in SUBSET Nat
    BY DEF P
  <2> QED BY <1>1, <1>2, <2>1, AllNumbers
<1> QED BY <1>3 DEF P

(* What comes of the first, the first two, ... of some sequences. *)
Heads(S, seqs) ==
  CHOOSE f \in [0..Len(seqs) -> Seq(S)] :
    /\ f[0] = <<>>
    /\ \A i \in 1..Len(seqs) : f[i] = f[i - 1] \o seqs[i]
    /\ FlattenSeq(seqs) = f[Len(seqs)]

(* FlattenSeq appends one sequence after the other. *)
LEMMA HeadsFlatten ==
  ASSUME NEW S, NEW seqs \in Seq(Seq(S))
  PROVE  /\ Heads(S, seqs) \in [0..Len(seqs) -> Seq(S)]
         /\ Heads(S, seqs)[0] = <<>>
         /\ \A i \in 1..Len(seqs) :
              Heads(S, seqs)[i] = Heads(S, seqs)[i - 1] \o seqs[i]
         /\ FlattenSeq(seqs) = Heads(S, seqs)[Len(seqs)]
<1> DEFINE n == Len(seqs)
           g == CHOOSE f : Flattens(f, seqs, n)
           h == [i \in 0..n |-> IF i = 0 THEN <<>> ELSE g[i]]
<1>0. n \in Nat /\ \A i \in 1..n : seqs[i] \in Seq(S)
  OBVIOUS
<1>1. Flattens(g, seqs, n)
  BY <1>0, FlattenExists
<1>2. FlattenSeq(seqs) = IF n = 0 THEN seqs ELSE g[n]
  BY DEF FlattenSeq, Flattens
<1> HIDE DEF g
<1>3. \A i \in 1..n : g[i] = IF i = 1 THEN seqs[i] ELSE g[i - 1] \o seqs[i]
  BY <1>1 DEF Flattens
<1> HIDE DEF n
<1>4. \A i \in 1..n : h[i] = h[i - 1] \o seqs[i]
  <2> SUFFICES ASSUME NEW i \in 1..n PROVE h[i] = h[i - 1] \o seqs[i]
    OBVIOUS
  <2>1. h[i] = g[i] /\ i - 1 \in 0..n
    BY <1>0
  <2>2. CASE i = 1
    <3>1. h[i - 1] = <<>> /\ <<>> \o seqs[i] = seqs[i]
      BY <1>0, <2>2, ConcatEmptySeq
    <3> QED BY <1>3, <2>1, <2>2, <3>1
  <2>3. CASE i # 1
    <3>1. h[i - 1] = g[i - 1]
      BY <1>0, <2>1, <2>3
    <3>2. g[i] = g[i - 1] \o seqs[i]
      BY <1>3, <2>3
    <3> QED BY <2>1, <3>1, <3>2
  <2> QED BY <2>2, <2>3
<1>5. \A i \in 0..n : h[i] \in Seq(S)
  <2> DEFINE P == {i \in Nat : i <= n => h[i] \in Seq(S)}
  <2>1. 0 \in P
    BY <1>0
  <2>2. ASSUME NEW i \in P PROVE i + 1 \in P
    <3> SUFFICES ASSUME i + 1 <= n PROVE h[i + 1] \in Seq(S)
      OBVIOUS
    <3>1. i + 1 \in 1..n /\ (i + 1) - 1 = i /\ i <= n
      BY <1>0
    <3>2. h[i] \in Seq(S) /\ seqs[i + 1] \in Seq(S)
      BY <1>0, <3>1
    <3> HIDE DEF h
    <3>3. h[i + 1] = h[i] \o seqs[i + 1]
      BY <1>4, <3>1
    <3> QED BY <3>2, <3>3, ConcatProperties
  <2> HIDE DEF P
  <2>3. P = Nat
    <3>1. P \in SUBSET Nat
      BY DEF P
    <3> QED BY <2>1, <2>2, <3>1, AllNumbers
  <2>4. \A i \in Nat : i <= n => h[i] \in Seq(S)
    BY <2>3 DEF P
  <2> HIDE DEF h
  <2> QED BY <1>0, <2>4
<1>6. h \in [0..n -> Seq(S)] /\ h[0] = <<>>
  BY <1>0, <1>5
<1>7. FlattenSeq(seqs) = h[n]
  BY <1>0, <1>2 DEF n
<1> HIDE DEF h
<1> QED BY <1>4, <1>6, <1>7, Zenon DEF Heads, n

-----------------------------------------------------------------------------
(* Escaping, round by round. *)

Tokens ==
  Characters \cup {"n", "# HELP ", "# TYPE ", "name", "type", "label", "data",
                   "time", " ", "=", ",", "{", "}"}

Piece(c, special) ==
  IF c = NewLine THEN <<Backslash, "n">>
  ELSE IF c \in special THEN <<Backslash, c>> ELSE <<c>>

(* The text, escaped up to its first, second, ... character. *)
EscapedHeads(text, special) ==
  Heads(Tokens, [k \in DOMAIN text |-> Piece(text[k], special)])

(* Characters are tokens. *)
LEMMA CharactersAreTokens ==
  /\ Characters \subseteq Tokens
  /\ Quote \in Characters /\ Backslash \in Characters
  /\ NewLine \in Characters
  /\ Seq(Characters) \subseteq Seq(Tokens)
<1>1. /\ Characters \subseteq Tokens
      /\ Quote \in Characters /\ Backslash \in Characters
      /\ NewLine \in Characters
  BY TextAssumption DEF Tokens
<1>2. ASSUME NEW s \in Seq(Characters) PROVE s \in Seq(Tokens)
  BY <1>1, SeqMonotonic
<1> QED BY <1>1, <1>2

(* The reference appends the characters, escaped one by one. *)
LEMMA EscapedCharacters ==
  ASSUME NEW text \in Seq(Characters), NEW special
  PROVE  LET h == EscapedHeads(text, special)
         IN /\ h \in [0..Len(text) -> Seq(Tokens)]
            /\ h[0] = <<>>
            /\ \A k \in 1..Len(text) :
                 h[k] = h[k - 1] \o Piece(text[k], special)
            /\ Escaped(text, special) = h[Len(text)]
<1> DEFINE seqs == [k \in DOMAIN text |-> Piece(text[k], special)]
<1>1. Len(text) \in Nat /\ DOMAIN text = 1..Len(text)
  OBVIOUS
<1>2. \A k \in 1..Len(text) : Piece(text[k], special) \in Seq(Tokens)
  <2> SUFFICES ASSUME NEW k \in 1..Len(text)
               PROVE  Piece(text[k], special) \in Seq(Tokens)
    OBVIOUS
  <2>1. text[k] \in Characters
    OBVIOUS
  <2>2. text[k] \in Tokens /\ Backslash \in Tokens
    BY <2>1, CharactersAreTokens
  <2>3. "n" \in Tokens
    BY DEF Tokens
  <2> QED BY <2>2, <2>3 DEF Piece
<1>3. /\ seqs \in Seq(Seq(Tokens)) /\ Len(seqs) = Len(text)
      /\ \A k \in 1..Len(text) : seqs[k] = Piece(text[k], special)
  BY <1>1, <1>2
<1>4. Escaped(text, special) = FlattenSeq(seqs)
  BY DEF Escaped, Piece
<1>5. EscapedHeads(text, special) = Heads(Tokens, seqs)
  BY DEF EscapedHeads
<1> HIDE DEF seqs
<1> DEFINE h == Heads(Tokens, seqs)
<1>6. /\ h \in [0..Len(seqs) -> Seq(Tokens)]
      /\ h[0] = <<>>
      /\ \A k \in 1..Len(seqs) : h[k] = h[k - 1] \o seqs[k]
      /\ FlattenSeq(seqs) = h[Len(seqs)]
  BY <1>3, HeadsFlatten
<1> HIDE DEF h
<1>7. /\ h \in [0..Len(text) -> Seq(Tokens)]
      /\ \A k \in 1..Len(text) : h[k] = h[k - 1] \o Piece(text[k], special)
      /\ Escaped(text, special) = h[Len(text)]
  BY <1>3, <1>4, <1>6
<1> QED BY <1>5, <1>6, <1>7 DEF h

(* work is what has been escaped, and the rest of the text. *)
Follows(w, head, text, k) ==
  /\ Len(w) = Len(head) + (Len(text) - k)
  /\ \A i \in 1..Len(head) : w[i] = head[i]
  /\ \A j \in 1..Len(text) - k : w[Len(head) + j] = text[k + j]

(* InsertAt, seen position by position. *)
LEMMA InsertPointwise ==
  ASSUME NEW s \in Seq(Characters), NEW i \in 1..Len(s),
         NEW e \in Characters
  PROVE  /\ InsertAt(s, i, e) \in Seq(Characters)
         /\ Len(InsertAt(s, i, e)) = Len(s) + 1
         /\ \A j \in 1..Len(s) + 1 :
              InsertAt(s, i, e)[j] =
                IF j < i THEN s[j] ELSE IF j = i THEN e ELSE s[j - 1]
<1> DEFINE a == SubSeq(s, 1, i - 1)
           b == SubSeq(s, i, Len(s))
<1>1. /\ Len(s) \in Nat /\ i \in Nat
      /\ a \in Seq(Characters) /\ Len(a) = i - 1
      /\ \A j \in 1..i - 1 : a[j] = s[j]
      /\ b \in Seq(Characters) /\ Len(b) = Len(s) - i + 1
      /\ \A j \in 1..Len(s) - i + 1 : b[j] = s[i + j - 1]
  OBVIOUS
<1>2. InsertAt(s, i, e) = (a \o <<e>>) \o b
  BY DEF InsertAt
<1> HIDE DEF a, b
<1>3. /\ a \o <<e>> \in Seq(Characters) /\ Len(a \o <<e>>) = i
      /\ \A j \in 1..i :
           (a \o <<e>>)[j] = IF j < i THEN s[j] ELSE e
  BY <1>1
<1> DEFINE c == a \o <<e>>
<1> HIDE DEF c
<1>4. /\ c \o b \in Seq(Characters) /\ Len(c \o b) = Len(s) + 1
      /\ \A j \in 1..Len(s) + 1 :
           (c \o b)[j] = IF j <= i THEN c[j] ELSE b[j - i]
  <2>1. c \in Seq(Characters) /\ Len(c) = i
    BY <1>3 DEF c
  <2>2. Len(c) + Len(b) = Len(s) + 1
    BY <1>1, <2>1
  <2>3. /\ c \o b \in Seq(Characters) /\ Len(c \o b) = Len(c) + Len(b)
        /\ \A j \in 1..Len(c) + Len(b) :
             (c \o b)[j] = IF j <= Len(c) THEN c[j] ELSE b[j - Len(c)]
    BY <1>1, <2>1, ConcatProperties
  <2> QED BY <2>1, <2>2, <2>3
<1>5. ASSUME NEW j \in 1..Len(s) + 1
      PROVE  (c \o b)[j] =
               IF j < i THEN s[j] ELSE IF j = i THEN e ELSE s[j - 1]
  <2>1. CASE j <= i
    <3>1. c[j] = IF j < i THEN s[j] ELSE e
      BY <1>1, <1>3, <2>1 DEF c
    <3> QED BY <1>1, <1>4, <2>1, <3>1
  <2>2. CASE ~(j <= i)
    <3>1. j - i \in 1..Len(s) - i + 1 /\ i + (j - i) - 1 = j - 1
      BY <1>1, <2>2
    <3>2. b[j - i] = s[j - 1]
      BY <1>1, <3>1
    <3> QED BY <1>1, <1>4, <2>2, <3>2
  <2> QED BY <2>1, <2>2
<1> QED BY <1>2, <1>4, <1>5 DEF c

(* A character that is left alone. *)
LEMMA FollowsPlain ==
  ASSUME NEW text \in Seq(Characters), NEW w \in Seq(Characters),
         NEW head \in Seq(Tokens), NEW k \in 0..Len(text), k < Len(text),
         Follows(w, head, text, k)
  PROVE  Follows(w, head \o <<text[k + 1]>>, text, k + 1)
<1> DEFINE c == text[k + 1]
           next == head \o <<c>>
<1>1. /\ Len(text) \in Nat /\ Len(head) \in Nat /\ k \in Nat
      /\ c \in Tokens
  BY CharactersAreTokens
<1> HIDE DEF c
<1>2. /\ Len(next) = Len(head) + 1
      /\ \A i \in 1..Len(head) : next[i] = head[i]
      /\ next[Len(head) + 1] = c
  BY <1>1
<1> HIDE DEF next
<1>3. w[Len(head) + 1] = c
  BY <1>1 DEF Follows, c
<1>4. ASSUME NEW i \in 1..Len(next) PROVE w[i] = next[i]
  <2>1. CASE i = Len(head) + 1
    BY <1>2, <1>3, <2>1
  <2>2. CASE i # Len(head) + 1
    <3>1. i \in 1..Len(head)
      BY <1>1, <1>2, <2>2
    <3> QED BY <1>2, <3>1 DEF Follows
  <2> QED BY <2>1, <2>2
<1>5. ASSUME NEW j \in 1..Len(text) - (k + 1)
      PROVE  w[Len(next) + j] = text[(k + 1) + j]
  <2>1. j + 1 \in 1..Len(text) - k
    BY <1>1
  <2>2. w[Len(head) + (j + 1)] = text[k + (j + 1)]
    BY <2>1 DEF Follows
  <2>3. Len(head) + (j + 1) = Len(next) + j /\ k + (j + 1) = (k + 1) + j
    BY <1>1, <1>2
  <2> QED BY <2>2, <2>3
<1>6. Len(w) = Len(next) + (Len(text) - (k + 1))
  BY <1>1, <1>2 DEF Follows
<1> QED BY <1>4, <1>5, <1>6 DEF Follows, next, c

(* A character that a backslash is inserted before. *)
LEMMA FollowsInsert ==
  ASSUME NEW text \in Seq(Characters), NEW w \in Seq(Characters),
         NEW head \in Seq(Tokens), NEW k \in 0..Len(text), k < Len(text),
         Follows(w, head, text, k)
  PROVE  Follows(InsertAt(w, Len(head) + 1, Backslash),
                 head \o <<Backslash, text[k + 1]>>, text, k + 1)
<1> DEFINE c == text[k + 1]
           next == head \o <<Backslash, c>>
           new == InsertAt(w, Len(head) + 1, Backslash)
<1>1. /\ Len(text) \in Nat /\ Len(head) \in Nat /\ k \in Nat
      /\ Len(w) = Len(head) + (Len(text) - k)
      /\ c \in Tokens /\ Backslash \in Tokens /\ Backslash \in Characters
  BY CharactersAreTokens DEF Follows
<1> HIDE DEF c
<1>2. /\ Len(next) = Len(head) + 2
      /\ \A i \in 1..Len(head) : next[i] = head[i]
      /\ next[Len(head) + 1] = Backslash
      /\ next[Len(head) + 2] = c
  BY <1>1
<1> HIDE DEF next
<1>3. /\ Len(new) = Len(w) + 1
      /\ \A j \in 1..Len(w) + 1 :
           new[j] = IF j < Len(head) + 1 THEN w[j]
                    ELSE IF j = Len(head) + 1 THEN Backslash ELSE w[j - 1]
  <2>1. Len(head) + 1 \in 1..Len(w)
    BY <1>1
  <2> DEFINE i == Len(head) + 1
  <2>2. i \in 1..Len(w) /\ new = InsertAt(w, i, Backslash)
    BY <2>1
  <2> HIDE DEF i, new
  <2>3. Backslash \in Characters
    BY <1>1
  <2>4. /\ Len(InsertAt(w, i, Backslash)) = Len(w) + 1
        /\ \A j \in 1..Len(w) + 1 :
             InsertAt(w, i, Backslash)[j] =
               IF j < i THEN w[j] ELSE IF j = i THEN Backslash ELSE w[j - 1]
    BY <2>2, <2>3, InsertPointwise
  <2>5. /\ Len(new) = Len(w) + 1
        /\ \A j \in 1..Len(w) + 1 :
             new[j] = IF j < i THEN w[j]
                      ELSE IF j = i THEN Backslash ELSE w[j - 1]
    BY <2>2, <2>4
  <2> QED BY <2>5 DEF i
<1> HIDE DEF new
<1>4. w[Len(head) + 1] = c
  BY <1>1 DEF Follows, c
<1>5. ASSUME NEW i \in 1..Len(next) PROVE new[i] = next[i]
  <2>1. CASE i <= Len(head)
    <3>1. i \in 1..Len(head) /\ i \in 1..Len(w) + 1 /\ i < Len(head) + 1
      BY <1>1, <2>1
    <3>2. new[i] = w[i]
      BY <1>1, <1>3, <3>1
    <3>3. w[i] = head[i] /\ next[i] = head[i]
      BY <1>2, <3>1 DEF Follows
    <3> QED BY <3>2, <3>3
  <2>2. CASE i = Len(head) + 1
    BY <1>1, <1>2, <1>3, <2>2
  <2>3. CASE i = Len(head) + 2
    <3>1. /\ i \in 1..Len(w) + 1 /\ i - 1 = Len(head) + 1
          /\ ~(i < Len(head) + 1) /\ i # Len(head) + 1
      BY <1>1, <2>3
    <3>2. new[i] = w[i - 1]
      BY <1>3, <3>1
    <3>3. w[i - 1] = c
      BY <1>4, <3>1
    <3>4. next[i] = c
      BY <1>2, <2>3
    <3> QED BY <3>2, <3>3, <3>4
  <2>4. i <= Len(head) \/ i = Len(head) + 1 \/ i = Len(head) + 2
    <3>1. Len(next) = Len(head) + 2
      BY <1>2
    <3> QED BY <1>1, <3>1
  <2> QED BY <2>1, <2>2, <2>3, <2>4
<1>6. ASSUME NEW j \in 1..Len(text) - (k + 1)
      PROVE  new[Len(next) + j] = text[(k + 1) + j]
  <2>1. j + 1 \in 1..Len(text) - k
    BY <1>1
  <2>2. w[Len(head) + (j + 1)] = text[k + (j + 1)]
    BY <2>1 DEF Follows
  <2>3. /\ Len(next) + j \in 1..Len(w) + 1 /\ Len(next) + j > Len(head) + 1
        /\ (Len(next) + j) - 1 = Len(head) + (j + 1)
        /\ k + (j + 1) = (k + 1) + j
    BY <1>1, <1>2
  <2>4. new[Len(next) + j] = w[(Len(next) + j) - 1]
    BY <1>1, <1>3, <2>3
  <2> QED BY <2>2, <2>3, <2>4
<1>7. Len(new) = Len(next) + (Len(text) - (k + 1))
  <2>1. /\ Len(new) = Len(w) + 1 /\ Len(next) = Len(head) + 2
        /\ Len(w) = Len(head) + (Len(text) - k)
    BY <1>1, <1>2, <1>3
  <2> QED BY <1>1, <2>1
<1> QED BY <1>5, <1>6, <1>7 DEF Follows, next, new, c

(* The loop has escaped the first k characters, for some k: the index is   *)
(* behind them, or one further when the last of them was escaped and there *)
(* is no other.                                                            *)
Escapes(w, p, text, special) ==
  \E k \in 0..Len(text) :
    LET head == EscapedHeads(text, special)[k]
    IN /\ Follows(w, head, text, k)
       /\ \/ p = Len(head) + 1
          \/ k = Len(text) /\ p = Len(head) + 2

(* Before the first round nothing is escaped. *)
LEMMA EscapesAtFirst ==
  ASSUME NEW text \in Seq(Characters), NEW special
  PROVE  Escapes(text, 1, text, special)
<1> DEFINE head == EscapedHeads(text, special)[0]
<1>1. head = <<>>
  BY EscapedCharacters
<1>2. Len(head) = 0 /\ Len(text) \in Nat
  BY <1>1
<1> HIDE DEF head
<1>3. Follows(text, head, text, 0)
  <2>1. ASSUME NEW j \in 1..Len(text) - 0
        PROVE  text[Len(head) + j] = text[0 + j]
    BY <1>2
  <2> QED BY <1>2, <2>1 DEF Follows
<1>4. 0 \in 0..Len(text) /\ 1 = Len(head) + 1
  BY <1>2
<1> QED BY <1>3, <1>4 DEF Escapes, head

(* A round goes on with the text, if the text is simple: after a character *)
(* that was escaped the loop skips one that needs no escape.               *)
LEMMA EscapesInRound ==
  ASSUME NEW text \in Seq(Characters), NEW special,
         NEW w \in Seq(Characters), NEW p \in Nat,
         Simple(text, special), Escapes(w, p, text, special), p <= Len(w)
  PROVE  IF w[p] \in special
         THEN Escapes(InsertAt(w, p, Backslash), p + 3, text, special)
         ELSE Escapes(w, p + 1, text, special)
<1> DEFINE h == EscapedHeads(text, special)
<1>1. PICK k \in 0..Len(text) :
        /\ Follows(w, h[k], text, k)
        /\ \/ p = Len(h[k]) + 1
           \/ k = Len(text) /\ p = Len(h[k]) + 2
  BY Zenon DEF Escapes
<1>2. /\ h \in [0..Len(text) -> Seq(Tokens)]
      /\ \A i \in 1..Len(text) : h[i] = h[i - 1] \o Piece(text[i], special)
  BY EscapedCharacters
<1>3. /\ Len(text) \in Nat /\ k \in Nat /\ Len(w) \in Nat
      /\ h[k] \in Seq(Tokens) /\ Len(h[k]) \in Nat
  BY <1>2
<1> HIDE DEF h
<1>4. k < Len(text) /\ p = Len(h[k]) + 1
  BY <1>1, <1>3 DEF Follows
<1> DEFINE c == text[k + 1]
<1>5. k + 1 \in 1..Len(text) /\ (k + 1) - 1 = k /\ k + 1 \in 0..Len(text)
  BY <1>3, <1>4
<1>6. w[p] = c
  <2>1. 1 \in 1..Len(text) - k
    BY <1>3, <1>4
  <2>2. w[Len(h[k]) + 1] = text[k + 1]
    BY <1>1, <2>1 DEF Follows
  <2> QED BY <1>4, <2>2
<1>7. /\ c # NewLine /\ c \in Tokens
      /\ h[k + 1] = h[k] \o Piece(c, special)
  <2>1. c # NewLine
    BY <1>5 DEF Simple
  <2>2. c \in Characters
    BY <1>5
  <2> QED BY <1>2, <1>5, <2>1, <2>2, CharactersAreTokens
<1>8. CASE c \notin special
  <2>1. h[k + 1] = h[k] \o <<c>>
    BY <1>7, <1>8 DEF Piece
  <2>2. Follows(w, h[k + 1], text, k + 1)
    BY <1>1, <1>3, <1>4, <2>1, FollowsPlain
  <2>3. p + 1 = Len(h[k + 1]) + 1
    BY <1>3, <1>4, <1>7, <2>1
  <2>4. Escapes(w, p + 1, text, special)
    BY <1>5, <2>2, <2>3 DEF Escapes, h
  <2> QED BY <1>6, <1>8, <2>4
<1>9. CASE c \in special
  <2> DEFINE new == InsertAt(w, p, Backslash)
  <2>1. h[k + 1] = h[k] \o <<Backslash, c>>
    BY <1>7, <1>9 DEF Piece
  <2>2. Follows(new, h[k + 1], text, k + 1)
    BY <1>1, <1>3, <1>4, <2>1, FollowsInsert
  <2>3. Len(h[k + 1]) = p + 1 /\ h[k + 1] \in Seq(Tokens)
    <3>1. Backslash \in Tokens
      BY CharactersAreTokens
    <3>2. Len(h[k] \o <<Backslash, c>>) = Len(h[k]) + 2
      BY <1>3, <1>7, <3>1
    <3>3. Len(h[k + 1]) = p + 1
      BY <1>3, <1>4, <2>1, <3>2
    <3> QED BY <1>2, <1>5, <3>3
  <2>4. new \in Seq(Characters)
    <3>1. p \in 1..Len(w) /\ Backslash \in Characters
      BY <1>3, <1>4, CharactersAreTokens
    <3> QED BY <3>1, InsertPointwise
  <2> HIDE DEF new
  <2>5. CASE k + 1 = Len(text)
    <3>1. p + 3 = Len(h[k + 1]) + 2
      BY <1>3, <1>4, <2>3
    <3>2. Escapes(new, p + 3, text, special)
      BY <1>5, <2>2, <2>5, <3>1 DEF Escapes, h
    <3> QED BY <1>6, <1>9, <3>2 DEF new
  <2>6. CASE k + 1 # Len(text)
    <3> DEFINE d == text[(k + 1) + 1]
    <3>1. /\ (k + 1) + 1 \in 1..Len(text) /\ ((k + 1) + 1) - 1 = k + 1
          /\ (k + 1) + 1 > 1 /\ k + 1 < Len(text)
          /\ (k + 1) + 1 \in 0..Len(text)
      BY <1>3, <1>4, <2>6
    <3>2. d # NewLine /\ d \notin special
      <4>1. (k + 1) + 1 \in DOMAIN text
        BY <3>1
      <4> QED BY <1>9, <3>1, <4>1 DEF Simple
    <3>3. d \in Tokens
      <4>1. d \in Characters
        BY <3>1
      <4> QED BY <4>1, CharactersAreTokens
    <3>4. h[(k + 1) + 1] = h[k + 1] \o <<d>>
      BY <1>2, <3>1, <3>2 DEF Piece
    <3>5. Follows(new, h[(k + 1) + 1], text, (k + 1) + 1)
      BY <1>5, <2>2, <2>3, <2>4, <3>1, <3>4, FollowsPlain
    <3>6. p + 3 = Len(h[(k + 1) + 1]) + 1
      <4> DEFINE g == h[k + 1]
      <4>1. Len(g) = p + 1 /\ g \in Seq(Tokens)
        BY <2>3
      <4> HIDE DEF g
      <4>2. Len(g \o <<d>>) = Len(g) + 1
        BY <3>3, <4>1
      <4>3. Len(h[(k + 1) + 1]) = p + 2
        <5>1. h[(k + 1) + 1] = g \o <<d>>
          BY <3>4 DEF g
        <5> QED BY <4>1, <4>2, <5>1
      <4> QED BY <4>3
    <3>7. Escapes(new, p + 3, text, special)
      BY <3>1, <3>5, <3>6 DEF Escapes, h
    <3> QED BY <1>6, <1>9, <3>7 DEF new
  <2> QED BY <2>5, <2>6
<1> QED BY <1>8, <1>9

(* When the index is behind the text, all of it is escaped. *)
LEMMA EscapesAtLast ==
  ASSUME NEW text \in Seq(Characters), NEW special,
         NEW w \in Seq(Characters), NEW p \in Nat,
         Escapes(w, p, text, special), p > Len(w)
  PROVE  w = Escaped(text, special)
<1> DEFINE h == EscapedHeads(text, special)
<1>1. PICK k \in 0..Len(text) :
        /\ Follows(w, h[k], text, k)
        /\ \/ p = Len(h[k]) + 1
           \/ k = Len(text) /\ p = Len(h[k]) + 2
  BY Zenon DEF Escapes
<1>2. /\ h \in [0..Len(text) -> Seq(Tokens)]
      /\ Escaped(text, special) = h[Len(text)]
  BY EscapedCharacters
<1>3. /\ Len(text) \in Nat /\ k \in Nat /\ Len(w) \in Nat
      /\ h[k] \in Seq(Tokens) /\ Len(h[k]) \in Nat
  BY <1>2
<1> HIDE DEF h
<1>4. k = Len(text)
  BY <1>1, <1>3 DEF Follows
<1>5. Len(w) = Len(h[k]) /\ \A i \in 1..Len(w) : w[i] = h[k][i]
  BY <1>1, <1>3, <1>4 DEF Follows
<1>6. w \in Seq(Tokens)
  BY CharactersAreTokens
<1>7. w = h[k]
  BY <1>3, <1>5, <1>6, SeqEqual
<1> QED BY <1>2, <1>4, <1>7

(* An inserted backslash is paid for by three steps of the index, so there *)
(* are no more of them than characters in the text.                        *)
Bounded(w, p, text) ==
  \E d \in 0..Len(text) : Len(w) = Len(text) + d /\ 3 * d <= p - 1

(* A round keeps this. *)
LEMMA BoundedInRound ==
  ASSUME NEW text \in Seq(Characters), NEW w \in Seq(Characters),
         NEW p \in Nat \ {0}, Bounded(w, p, text), p <= Len(w)
  PROVE  /\ Bounded(w, p + 1, text)
         /\ InsertAt(w, p, Backslash) \in Seq(Characters)
         /\ Bounded(InsertAt(w, p, Backslash), p + 3, text)
<1> DEFINE new == InsertAt(w, p, Backslash)
<1>1. PICK d \in 0..Len(text) : Len(w) = Len(text) + d /\ 3 * d <= p - 1
  BY DEF Bounded
<1>2. Len(text) \in Nat /\ Len(w) \in Nat /\ p \in 1..Len(w)
  OBVIOUS
<1>3. new \in Seq(Characters) /\ Len(new) = Len(w) + 1
  BY <1>2, CharactersAreTokens, InsertPointwise
<1> HIDE DEF new
<1>4. 3 * d <= (p + 1) - 1
  BY <1>1, <1>2
<1>5. d + 1 \in 0..Len(text)
  BY <1>1, <1>2
<1>6. Len(new) = Len(text) + (d + 1) /\ 3 * (d + 1) <= (p + 3) - 1
  BY <1>1, <1>2, <1>3
<1>7. Bounded(w, p + 1, text)
  BY <1>1, <1>4 DEF Bounded
<1>8. Bounded(new, p + 3, text)
  BY <1>5, <1>6 DEF Bounded
<1> QED BY <1>3, <1>7, <1>8 DEF new

-----------------------------------------------------------------------------
(* The pieces of a line. *)

(* The end of an appended sequence. *)
LEMMA FrontOfAppend ==
  ASSUME NEW s \in Seq(Tokens), NEW e \in Tokens
  PROVE  Last(s \o <<e>>) = e /\ Front(s \o <<e>>) = s
<1> DEFINE t == s \o <<e>>
<1>1. /\ t \in Seq(Tokens) /\ Len(s) \in Nat /\ Len(t) = Len(s) + 1
      /\ \A i \in 1..Len(s) : t[i] = s[i]
      /\ t[Len(s) + 1] = e
  OBVIOUS
<1> HIDE DEF t
<1>2. /\ SubSeq(t, 1, Len(s)) \in Seq(Tokens)
      /\ Len(SubSeq(t, 1, Len(s))) = Len(s)
      /\ \A i \in 1..Len(s) : SubSeq(t, 1, Len(s))[i] = t[i]
  BY <1>1
<1>3. SubSeq(t, 1, Len(s)) = s
  BY <1>1, <1>2, SeqEqual
<1>4. Len(t) - 1 = Len(s)
  BY <1>1
<1> QED BY <1>1, <1>3, <1>4 DEF Front, Last, t

(* A last part that is not empty has the end of the whole. *)
LEMMA FrontOfConcat ==
  ASSUME NEW s \in Seq(Tokens), NEW t \in Seq(Tokens), t # <<>>
  PROVE  /\ Front(t) \in Seq(Tokens)
         /\ Front(s \o t) = s \o Front(t)
         /\ Last(t) \in Tokens /\ Last(s \o t) = Last(t)
         /\ t = Front(t) \o <<Last(t)>>
<1>1. Len(t) \in Nat \ {0} /\ Len(s) \in Nat
  BY EmptySeq
<1>2. /\ Front(t) \in Seq(Tokens) /\ Len(Front(t)) = Len(t) - 1
      /\ \A i \in 1..Len(t) - 1 : Front(t)[i] = t[i]
  <2> DEFINE n == Len(t) - 1
  <2>1. n \in Nat /\ n <= Len(t)
    BY <1>1
  <2> HIDE DEF n
  <2>2. /\ SubSeq(t, 1, n) \in Seq(Tokens) /\ Len(SubSeq(t, 1, n)) = n
        /\ \A i \in 1..n : SubSeq(t, 1, n)[i] = t[i]
    BY <1>1, <2>1
  <2> QED BY <2>2 DEF Front, n
<1>3. Last(t) \in Tokens
  BY <1>1 DEF Last
<1> DEFINE u == Front(t) \o <<Last(t)>>
<1>4. u \in Seq(Tokens) /\ Len(u) = Len(t)
  BY <1>1, <1>2, <1>3
<1>5. ASSUME NEW i \in 1..Len(u) PROVE u[i] = t[i]
  <2>1. CASE i = Len(t)
    BY <1>1, <1>2, <1>3, <2>1 DEF Last
  <2>2. CASE i # Len(t)
    <3>1. i \in 1..Len(t) - 1
      BY <1>1, <1>4, <2>2
    <3> QED BY <1>1, <1>2, <1>3, <3>1
  <2> QED BY <2>1, <2>2
<1>6. u = t
  BY <1>4, <1>5, SeqEqual
<1>7. s \o t = (s \o Front(t)) \o <<Last(t)>>
  <2>1. <<Last(t)>> \in Seq(Tokens)
    BY <1>3
  <2>2. (s \o Front(t)) \o <<Last(t)>> = s \o (Front(t) \o <<Last(t)>>)
    <3> DEFINE front == Front(t)
               last == <<Last(t)>>
    <3>1. front \in Seq(Tokens) /\ last \in Seq(Tokens)
      BY <1>2, <2>1
    <3> HIDE DEF front, last
    <3>2. (s \o front) \o last = s \o (front \o last)
      BY <3>1, ConcatAssociative
    <3> QED BY <3>2 DEF front, last
  <2> QED BY <1>6, <2>2
<1>8. s \o Front(t) \in Seq(Tokens)
  BY <1>2
<1>9. /\ Last((s \o Front(t)) \o <<Last(t)>>) = Last(t)
      /\ Front((s \o Front(t)) \o <<Last(t)>>) = s \o Front(t)
  BY <1>3, <1>8, FrontOfAppend, Zenon
<1> QED BY <1>2, <1>3, <1>6, <1>7, <1>9

(* A sequence starts with its first part, and ends with its last one. *)
LEMMA PartsOfConcat ==
  ASSUME NEW s \in Seq(Tokens), NEW t \in Seq(Tokens)
  PROVE  IsPrefix(s, s \o t) /\ IsSuffix(t, s \o t)
<1> DEFINE u == s \o t
<1>1. /\ u \in Seq(Tokens) /\ Len(s) \in Nat /\ Len(t) \in Nat
      /\ Len(u) = Len(s) + Len(t)
      /\ \A i \in 1..Len(s) : u[i] = s[i]
      /\ \A i \in 1..Len(t) : u[Len(s) + i] = t[i]
  OBVIOUS
<1> HIDE DEF u
<1>2. ASSUME NEW a \in Seq(Tokens), NEW b \in Seq(Tokens), Len(a) <= Len(b),
             \A i \in 1..Len(a) : b[i] = a[i]
      PROVE  IsPrefix(a, b)
  <2>1. /\ SubSeq(a, 1, Len(a)) \in Seq(Tokens)
        /\ Len(SubSeq(a, 1, Len(a))) = Len(a)
        /\ \A i \in 1..Len(a) : SubSeq(a, 1, Len(a))[i] = a[i]
    OBVIOUS
  <2>2. /\ SubSeq(b, 1, Len(a)) \in Seq(Tokens)
        /\ Len(SubSeq(b, 1, Len(a))) = Len(a)
        /\ \A i \in 1..Len(a) : SubSeq(b, 1, Len(a))[i] = b[i]
    BY <1>2
  <2>3. SubSeq(a, 1, Len(a)) = SubSeq(b, 1, Len(a))
    BY <1>2, <2>1, <2>2, SeqEqual
  <2> QED BY <1>2, <2>3 DEF IsPrefix
<1>3. ASSUME NEW a \in Seq(Tokens)
      PROVE  /\ Reverse(a) \in Seq(Tokens) /\ Len(Reverse(a)) = Len(a)
             /\ \A i \in 1..Len(a) : Reverse(a)[i] = a[(Len(a) - i) + 1]
  <2>1. Len(a) \in Nat
    OBVIOUS
  <2>2. \A i \in 1..Len(a) : a[(Len(a) - i) + 1] \in Tokens
    <3> SUFFICES ASSUME NEW i \in 1..Len(a)
                 PROVE  a[(Len(a) - i) + 1] \in Tokens
      OBVIOUS
    <3>1. (Len(a) - i) + 1 \in 1..Len(a)
      BY <2>1
    <3> QED BY <3>1
  <2> QED BY <2>1, <2>2 DEF Reverse
<1>4. IsPrefix(s, u)
  BY <1>1, <1>2
<1>5. IsPrefix(Reverse(t), Reverse(u))
  <2>1. ASSUME NEW i \in 1..Len(t) PROVE Reverse(u)[i] = Reverse(t)[i]
    <3>1. /\ i \in 1..Len(u) /\ (Len(t) - i) + 1 \in 1..Len(t)
          /\ (Len(u) - i) + 1 = Len(s) + ((Len(t) - i) + 1)
      BY <1>1
    <3>2. Reverse(u)[i] = u[Len(s) + ((Len(t) - i) + 1)]
      <4>1. Reverse(u)[i] = u[(Len(u) - i) + 1]
        BY <1>1, <1>3, <3>1
      <4> QED BY <3>1, <4>1
    <3>3. Reverse(t)[i] = t[(Len(t) - i) + 1]
      BY <1>3
    <3> QED BY <1>1, <3>1, <3>2, <3>3
  <2>2. Len(Reverse(t)) <= Len(Reverse(u))
    BY <1>1, <1>3
  <2> QED BY <1>1, <1>2, <1>3, <2>1, <2>2
<1> QED BY <1>4, <1>5 DEF IsSuffix, u

(* An escaped text is a sequence of tokens. *)
LEMMA EscapedIsText ==
  ASSUME NEW text \in Seq(Characters), NEW special
  PROVE  Escaped(text, special) \in Seq(Tokens)
<1> DEFINE h == EscapedHeads(text, special)
<1>1. /\ h \in [0..Len(text) -> Seq(Tokens)]
      /\ Escaped(text, special) = h[Len(text)]
  BY EscapedCharacters
<1>2. Len(text) \in 0..Len(text)
  OBVIOUS
<1> HIDE DEF h
<1> QED BY <1>1, <1>2

(* The pairs of the reference, one by one, and put together up to a label. *)
NextPair(values, k) == (IF k = 1 THEN <<>> ELSE <<",">>) \o Pair(values[k])

PairSeqs(values) == [k \in DOMAIN values |-> NextPair(values, k)]

PairHeads(values) == Heads(Tokens, PairSeqs(values))

(* The line when n labels are written; all of them have a comma behind. *)
Begun(values, n) ==
  (<<"name", "{">> \o PairHeads(values)[n])
    \o (IF n = 0 THEN <<>> ELSE <<",">>)

(* Short sequences of tokens. *)
LEMMA ShortTexts ==
  /\ \A a \in Tokens : <<a>> \in Seq(Tokens)
  /\ \A a, b \in Tokens :
       <<a, b>> \in Seq(Tokens) /\ <<a>> \o <<b>> = <<a, b>>
  /\ \A a, b, c \in Tokens : <<a, b, c>> \in Seq(Tokens)
  /\ \A a, b, c, d, e \in Tokens : <<a, b, c, d, e>> \in Seq(Tokens)
<1>1. \A a \in Tokens : <<a>> \in Seq(Tokens)
  OBVIOUS
<1>2. ASSUME NEW a \in Tokens, NEW b \in Tokens
      PROVE  <<a, b>> \in Seq(Tokens) /\ <<a>> \o <<b>> = <<a, b>>
  <2>1. <<a, b>> \in Seq(Tokens) /\ Len(<<a, b>>) = 2
    OBVIOUS
  <2>2. <<a>> \o <<b>> \in Seq(Tokens) /\ Len(<<a>> \o <<b>>) = 2
    OBVIOUS
  <2>3. (<<a>> \o <<b>>)[1] = a /\ (<<a>> \o <<b>>)[2] = b
    OBVIOUS
  <2>4. \A i \in 1..2 : (<<a>> \o <<b>>)[i] = <<a, b>>[i]
    <3>1. \A i \in 1..2 : i = 1 \/ i = 2
      OBVIOUS
    <3> QED BY <2>3, <3>1
  <2> QED BY <2>1, <2>2, <2>4, SeqEqual
<1>3. \A a, b, c \in Tokens : <<a, b, c>> \in Seq(Tokens)
  OBVIOUS
<1>4. ASSUME NEW a \in Tokens, NEW b \in Tokens, NEW c \in Tokens,
             NEW d \in Tokens, NEW e \in Tokens
      PROVE  <<a, b, c, d, e>> \in Seq(Tokens)
  <2> DEFINE t == <<a, b, c, d, e>>
  <2>1. t[1] = a /\ t[2] = b /\ t[3] = c /\ t[4] = d /\ t[5] = e
    OBVIOUS
  <2>2. DOMAIN t = 1..5 /\ t = [i \in 1..5 |-> t[i]]
    OBVIOUS
  <2> HIDE DEF t
  <2>3. \A i \in 1..5 : t[i] \in Tokens
    <3>1. \A i \in 1..5 : i = 1 \/ i = 2 \/ i = 3 \/ i = 4 \/ i = 5
      OBVIOUS
    <3> QED BY <2>1, <3>1, Zenon
  <2>4. t \in [1..5 -> Tokens]
    BY <2>2, <2>3, Zenon
  <2>5. t \in Seq(Tokens)
    <3>1. 5 \in Nat
      OBVIOUS
    <3>2. t \in UNION {[1..n -> Tokens] : n \in Nat}
      BY <2>4, <3>1, Zenon
    <3> QED BY <3>2, SeqDef, Zenon
  <2> QED BY <2>5 DEF t
<1> QED BY <1>1, <1>2, <1>3, <1>4

(* The sequences that are written are sequences of tokens. *)
LEMMA FixedTexts ==
  /\ <<"# HELP ", "name", " ">> \in Seq(Tokens)
  /\ <<NewLine>> \in Seq(Tokens)
  /\ <<"# TYPE ", "name", NewLine, "type", NewLine>> \in Seq(Tokens)
  /\ <<"name">> \in Seq(Tokens) /\ <<"{">> \in Seq(Tokens)
  /\ <<"name", "{">> \in Seq(Tokens)
  /\ <<"label", "=", Quote>> \in Seq(Tokens)
  /\ <<Quote>> \in Seq(Tokens) /\ <<Quote, ",">> \in Seq(Tokens)
  /\ <<",">> \in Seq(Tokens) /\ <<"}">> \in Seq(Tokens)
  /\ <<" ", "data", " ", "time", NewLine>> \in Seq(Tokens)
  /\ <<>> \in Seq(Tokens)
  /\ "," \in Tokens /\ "}" \in Tokens
<1>1. Quote \in Tokens /\ NewLine \in Tokens
  BY CharactersAreTokens
<1>2. <<"# HELP ", "name", " ">> \in Seq(Tokens)
  <2>1. /\ "# HELP " \in Tokens /\ "name" \in Tokens /\ " " \in Tokens
    BY <1>1 DEF Tokens
  <2> QED BY <2>1, ShortTexts, Zenon
<1>3. /\ <<NewLine>> \in Seq(Tokens)
      /\ <<Quote>> \in Seq(Tokens)
  <2>1. /\ NewLine \in Tokens /\ Quote \in Tokens
    BY <1>1 DEF Tokens
  <2> QED BY <2>1, ShortTexts, Zenon
<1>4. <<"# TYPE ", "name", NewLine, "type", NewLine>> \in Seq(Tokens)
  <2>1. /\ "# TYPE " \in Tokens /\ "name" \in Tokens /\ "type" \in Tokens
        /\ NewLine \in Tokens
    BY <1>1 DEF Tokens
  <2> QED BY <2>1, ShortTexts, Zenon
<1>5. /\ <<"name">> \in Seq(Tokens)
      /\ <<"{">> \in Seq(Tokens)
      /\ <<"name", "{">> \in Seq(Tokens)
  <2>1. /\ "name" \in Tokens /\ "{" \in Tokens
    BY <1>1 DEF Tokens
  <2> QED BY <2>1, ShortTexts, Zenon
<1>6. <<"label", "=", Quote>> \in Seq(Tokens)
  <2>1. /\ "label" \in Tokens /\ "=" \in Tokens /\ Quote \in Tokens
    BY <1>1 DEF Tokens
  <2> QED BY <2>1, ShortTexts, Zenon
<1>7. /\ <<Quote, ",">> \in Seq(Tokens)
      /\ <<",">> \in Seq(Tokens)
  <2>1. /\ Quote \in Tokens /\ "," \in Tokens
    BY <1>1 DEF Tokens
  <2> QED BY <2>1, ShortTexts, Zenon
<1>8. <<"}">> \in Seq(Tokens)
  <2>1. /\ "}" \in Tokens
    BY <1>1 DEF Tokens
  <2> QED BY <2>1, ShortTexts, Zenon
<1>9. <<" ", "data", " ", "time", NewLine>> \in Seq(Tokens)
  <2>1. /\ " " \in Tokens /\ "data" \in Tokens /\ "time" \in Tokens
        /\ NewLine \in Tokens
    BY <1>1 DEF Tokens
  <2> QED BY <2>1, ShortTexts, Zenon
<1>10. "," \in Tokens /\ "}" \in Tokens
  BY DEF Tokens
<1> QED BY <1>2, <1>3, <1>4, <1>5, <1>6, <1>7, <1>8, <1>9, <1>10, EmptySeq

(* Each pair is appended to the ones before. *)
LEMMA PairsOneByOne ==
  ASSUME NEW values \in Seq(Seq(Characters))
  PROVE  /\ \A n \in 0..Len(values) : PairHeads(values)[n] \in Seq(Tokens)
         /\ PairHeads(values)[0] = <<>>
         /\ \A n \in 1..Len(values) :
              PairHeads(values)[n] =
                PairHeads(values)[n - 1] \o NextPair(values, n)
         /\ FlattenSeq(PairSeqs(values)) = PairHeads(values)[Len(values)]
<1> DEFINE seqs == PairSeqs(values)
<1>1. Len(values) \in Nat /\ DOMAIN values = 1..Len(values)
  OBVIOUS
<1>2. \A k \in 1..Len(values) : NextPair(values, k) \in Seq(Tokens)
  <2> SUFFICES ASSUME NEW k \in 1..Len(values)
               PROVE  NextPair(values, k) \in Seq(Tokens)
    OBVIOUS
  <2>1. Escaped(values[k], {Quote, Backslash}) \in Seq(Tokens)
    <3>1. values[k] \in Seq(Characters)
      OBVIOUS
    <3> QED BY <3>1, EscapedIsText
  <2>2. Pair(values[k]) \in Seq(Tokens)
    BY <2>1, FixedTexts, ConcatProperties DEF Pair
  <2>3. (IF k = 1 THEN <<>> ELSE <<",">>) \in Seq(Tokens)
    BY FixedTexts
  <2> QED BY <2>2, <2>3, ConcatProperties DEF NextPair
<1>3. /\ seqs \in Seq(Seq(Tokens)) /\ Len(seqs) = Len(values)
      /\ \A k \in 1..Len(values) : seqs[k] = NextPair(values, k)
  BY <1>1, <1>2 DEF PairSeqs
<1> HIDE DEF seqs
<1> DEFINE h == Heads(Tokens, seqs)
<1>4. /\ h \in [0..Len(seqs) -> Seq(Tokens)]
      /\ h[0] = <<>>
      /\ \A k \in 1..Len(seqs) : h[k] = h[k - 1] \o seqs[k]
      /\ FlattenSeq(seqs) = h[Len(seqs)]
  BY <1>3, HeadsFlatten
<1>5. PairHeads(values) = h
  BY DEF PairHeads, seqs
<1> HIDE DEF h
<1> QED BY <1>3, <1>4, <1>5 DEF seqs

(* The order in which tokens are put together does not matter. *)
LEMMA Associative ==
  \A a, b, c \in Seq(Tokens) : (a \o b) \o c = a \o (b \o c)
BY ConcatAssociative

(* The line with one label more. *)
LEMMA BegunGrows ==
  ASSUME NEW values \in Seq(Seq(Characters))
  PROVE  /\ Begun(values, 0) = <<"name", "{">>
         /\ \A n \in 0..Len(values) : Begun(values, n) \in Seq(Tokens)
         /\ \A n \in 1..Len(values) :
              Begun(values, n) =
                Begun(values, n - 1)
                  \o (<<"label", "=", Quote>>
                        \o (Escaped(values[n], {Quote, Backslash})
                              \o <<Quote, ",">>))
<1> DEFINE p == PairHeads(values)
<1>1. Len(values) \in Nat /\ values \in [1..Len(values) -> Seq(Characters)]
  OBVIOUS
<1>2. /\ \A n \in 0..Len(values) : p[n] \in Seq(Tokens)
      /\ p[0] = <<>>
      /\ \A n \in 1..Len(values) : p[n] = p[n - 1] \o NextPair(values, n)
  BY PairsOneByOne
<1> HIDE DEF p
<1>3. Begun(values, 0) = <<"name", "{">>
  <2>1. <<"name", "{">> \o <<>> = <<"name", "{">>
    BY FixedTexts, ConcatEmptySeq
  <2> QED BY <1>2, <2>1 DEF Begun, p
<1>4. ASSUME NEW n \in 0..Len(values) PROVE Begun(values, n) \in Seq(Tokens)
  <2>1. <<"name", "{">> \o p[n] \in Seq(Tokens)
    BY <1>2, FixedTexts, ConcatProperties
  <2>2. (IF n = 0 THEN <<>> ELSE <<",">>) \in Seq(Tokens)
    BY FixedTexts
  <2> QED BY <2>1, <2>2, ConcatProperties DEF Begun, p
<1>5. ASSUME NEW n \in 1..Len(values)
      PROVE  Begun(values, n) =
               Begun(values, n - 1)
                 \o (<<"label", "=", Quote>>
                       \o (Escaped(values[n], {Quote, Backslash})
                             \o <<Quote, ",">>))
  <2> DEFINE start == <<"name", "{">>
             comma == IF n = 1 THEN <<>> ELSE <<",">>
             key == <<"label", "=", Quote>>
             text == Escaped(values[n], {Quote, Backslash})
  <2>1. n - 1 \in 0..Len(values) /\ n # 0 /\ (n - 1 = 0 <=> n = 1)
    BY <1>1
  <2>2. /\ start \in Seq(Tokens) /\ p[n - 1] \in Seq(Tokens)
        /\ comma \in Seq(Tokens) /\ key \in Seq(Tokens)
        /\ <<Quote>> \in Seq(Tokens) /\ <<",">> \in Seq(Tokens)
    BY <1>2, <2>1, FixedTexts
  <2>3. text \in Seq(Tokens)
    <3>1. values[n] \in Seq(Characters)
      BY <1>1
    <3> QED BY <3>1, EscapedIsText
  <2>4. <<Quote>> \o <<",">> = <<Quote, ",">>
    <3>1. Quote \in Tokens /\ "," \in Tokens
      BY CharactersAreTokens, FixedTexts
    <3> QED BY <3>1, ShortTexts, Zenon
  <2>5. Begun(values, n) =
          (start \o (p[n - 1] \o (comma \o ((key \o text) \o <<Quote>>))))
            \o <<",">>
    BY <1>2, <2>1 DEF Begun, NextPair, Pair, p
  <2>6. Begun(values, n - 1) = (start \o p[n - 1]) \o comma
    BY <2>1 DEF Begun, p
  <2> HIDE DEF start, comma, key, text
  <2> DEFINE pair == (key \o text) \o <<Quote>>
             before == (start \o p[n - 1]) \o comma
  <2>7. start \o (p[n - 1] \o (comma \o pair)) = before \o pair
    <3>1. pair \in Seq(Tokens)
      BY <2>2, <2>3, ConcatProperties
    <3> DEFINE q == p[n - 1]
               rest == comma \o pair
               first == start \o q
    <3>2. q \in Seq(Tokens) /\ start \in Seq(Tokens)
      BY <2>2
    <3>3. comma \in Seq(Tokens)
      BY <2>2
    <3>4. rest \in Seq(Tokens) /\ first \in Seq(Tokens)
      BY <3>1, <3>2, <3>3, ConcatProperties
    <3> HIDE DEF pair, q
    <3>5. first \o rest = start \o (q \o rest)
      <4>1. rest \in Seq(Tokens)
        BY <3>4
      <4> HIDE DEF rest
      <4> QED BY <3>2, <4>1, Associative
    <3>6. (first \o comma) \o pair = first \o rest
      <4>1. first \in Seq(Tokens)
        BY <3>4
      <4> HIDE DEF first
      <4> QED BY <3>1, <3>3, <4>1, Associative
    <3> QED BY <3>5, <3>6 DEF q
  <2>8. (before \o pair) \o <<",">> = before \o (pair \o <<",">>)
    <3>1. pair \in Seq(Tokens)
      BY <2>2, <2>3, ConcatProperties
    <3>2. before \in Seq(Tokens)
      BY <2>2, ConcatProperties
    <3>3. <<",">> \in Seq(Tokens)
      BY FixedTexts
    <3> HIDE DEF pair, before
    <3> QED BY <3>1, <3>2, <3>3, Associative
  <2>9. pair \o <<",">> = key \o (text \o (<<Quote>> \o <<",">>))
    <3>1. key \in Seq(Tokens)
      BY <2>2
    <3> DEFINE quote == <<Quote>>
               last == <<",">>
    <3>2. quote \in Seq(Tokens) /\ last \in Seq(Tokens)
      BY FixedTexts
    <3> HIDE DEF quote, last
    <3> DEFINE first == key \o text
               rest == quote \o last
    <3>3. first \in Seq(Tokens) /\ rest \in Seq(Tokens)
      BY <2>3, <3>1, <3>2, ConcatProperties
    <3>4. (first \o quote) \o last = first \o rest
      <4>1. first \in Seq(Tokens)
        BY <3>3
      <4> HIDE DEF first
      <4> QED BY <3>2, <4>1, Associative
    <3>5. first \o rest = key \o (text \o rest)
      <4>1. rest \in Seq(Tokens)
        BY <3>3
      <4> HIDE DEF rest
      <4> QED BY <2>3, <3>1, <4>1, Associative
    <3> QED BY <3>4, <3>5 DEF quote, last
  <2>10. Begun(values, n) = before \o (key \o (text \o <<Quote, ",">>))
    BY <2>4, <2>5, <2>7, <2>8, <2>9
  <2> QED BY <2>6, <2>10 DEF key, text
<1> QED BY <1>3, <1>4, <1>5

(* What follows the name of the metric, before the data. *)
Block(values) ==
  IF values = <<>> THEN <<>>
  ELSE (<<"{">> \o FlattenSeq(PairSeqs(values))) \o <<"}">>

(* The reference, in these terms. *)
LEMMA DataLineOfBlock ==
  DataLine =
    (<<"name">> \o Block(labels)) \o <<" ", "data", " ", "time", NewLine>>
BY DEF DataLine, Block, Pairs, PairSeqs, NextPair

(* When the last label is written, only its comma is to be replaced. *)
LEMMA LastCommaIsReplaced ==
  ASSUME NEW values \in Seq(Seq(Characters)), values # <<>>
  PROVE  \E s \in Seq(Tokens) :
           /\ Begun(values, Len(values)) = s \o <<",">>
           /\ <<"name">> \o Block(values) = s \o <<"}">>
<1> DEFINE pairs == FlattenSeq(PairSeqs(values))
           s == <<"name", "{">> \o pairs
<1>1. Len(values) \in 0..Len(values) /\ Len(values) # 0
  BY EmptySeq
<1>2. pairs = PairHeads(values)[Len(values)] /\ pairs \in Seq(Tokens)
  BY <1>1, PairsOneByOne
<1>3. Block(values) = (<<"{">> \o pairs) \o <<"}">>
  BY DEF Block
<1> HIDE DEF pairs
<1>4. s \in Seq(Tokens)
  BY <1>2, FixedTexts, ConcatProperties
<1>5. Begun(values, Len(values)) = s \o <<",">>
  BY <1>1, <1>2 DEF Begun
<1>6. s = <<"name">> \o (<<"{">> \o pairs)
  <2>1. <<"name">> \o <<"{">> = <<"name", "{">>
    <3>1. "name" \in Tokens /\ "{" \in Tokens
      BY DEF Tokens
    <3> QED BY <3>1, ShortTexts, Zenon
  <2>2. <<"name">> \in Seq(Tokens) /\ <<"{">> \in Seq(Tokens)
    BY FixedTexts
  <2>3. (<<"name">> \o <<"{">>) \o pairs = <<"name">> \o (<<"{">> \o pairs)
    BY <1>2, <2>2, Associative
  <2> QED BY <2>1, <2>3
<1>7. <<"name">> \o Block(values) = s \o <<"}">>
  <2>1. <<"{">> \o pairs \in Seq(Tokens)
    BY <1>2, FixedTexts, ConcatProperties
  <2>2. <<"name">> \in Seq(Tokens) /\ <<"}">> \in Seq(Tokens)
    BY FixedTexts
  <2>3. (<<"name">> \o (<<"{">> \o pairs)) \o <<"}">> =
          <<"name">> \o ((<<"{">> \o pairs) \o <<"}">>)
    BY <2>1, <2>2, Associative
  <2> QED BY <1>3, <1>6, <2>3
<1> QED BY <1>4, <1>5, <1>7

-----------------------------------------------------------------------------
(* Types, and the end of the loops. *)

TypeInv ==
  /\ TypeOK
  /\ out \in Seq(Tokens)
  /\ pc = "escapeHelp" => Bounded(work, pos, help)
  /\ pc = "escapeLabel" =>
       nth \in DOMAIN labels /\ Bounded(work, pos, labels[nth])
  /\ pc \in {"label", "escapeLabel"} => labels # <<>>
  /\ pc \in {"help", "escapeHelp", "type", "line"} => nth = 1

(* The texts that are escaped are sequences of characters, none too long. *)
LEMMA InputTexts ==
  ASSUME TypeOK
  PROVE  /\ help \in Seq(Characters) /\ Len(help) <= MaxLength
         /\ labels \in Seq(Seq(Characters)) /\ DOMAIN labels = 1..Len(labels)
         /\ \A k \in DOMAIN labels :
              labels[k] \in Seq(Characters) /\ Len(labels[k]) <= MaxLength
         /\ MaxLength \in Nat
<1>1. help \in Helps /\ labels \in LabelLists
  BY DEF TypeOK
<1>2. help \in Seq(Characters) /\ labels \in Seq(Seq(Characters))
  BY <1>1, TextAssumption
<1>3. /\ Len(help) <= MaxLength /\ MaxLength \in Nat
      /\ \A k \in DOMAIN labels : Len(labels[k]) <= MaxLength
  BY <1>1, TextAssumption
<1>4. /\ DOMAIN labels = 1..Len(labels)
      /\ \A k \in DOMAIN labels : labels[k] \in Seq(Characters)
  BY <1>2
<1> QED BY <1>2, <1>3, <1>4

(* A text that is bounded so is at most twice as long. *)
LEMMA BoundedLength ==
  ASSUME NEW text \in Seq(Characters), NEW w, NEW p,
         Bounded(w, p, text), Len(text) <= MaxLength, MaxLength \in Nat
  PROVE  Len(w) <= 2 * MaxLength
<1>1. PICK d \in 0..Len(text) : Len(w) = Len(text) + d
  BY DEF Bounded
<1> DEFINE n == Len(text)
<1>2. n \in Nat /\ d \in 0..n /\ n <= MaxLength
  OBVIOUS
<1>3. Len(w) = n + d
  BY <1>1
<1> HIDE DEF n
<1>4. n + d <= 2 * MaxLength
  BY <1>2, SMTT(30)
<1> QED BY <1>3, <1>4, Zenon

(* Before the first round. *)
LEMMA BoundedAtFirst ==
  ASSUME NEW text \in Seq(Characters)
  PROVE  Bounded(text, 1, text)
<1>1. 0 \in 0..Len(text) /\ Len(text) = Len(text) + 0 /\ 3 * 0 <= 1 - 1
  OBVIOUS
<1> QED BY <1>1 DEF Bounded

(* A round of the loop, on any text. *)
LEMMA RoundIsBounded ==
  ASSUME NEW text \in Seq(Characters), NEW special,
         work \in Seq(Characters), pos \in Nat \ {0},
         Bounded(work, pos, text), Escape(special)
  PROVE  /\ work' \in Seq(Characters) /\ pos' \in Nat \ {0}
         /\ Bounded(work', pos', text)
<1>1. /\ Bounded(work, pos + 1, text)
      /\ InsertAt(work, pos, Backslash) \in Seq(Characters)
      /\ Bounded(InsertAt(work, pos, Backslash), pos + 3, text)
  BY BoundedInRound DEF Escape
<1>2. CASE work[pos] \in special
  BY <1>1, <1>2 DEF Escape
<1>3. CASE work[pos] \notin special
  BY <1>1, <1>3 DEF Escape
<1> QED BY <1>2, <1>3

(* A step keeps the types. *)
LEMMA TypeStep ==
  ASSUME TypeInv, [Next]_vars
  PROVE  TypeInv'
<1> USE DEF inputs
<1>0. /\ TypeOK
      /\ help \in Helps /\ labels \in LabelLists /\ nth \in 1..Len(labels) + 1
      /\ work \in Seq(Characters) /\ Len(work) <= 2 * MaxLength
      /\ pos \in Nat \ {0} /\ out \in Seq(Tokens)
  BY DEF TypeInv, TypeOK
<1>1. /\ help \in Seq(Characters) /\ Len(help) <= MaxLength
      /\ labels \in Seq(Seq(Characters)) /\ DOMAIN labels = 1..Len(labels)
      /\ \A k \in DOMAIN labels :
           labels[k] \in Seq(Characters) /\ Len(labels[k]) <= MaxLength
      /\ MaxLength \in Nat /\ Len(labels) \in Nat
  BY <1>0, InputTexts
<1>2. ASSUME NEW tokens \in Seq(Tokens), Emit(tokens)
      PROVE  out' \in Seq(Tokens)
  BY <1>0, <1>2, ConcatProperties DEF Emit
<1>3. work \in Seq(Tokens)
  BY <1>0, CharactersAreTokens
<1>4. CASE SkipHelp
  BY <1>4 DEF SkipHelp, TypeInv, TypeOK
<1>5. CASE StartHelp
  <2>1. out' \in Seq(Tokens)
    <3>1. Emit(<<"# HELP ", "name", " ">>)
      BY <1>5 DEF StartHelp
    <3> QED BY <1>2, <3>1, FixedTexts
  <2>2. /\ work' = help /\ pos' = 1 /\ pc' = "escapeHelp" /\ nth = 1
        /\ UNCHANGED <<help, labels, nth>>
    BY <1>5 DEF StartHelp, StartEscape, TypeInv
  <2>3. Bounded(work', pos', help') /\ Len(help) <= 2 * MaxLength
    BY <1>1, <2>2, BoundedAtFirst
  <2> QED BY <1>0, <1>1, <2>1, <2>2, <2>3 DEF TypeInv, TypeOK
<1>6. CASE EscapeHelpStr
  <2>1. /\ pc = "escapeHelp" /\ Escape(MustEscapeInHelp)
        /\ UNCHANGED <<help, labels, pc, nth, out>>
    BY <1>6 DEF EscapeHelpStr, Escape
  <2>2. Bounded(work, pos, help)
    BY <2>1 DEF TypeInv
  <2>3. /\ work' \in Seq(Characters) /\ pos' \in Nat \ {0}
        /\ Bounded(work', pos', help)
    BY <1>0, <1>1, <2>1, <2>2, RoundIsBounded
  <2>4. Len(work') <= 2 * MaxLength
    BY <1>1, <2>3, BoundedLength
  <2> QED BY <1>0, <2>1, <2>3, <2>4 DEF TypeInv, TypeOK
<1>7. CASE EndHelp
  <2>1. out' \in Seq(Tokens)
    <3>1. work \o <<NewLine>> \in Seq(Tokens)
      BY <1>3, FixedTexts, ConcatProperties
    <3>2. Emit(work \o <<NewLine>>)
      BY <1>7 DEF EndHelp
    <3> QED BY <1>2, <3>1, <3>2
  <2> QED BY <1>7, <2>1 DEF EndHelp, TypeInv, TypeOK
<1>8. CASE GenerateType
  <2>1. out' \in Seq(Tokens)
    <3>1. Emit(<<"# TYPE ", "name", NewLine, "type", NewLine>>)
      BY <1>8 DEF GenerateType
    <3> QED BY <1>2, <3>1, FixedTexts
  <2> QED BY <1>8, <2>1 DEF GenerateType, TypeInv, TypeOK
<1>9. CASE GenerateDataLine
  <2>1. out' \in Seq(Tokens)
    <3>1. (IF labels = <<>> THEN <<"name">> ELSE <<"name", "{">>)
            \in Seq(Tokens)
      BY FixedTexts
    <3>2. Emit(IF labels = <<>> THEN <<"name">> ELSE <<"name", "{">>)
      BY <1>9 DEF GenerateDataLine
    <3> QED BY <1>2, <3>1, <3>2
  <2> QED BY <1>9, <2>1 DEF GenerateDataLine, TypeInv, TypeOK
<1>10. CASE StartLabel
  <2>1. out' \in Seq(Tokens)
    <3>1. Emit(<<"label", "=", Quote>>)
      BY <1>10 DEF StartLabel
    <3> QED BY <1>2, <3>1, FixedTexts
  <2>2. /\ nth \in DOMAIN labels /\ pc = "label"
        /\ work' = labels[nth] /\ pos' = 1 /\ pc' = "escapeLabel"
        /\ UNCHANGED <<help, labels, nth>>
    BY <1>10 DEF StartLabel, StartEscape
  <2>3. /\ Bounded(work', pos', labels'[nth']) /\ work' \in Seq(Characters)
        /\ Len(work') <= MaxLength
    BY <1>1, <2>2, BoundedAtFirst
  <2>4. Len(work') <= 2 * MaxLength
    <3>1. Len(work') \in Nat
      BY <2>3
    <3> QED BY <1>1, <2>3, <3>1
  <2>5. labels # <<>>
    BY <2>2 DEF TypeInv
  <2> QED BY <1>0, <2>1, <2>2, <2>3, <2>4, <2>5 DEF TypeInv, TypeOK
<1>11. CASE EscapeLabelStr
  <2>1. /\ pc = "escapeLabel" /\ Escape(MustEscapeInLabel)
        /\ UNCHANGED <<help, labels, pc, nth, out>>
    BY <1>11 DEF EscapeLabelStr, Escape
  <2>2. /\ nth \in DOMAIN labels /\ Bounded(work, pos, labels[nth])
        /\ labels # <<>>
    BY <2>1 DEF TypeInv
  <2>3. /\ work' \in Seq(Characters) /\ pos' \in Nat \ {0}
        /\ Bounded(work', pos', labels[nth])
    BY <1>0, <1>1, <2>1, <2>2, RoundIsBounded
  <2>4. Len(work') <= 2 * MaxLength
    BY <1>1, <2>2, <2>3, BoundedLength
  <2> QED BY <1>0, <2>1, <2>2, <2>3, <2>4 DEF TypeInv, TypeOK
<1>12. CASE EndLabel
  <2>1. out' \in Seq(Tokens)
    <3>1. work \o <<Quote, ",">> \in Seq(Tokens)
      BY <1>3, FixedTexts, ConcatProperties
    <3>2. Emit(work \o <<Quote, ",">>)
      BY <1>12 DEF EndLabel
    <3> QED BY <1>2, <3>1, <3>2
  <2>2. /\ pc = "escapeLabel" /\ pc' = "label" /\ nth' = nth + 1
        /\ UNCHANGED <<help, labels, work, pos>>
    BY <1>12 DEF EndLabel
  <2>3. nth \in DOMAIN labels /\ labels # <<>>
    BY <2>2 DEF TypeInv
  <2>4. nth + 1 \in 1..Len(labels) + 1
    BY <1>1, <2>3
  <2> QED BY <1>0, <2>1, <2>2, <2>3, <2>4 DEF TypeInv, TypeOK
<1>13. CASE EndLabels
  <2>1. out' \in Seq(Tokens)
    <3>1. CASE out = <<>>
      <4>1. Len(out) = 0 /\ SubSeq(out, 1, Len(out) - 1) = <<>>
        BY <3>1, SubSeqEmpty
      <4>2. (IF Last(out) = "," THEN Front(out) ELSE out) \in Seq(Tokens)
        BY <1>0, <3>1, <4>1, FixedTexts DEF Front
      <4> QED BY <1>13, <4>2, FixedTexts, ConcatProperties DEF EndLabels
    <3>2. CASE out # <<>>
      <4>1. Front(out) \in Seq(Tokens)
        BY <1>0, <3>2, FrontOfConcat
      <4>2. (IF Last(out) = "," THEN Front(out) ELSE out) \in Seq(Tokens)
        BY <1>0, <4>1
      <4> QED BY <1>13, <4>2, FixedTexts, ConcatProperties DEF EndLabels
    <3> QED BY <3>1, <3>2
  <2>2. /\ pc' = "data" /\ UNCHANGED <<help, labels, nth, work, pos>>
    BY <1>13 DEF EndLabels
  <2> QED BY <1>0, <2>1, <2>2 DEF TypeInv, TypeOK
<1>14. CASE AppendData
  <2>1. out' \in Seq(Tokens)
    <3>1. Emit(<<" ", "data", " ", "time", NewLine>>)
      BY <1>14 DEF AppendData
    <3> QED BY <1>2, <3>1, FixedTexts
  <2> QED BY <1>14, <2>1 DEF AppendData, TypeInv, TypeOK
<1>15. CASE UNCHANGED vars
  BY <1>15 DEF vars, TypeInv, TypeOK
<1> QED BY <1>4, <1>5, <1>6, <1>7, <1>8, <1>9, <1>10, <1>11, <1>12, <1>13,
           <1>14, <1>15 DEF Next

LEMMA TypeInvHolds == Spec => []TypeInv
<1>1. Init => TypeInv
  <2> SUFFICES ASSUME Init PROVE TypeInv
    OBVIOUS
  <2>1. /\ help \in Helps /\ labels \in LabelLists /\ pc = "help" /\ nth = 1
        /\ work = <<>> /\ pos = 1 /\ out = <<>>
    BY DEF Init
  <2>2. Len(labels) \in Nat /\ MaxLength \in Nat
    <3>1. labels \in Seq(Seq(Characters))
      BY <2>1, TextAssumption
    <3> QED BY <3>1, TextAssumption
  <2>3. work \in Seq(Characters) /\ Len(work) = 0 /\ out \in Seq(Tokens)
    BY <2>1, EmptySeq
  <2> QED BY <2>1, <2>2, <2>3 DEF TypeInv, TypeOK
<1>2. TypeInv /\ [Next]_vars => TypeInv'
  BY TypeStep
<1> QED BY <1>1, <1>2, PTL DEF Spec

(* Every variable holds a value of its type, and the text that the loops   *)
(* of escapeHelpStr and escapeLabelStr work on never gets longer than      *)
(* twice the text, whatever the texts are.                                 *)
THEOREM TypeCorrect == Spec => []TypeOK
<1>1. TypeInv => TypeOK
  BY DEF TypeInv
<1> QED BY <1>1, TypeInvHolds, PTL

-----------------------------------------------------------------------------
(* The line of the help text. *)

AfterType == {"line", "label", "escapeLabel", "data", "done"}

(* The help line is written first; after it comes something, so the comma  *)
(* that is taken back is never one of the help text.                       *)
HelpWritten ==
  /\ pc = "help" => out = <<>>
  /\ pc = "escapeHelp" =>
       /\ out = <<"# HELP ", "name", " ">>
       /\ help # <<>>
       /\ Escapes(work, pos, help, MustEscapeInHelp)
  /\ pc = "type" => out = HelpLine
  /\ pc \in AfterType =>
       \E rest \in Seq(Tokens) : rest # <<>> /\ out = HelpLine \o rest

HelpInv == Simple(help, MustEscapeInHelp) => HelpWritten

(* A round of the loop, on a simple text. *)
LEMMA RoundEscapes ==
  ASSUME NEW text \in Seq(Characters), NEW special,
         work \in Seq(Characters), pos \in Nat,
         Simple(text, special), Escapes(work, pos, text, special),
         Escape(special)
  PROVE  Escapes(work', pos', text, special)
<1>1. IF work[pos] \in special
      THEN Escapes(InsertAt(work, pos, Backslash), pos + 3, text, special)
      ELSE Escapes(work, pos + 1, text, special)
  BY EscapesInRound DEF Escape
<1>2. CASE work[pos] \in special
  BY <1>1, <1>2 DEF Escape
<1>3. CASE work[pos] \notin special
  BY <1>1, <1>3 DEF Escape
<1> QED BY <1>2, <1>3

(* The help line is a sequence of tokens. *)
LEMMA HelpLineIsText ==
  ASSUME help \in Seq(Characters)
  PROVE  HelpLine \in Seq(Tokens)
<1>1. Escaped(help, {Backslash}) \in Seq(Tokens)
  BY EscapedIsText
<1> QED BY <1>1, FixedTexts, ConcatProperties DEF HelpLine

(* What is appended after the type line stays behind the help line. *)
LEMMA RestGrows ==
  ASSUME NEW line \in Seq(Tokens), NEW rest \in Seq(Tokens), rest # <<>>,
         NEW tokens \in Seq(Tokens)
  PROVE  /\ (line \o rest) \o tokens = line \o (rest \o tokens)
         /\ rest \o tokens \in Seq(Tokens) /\ rest \o tokens # <<>>
<1>1. rest \o tokens \in Seq(Tokens)
  BY ConcatProperties
<1>2. rest \o tokens # <<>>
  BY ConcatEqualIffEmpty
<1> QED BY <1>1, <1>2, Associative

(* A step keeps what is said of the help line. *)
LEMMA HelpStep ==
  ASSUME TypeInv, HelpInv, [Next]_vars
  PROVE  HelpInv'
<1> USE DEF inputs
<1>1. /\ help \in Seq(Characters) /\ labels \in Seq(Seq(Characters))
      /\ work \in Seq(Characters) /\ pos \in Nat /\ out \in Seq(Tokens)
      /\ pc \in {"help", "escapeHelp", "type"} \cup AfterType
  <2>1. TypeOK
    BY DEF TypeInv
  <2> QED BY <2>1, InputTexts DEF TypeInv, TypeOK, AfterType
<1>2. HelpLine \in Seq(Tokens)
  BY <1>1, HelpLineIsText
<1>3. help' = help /\ HelpLine' = HelpLine
  <2>1. help' = help
    BY DEF Next, SkipHelp, StartHelp, EscapeHelpStr, EndHelp, GenerateType,
           GenerateDataLine, StartLabel, EscapeLabelStr, EndLabel, EndLabels,
           AppendData, Escape, vars
  <2> QED BY <2>1 DEF HelpLine
<1> SUFFICES ASSUME Simple(help, MustEscapeInHelp), HelpWritten
             PROVE  HelpWritten'
  BY <1>3 DEF HelpInv
<1>4. ASSUME pc \in AfterType, pc' \in AfterType,
             NEW tokens \in Seq(Tokens), Emit(tokens)
      PROVE  HelpWritten'
  <2>1. PICK rest \in Seq(Tokens) : rest # <<>> /\ out = HelpLine \o rest
    BY <1>4 DEF HelpWritten
  <2>2. /\ out' = HelpLine \o (rest \o tokens)
        /\ rest \o tokens \in Seq(Tokens) /\ rest \o tokens # <<>>
    BY <1>2, <1>4, <2>1, RestGrows DEF Emit
  <2>3. \E r \in Seq(Tokens) : r # <<>> /\ out' = HelpLine' \o r
    BY <1>3, <2>2
  <2> QED BY <1>4, <2>3 DEF HelpWritten, AfterType
<1>5. CASE SkipHelp
  <2>1. out = <<>> /\ out' = <<>> /\ pc' = "type" /\ help = <<>>
    BY <1>5 DEF SkipHelp, HelpWritten
  <2>2. HelpLine = <<>>
    BY <2>1 DEF HelpLine
  <2> QED BY <1>3, <2>1, <2>2 DEF HelpWritten, AfterType
<1>6. CASE StartHelp
  <2>1. /\ out = <<>> /\ out' = out \o <<"# HELP ", "name", " ">>
        /\ work' = help /\ pos' = 1 /\ pc' = "escapeHelp" /\ help # <<>>
    BY <1>6 DEF StartHelp, StartEscape, Emit, HelpWritten
  <2>2. out' = <<"# HELP ", "name", " ">>
    BY <2>1, FixedTexts, ConcatEmptySeq
  <2>3. Escapes(work', pos', help', MustEscapeInHelp)
    BY <1>1, <1>3, <2>1, EscapesAtFirst
  <2> QED BY <1>3, <2>1, <2>2, <2>3 DEF HelpWritten, AfterType
<1>7. CASE EscapeHelpStr
  <2>1. /\ pc = "escapeHelp" /\ pc' = pc /\ out' = out
        /\ Escape(MustEscapeInHelp)
    BY <1>7 DEF EscapeHelpStr, Escape
  <2>2. Escapes(work, pos, help, MustEscapeInHelp)
    BY <2>1 DEF HelpWritten
  <2>3. Escapes(work', pos', help', MustEscapeInHelp)
    BY <1>1, <1>3, <2>1, <2>2, RoundEscapes
  <2> QED BY <1>3, <2>1, <2>3 DEF HelpWritten, AfterType
<1>8. CASE EndHelp
  <2> DEFINE start == <<"# HELP ", "name", " ">>
  <2>1. /\ pc = "escapeHelp" /\ pc' = "type" /\ pos > Len(work)
        /\ out' = out \o (work \o <<NewLine>>)
    BY <1>8 DEF EndHelp, Emit
  <2>2. /\ out = start /\ help # <<>>
        /\ Escapes(work, pos, help, MustEscapeInHelp)
    BY <2>1 DEF HelpWritten
  <2>3. work = Escaped(help, {Backslash})
    BY <1>1, <2>1, <2>2, EscapesAtLast DEF MustEscapeInHelp
  <2>4. HelpLine = (start \o work) \o <<NewLine>>
    BY <2>2, <2>3 DEF HelpLine
  <2>5. /\ start \in Seq(Tokens) /\ work \in Seq(Tokens)
        /\ <<NewLine>> \in Seq(Tokens)
    BY <1>1, CharactersAreTokens, FixedTexts
  <2> HIDE DEF start
  <2>6. out' = HelpLine
    <3>1. (start \o work) \o <<NewLine>> = start \o (work \o <<NewLine>>)
      BY <2>5, Associative
    <3> QED BY <2>1, <2>2, <2>4, <3>1
  <2> QED BY <1>3, <2>1, <2>6 DEF HelpWritten, AfterType
<1>9. CASE GenerateType
  <2> DEFINE rest == <<"# TYPE ", "name", NewLine, "type", NewLine>>
  <2>1. /\ pc = "type" /\ pc' = "line" /\ out' = out \o rest
    BY <1>9 DEF GenerateType, Emit
  <2>2. out = HelpLine
    BY <2>1 DEF HelpWritten
  <2>3. rest \in Seq(Tokens) /\ rest # <<>>
    BY FixedTexts
  <2>4. \E r \in Seq(Tokens) : r # <<>> /\ out' = HelpLine' \o r
    BY <1>3, <2>1, <2>2, <2>3
  <2> QED BY <2>1, <2>4 DEF HelpWritten, AfterType
<1>10. CASE GenerateDataLine
  <2>1. (IF labels = <<>> THEN <<"name">> ELSE <<"name", "{">>) \in Seq(Tokens)
    BY FixedTexts
  <2>2. pc = "line" /\ pc' \in {"data", "label"}
    BY <1>10 DEF GenerateDataLine
  <2>3. pc \in AfterType /\ pc' \in AfterType
    BY <2>2 DEF AfterType
  <2>4. Emit(IF labels = <<>> THEN <<"name">> ELSE <<"name", "{">>)
    BY <1>10 DEF GenerateDataLine
  <2> QED BY <1>4, <2>1, <2>3, <2>4
<1>11. CASE StartLabel
  <2>1. pc \in AfterType /\ pc' \in AfterType
    BY <1>11 DEF StartLabel, AfterType
  <2>2. Emit(<<"label", "=", Quote>>)
    BY <1>11 DEF StartLabel
  <2> QED BY <1>4, <2>1, <2>2, FixedTexts
<1>12. CASE EscapeLabelStr
  <2>1. pc = "escapeLabel" /\ pc' = pc /\ out' = out
    BY <1>12 DEF EscapeLabelStr, Escape
  <2>2. \E rest \in Seq(Tokens) : rest # <<>> /\ out = HelpLine \o rest
    BY <2>1 DEF HelpWritten, AfterType
  <2> QED BY <1>3, <2>1, <2>2 DEF HelpWritten, AfterType
<1>13. CASE EndLabel
  <2>1. pc \in AfterType /\ pc' \in AfterType
    BY <1>13 DEF EndLabel, AfterType
  <2>2. Emit(work \o <<Quote, ",">>)
    BY <1>13 DEF EndLabel
  <2>3. work \o <<Quote, ",">> \in Seq(Tokens)
    BY <1>1, CharactersAreTokens, FixedTexts, ConcatProperties
  <2> QED BY <1>4, <2>1, <2>2, <2>3
<1>14. CASE EndLabels
  <2>1. pc = "label" /\ pc' = "data"
    BY <1>14 DEF EndLabels
  <2>2. PICK rest \in Seq(Tokens) : rest # <<>> /\ out = HelpLine \o rest
    BY <2>1 DEF HelpWritten, AfterType
  <2>3. /\ Front(rest) \in Seq(Tokens)
        /\ Front(out) = HelpLine \o Front(rest)
    BY <1>2, <2>2, FrontOfConcat
  <2>4. PICK kept \in Seq(Tokens) : out' = (HelpLine \o kept) \o <<"}">>
    <3>1. out' = (IF Last(out) = "," THEN Front(out) ELSE out) \o <<"}">>
      BY <1>14 DEF EndLabels
    <3>2. CASE Last(out) = ","
      BY <2>3, <3>1, <3>2
    <3>3. CASE Last(out) # ","
      BY <2>2, <3>1, <3>3
    <3> QED BY <3>2, <3>3
  <2>5. <<"}">> \in Seq(Tokens)
    BY FixedTexts
  <2>6. (HelpLine \o kept) \o <<"}">> = HelpLine \o (kept \o <<"}">>)
    BY <1>2, <2>5, Associative
  <2>7. kept \o <<"}">> \in Seq(Tokens)
    BY <2>5, ConcatProperties
  <2>8. kept \o <<"}">> # <<>>
    <3> DEFINE end == <<"}">>
    <3>1. end # <<>> /\ end \in Seq(Tokens)
      BY <2>5
    <3> HIDE DEF end
    <3>2. kept \o end # <<>>
      BY <3>1, ConcatEqualIffEmpty
    <3> QED BY <3>2 DEF end
  <2>9. \E r \in Seq(Tokens) : r # <<>> /\ out' = HelpLine' \o r
    BY <1>3, <2>4, <2>6, <2>7, <2>8
  <2> QED BY <2>1, <2>9 DEF HelpWritten, AfterType
<1>15. CASE AppendData
  <2>1. pc \in AfterType /\ pc' \in AfterType
    BY <1>15 DEF AppendData, AfterType
  <2>2. Emit(<<" ", "data", " ", "time", NewLine>>)
    BY <1>15 DEF AppendData
  <2> QED BY <1>4, <2>1, <2>2, FixedTexts
<1>16. CASE UNCHANGED vars
  <2>1. pc' = pc /\ out' = out /\ work' = work /\ pos' = pos
    BY <1>16 DEF vars
  <2> QED BY <1>3, <2>1 DEF HelpWritten
<1> QED BY <1>5, <1>6, <1>7, <1>8, <1>9, <1>10, <1>11, <1>12, <1>13,
           <1>14, <1>15, <1>16 DEF Next

(* The help line that generateHelp writes reads back to the help text and  *)
(* stays as it is, for every help text with no line break and no two       *)
(* neighbouring backslashes.                                               *)
THEOREM HelpReadsBackCorrect == Spec => []HelpReadsBack
<1>1. Init => HelpInv
  BY DEF Init, HelpInv, HelpWritten, AfterType
<1>2. TypeInv /\ HelpInv /\ [Next]_vars => HelpInv'
  BY HelpStep
<1>3. TypeInv /\ HelpInv => HelpReadsBack
  <2> SUFFICES ASSUME TypeInv, HelpInv, pc = "done", Simple(help, {Backslash})
               PROVE  IsPrefix(HelpLine, out)
    BY DEF HelpReadsBack, Done
  <2>1. HelpWritten
    BY DEF HelpInv, MustEscapeInHelp
  <2>2. PICK rest \in Seq(Tokens) : out = HelpLine \o rest
    BY <2>1 DEF HelpWritten, AfterType
  <2>3. HelpLine \in Seq(Tokens)
    BY InputTexts, HelpLineIsText DEF TypeInv
  <2> QED BY <2>2, <2>3, PartsOfConcat
<1> QED BY <1>1, <1>2, <1>3, TypeInvHolds, PTL DEF Spec

-----------------------------------------------------------------------------
(* The line of the data. *)

(* The text ends with some tokens. *)
EndsWith(tokens) == \E before \in Seq(Tokens) : out = before \o tokens

(* The line is written up to a label, up to the data, or to its end. *)
LabelsWritten ==
  /\ pc = "label" => EndsWith(Begun(labels, nth - 1))
  /\ pc = "escapeLabel" =>
       /\ EndsWith(Begun(labels, nth - 1) \o <<"label", "=", Quote>>)
       /\ Escapes(work, pos, labels[nth], MustEscapeInLabel)
  /\ pc = "data" => EndsWith(<<"name">> \o Block(labels))
  /\ pc = "done" => EndsWith(DataLine)

SimpleLabels == \A k \in DOMAIN labels : Simple(labels[k], MustEscapeInLabel)

LabelInv == SimpleLabels => LabelsWritten

(* What ends with some tokens ends, after others are written, with both. *)
LEMMA EndGrows ==
  ASSUME out \in Seq(Tokens), NEW s \in Seq(Tokens), NEW t \in Seq(Tokens),
         EndsWith(s), Emit(t)
  PROVE  \E before \in Seq(Tokens) : out' = before \o (s \o t)
<1>1. PICK before \in Seq(Tokens) : out = before \o s
  BY DEF EndsWith
<1>2. out' = (before \o s) \o t
  BY <1>1 DEF Emit
<1>3. (before \o s) \o t = before \o (s \o t)
  BY Associative
<1> QED BY <1>2, <1>3

(* The line up to the data is a sequence of tokens. *)
LEMMA BlockIsText ==
  ASSUME NEW values \in Seq(Seq(Characters))
  PROVE  <<"name">> \o Block(values) \in Seq(Tokens)
<1>1. CASE values = <<>>
  <2>1. Block(values) \in Seq(Tokens)
    BY <1>1, FixedTexts DEF Block
  <2> QED BY <2>1, FixedTexts, ConcatProperties
<1>2. CASE values # <<>>
  <2>1. PICK s \in Seq(Tokens) : <<"name">> \o Block(values) = s \o <<"}">>
    BY <1>2, LastCommaIsReplaced
  <2> QED BY <2>1, FixedTexts, ConcatProperties
<1> QED BY <1>1, <1>2

(* A step keeps what is said of the line. *)
LEMMA LabelStep ==
  ASSUME TypeInv, LabelInv, [Next]_vars
  PROVE  LabelInv'
<1> USE DEF inputs
<1>1. /\ labels \in Seq(Seq(Characters)) /\ DOMAIN labels = 1..Len(labels)
      /\ \A k \in DOMAIN labels : labels[k] \in Seq(Characters)
      /\ work \in Seq(Characters) /\ pos \in Nat /\ out \in Seq(Tokens)
      /\ nth \in 1..Len(labels) + 1 /\ Len(labels) \in Nat
  <2>1. TypeOK
    BY DEF TypeInv
  <2>2. labels \in Seq(Seq(Characters)) /\ DOMAIN labels = 1..Len(labels)
        /\ \A k \in DOMAIN labels : labels[k] \in Seq(Characters)
    BY <2>1, InputTexts
  <2> QED BY <2>1, <2>2 DEF TypeInv, TypeOK
<1>2. labels' = labels /\ DataLine' = DataLine
  <2>1. labels' = labels
    BY DEF Next, SkipHelp, StartHelp, EscapeHelpStr, EndHelp, GenerateType,
           GenerateDataLine, StartLabel, EscapeLabelStr, EndLabel, EndLabels,
           AppendData, Escape, vars
  <2> QED BY <2>1 DEF DataLine, Pairs
<1>3. Begun(labels, nth - 1) \in Seq(Tokens)
  <2>1. nth - 1 \in 0..Len(labels)
    BY <1>1
  <2> QED BY <1>1, <2>1, BegunGrows
<1> SUFFICES ASSUME SimpleLabels, LabelsWritten
             PROVE  LabelsWritten'
  BY <1>2 DEF LabelInv, SimpleLabels
<1>4. CASE pc' \notin {"label", "escapeLabel", "data", "done"}
  BY <1>4 DEF LabelsWritten
<1>5. CASE SkipHelp \/ StartHelp \/ EscapeHelpStr \/ EndHelp \/ GenerateType
  <2>1. pc' \notin {"label", "escapeLabel", "data", "done"}
    BY <1>5 DEF SkipHelp, StartHelp, EscapeHelpStr, EndHelp, GenerateType,
                Escape
  <2> QED BY <1>4, <2>1
<1>6. CASE GenerateDataLine
  <2>1. /\ pc = "line" /\ nth = 1 /\ nth' = nth
        /\ out' = out \o (IF labels = <<>> THEN <<"name">>
                          ELSE <<"name", "{">>)
        /\ pc' = IF labels = <<>> THEN "data" ELSE "label"
    BY <1>6 DEF GenerateDataLine, Emit, TypeInv
  <2>2. CASE labels = <<>>
    <3>1. <<"name">> \o Block(labels) = <<"name">>
      BY <2>2, FixedTexts, ConcatEmptySeq DEF Block
    <3>2. EndsWith(<<"name">> \o Block(labels))'
      BY <1>1, <1>2, <2>1, <2>2, <3>1 DEF EndsWith
    <3> QED BY <2>1, <2>2, <3>2 DEF LabelsWritten
  <2>3. CASE labels # <<>>
    <3>1. Begun(labels, 0) = <<"name", "{">> /\ nth' - 1 = 0
      <4>1. nth' = 1
        BY <2>1, Zenon
      <4>2. Begun(labels, 0) = <<"name", "{">>
        BY <1>1, BegunGrows
      <4>3. nth' - 1 = 0
        BY <4>1
      <4> QED BY <4>2, <4>3
    <3>2. EndsWith(Begun(labels, nth - 1))'
      BY <1>1, <1>2, <2>1, <2>3, <3>1 DEF EndsWith
    <3> QED BY <2>1, <2>3, <3>2 DEF LabelsWritten
  <2> QED BY <2>2, <2>3
<1>7. CASE StartLabel
  <2>1. /\ pc = "label" /\ pc' = "escapeLabel" /\ nth \in DOMAIN labels
        /\ Emit(<<"label", "=", Quote>>) /\ nth' = nth
        /\ work' = labels[nth] /\ pos' = 1
    BY <1>7 DEF StartLabel, StartEscape
  <2>2. EndsWith(Begun(labels, nth - 1))
    BY <2>1 DEF LabelsWritten
  <2>3. <<"label", "=", Quote>> \in Seq(Tokens)
    BY FixedTexts
  <2>4. EndsWith(Begun(labels, nth - 1) \o <<"label", "=", Quote>>)'
    <3>1. \E before \in Seq(Tokens) :
            out' = before
                     \o (Begun(labels, nth - 1) \o <<"label", "=", Quote>>)
      BY <1>1, <1>3, <2>1, <2>2, <2>3, EndGrows
    <3> QED BY <1>2, <2>1, <3>1 DEF EndsWith
  <2>5. Escapes(work', pos', labels'[nth'], MustEscapeInLabel)
    BY <1>1, <1>2, <2>1, EscapesAtFirst
  <2> QED BY <2>1, <2>4, <2>5 DEF LabelsWritten
<1>8. CASE EscapeLabelStr
  <2>1. /\ pc = "escapeLabel" /\ Escape(MustEscapeInLabel)
        /\ UNCHANGED <<pc, nth, out>>
    BY <1>8 DEF EscapeLabelStr, Escape
  <2>2. /\ EndsWith(Begun(labels, nth - 1) \o <<"label", "=", Quote>>)
        /\ Escapes(work, pos, labels[nth], MustEscapeInLabel)
    BY <2>1 DEF LabelsWritten
  <2>3. nth \in DOMAIN labels
    BY <2>1 DEF TypeInv
  <2>4. Simple(labels[nth], MustEscapeInLabel)
    BY <2>3 DEF SimpleLabels
  <2>5. Escapes(work', pos', labels'[nth'], MustEscapeInLabel)
    BY <1>1, <1>2, <2>1, <2>2, <2>3, <2>4, RoundEscapes
  <2>6. EndsWith(Begun(labels, nth - 1) \o <<"label", "=", Quote>>)'
    BY <1>2, <2>1, <2>2 DEF EndsWith
  <2> QED BY <2>1, <2>5, <2>6 DEF LabelsWritten
<1>9. CASE EndLabel
  <2> DEFINE start == Begun(labels, nth - 1)
             key == <<"label", "=", Quote>>
             rest == work \o <<Quote, ",">>
  <2>1. /\ pc = "escapeLabel" /\ pc' = "label" /\ pos > Len(work)
        /\ Emit(rest) /\ nth' = nth + 1
    BY <1>9 DEF EndLabel
  <2>2. EndsWith(start \o key)
        /\ Escapes(work, pos, labels[nth], MustEscapeInLabel)
    BY <2>1 DEF LabelsWritten
  <2>3. nth \in 1..Len(labels) /\ nth' - 1 = nth
    <3>1. nth \in DOMAIN labels /\ nth' = nth + 1
      BY <2>1 DEF TypeInv
    <3> QED BY <1>1, <3>1
  <2>4. work = Escaped(labels[nth], {Quote, Backslash})
    BY <1>1, <2>1, <2>2, <2>3, EscapesAtLast DEF MustEscapeInLabel
  <2>5. Begun(labels, nth) = start \o (key \o rest)
    BY <1>1, <2>3, <2>4, BegunGrows
  <2>6. /\ start \in Seq(Tokens) /\ key \in Seq(Tokens)
        /\ rest \in Seq(Tokens) /\ start \o key \in Seq(Tokens)
    BY <1>1, <1>3, CharactersAreTokens, FixedTexts, ConcatProperties
  <2> HIDE DEF start, key, rest
  <2>7. PICK before \in Seq(Tokens) : out' = before \o ((start \o key) \o rest)
    BY <1>1, <2>1, <2>2, <2>6, EndGrows
  <2>8. (start \o key) \o rest = start \o (key \o rest)
    <3>1. start \in Seq(Tokens) /\ key \in Seq(Tokens) /\ rest \in Seq(Tokens)
      BY <2>6
    <3> QED BY <3>1, Associative
  <2>9. EndsWith(Begun(labels, nth - 1))'
    BY <1>2, <2>3, <2>5, <2>7, <2>8 DEF EndsWith
  <2> QED BY <2>1, <2>9 DEF LabelsWritten
<1>10. CASE EndLabels
  <2>1. /\ pc = "label" /\ pc' = "data" /\ nth \notin DOMAIN labels
        /\ out' = (IF Last(out) = "," THEN Front(out) ELSE out) \o <<"}">>
    BY <1>10 DEF EndLabels
  <2>2. EndsWith(Begun(labels, nth - 1)) /\ labels # <<>>
    BY <2>1 DEF LabelsWritten, TypeInv
  <2>3. nth - 1 = Len(labels)
    <3>1. nth \notin DOMAIN labels
      BY <2>1, Zenon
    <3> QED BY <1>1, <3>1
  <2>4. PICK s \in Seq(Tokens) :
          /\ Begun(labels, Len(labels)) = s \o <<",">>
          /\ <<"name">> \o Block(labels) = s \o <<"}">>
    BY <1>1, <2>2, LastCommaIsReplaced
  <2>5. PICK before \in Seq(Tokens) : out = before \o (s \o <<",">>)
    BY <2>2, <2>3, <2>4 DEF EndsWith
  <2>6. <<",">> \in Seq(Tokens) /\ <<"}">> \in Seq(Tokens) /\ "," \in Tokens
    BY FixedTexts
  <2>7. before \o s \in Seq(Tokens)
    BY ConcatProperties
  <2>8. out = (before \o s) \o <<",">>
    BY <2>5, <2>6, Associative
  <2>9. Last(out) = "," /\ Front(out) = before \o s
    BY <2>6, <2>7, <2>8, FrontOfAppend
  <2>10. out' = (before \o s) \o <<"}">>
    BY <2>1, <2>9
  <2>11. (before \o s) \o <<"}">> = before \o (s \o <<"}">>)
    BY <2>6, Associative
  <2>12. EndsWith(<<"name">> \o Block(labels))'
    BY <1>2, <2>4, <2>10, <2>11 DEF EndsWith
  <2> QED BY <2>1, <2>12 DEF LabelsWritten
<1>11. CASE AppendData
  <2> DEFINE line == <<"name">> \o Block(labels)
             data == <<" ", "data", " ", "time", NewLine>>
  <2>1. pc = "data" /\ pc' = "done" /\ Emit(data)
    BY <1>11 DEF AppendData
  <2>2. EndsWith(line)
    BY <2>1 DEF LabelsWritten
  <2>3. line \in Seq(Tokens) /\ data \in Seq(Tokens)
    BY <1>1, BlockIsText, FixedTexts
  <2>4. DataLine = line \o data
    BY DataLineOfBlock
  <2> HIDE DEF line, data
  <2>5. \E before \in Seq(Tokens) : out' = before \o (line \o data)
    BY <1>1, <2>1, <2>2, <2>3, EndGrows
  <2>6. EndsWith(DataLine)'
    BY <1>2, <2>4, <2>5 DEF EndsWith
  <2> QED BY <2>1, <2>6 DEF LabelsWritten
<1>12. CASE UNCHANGED vars
  <2>1. UNCHANGED <<pc, nth, work, pos, out>>
    BY <1>12 DEF vars
  <2>2. /\ EndsWith(Begun(labels, nth - 1))' = EndsWith(Begun(labels, nth - 1))
        /\ EndsWith(Begun(labels, nth - 1) \o <<"label", "=", Quote>>)' =
             EndsWith(Begun(labels, nth - 1) \o <<"label", "=", Quote>>)
        /\ EndsWith(<<"name">> \o Block(labels))' =
             EndsWith(<<"name">> \o Block(labels))
        /\ EndsWith(DataLine)' = EndsWith(DataLine)
    BY <1>2, <2>1 DEF EndsWith
  <2> QED BY <1>2, <2>1, <2>2 DEF LabelsWritten
<1> QED BY <1>5, <1>6, <1>7, <1>8, <1>9, <1>10, <1>11, <1>12 DEF Next

(* The line of the data that generateDataLine and generateLabel write      *)
(* reads back to the label values, for any number of labels, if no value   *)
(* has a line break or two neighbours to be escaped: every value is        *)
(* escaped, commas stand between the pairs only, and the braces are there  *)
(* if and only if there are labels.                                        *)
THEOREM LabelsReadBackCorrect == Spec => []LabelsReadBack
<1>1. Init => LabelInv
  BY DEF Init, LabelInv, LabelsWritten
<1>2. TypeInv /\ LabelInv /\ [Next]_vars => LabelInv'
  BY LabelStep
<1>3. TypeInv /\ LabelInv => LabelsReadBack
  <2> SUFFICES ASSUME TypeInv, LabelInv, pc = "done",
                      \A k \in DOMAIN labels :
                        Simple(labels[k], {Quote, Backslash})
               PROVE  IsSuffix(DataLine, out)
    BY DEF LabelsReadBack, Done
  <2>1. EndsWith(DataLine)
    BY DEF LabelInv, LabelsWritten, SimpleLabels, MustEscapeInLabel
  <2>2. PICK before \in Seq(Tokens) : out = before \o DataLine
    BY <2>1 DEF EndsWith
  <2>3. DataLine \in Seq(Tokens)
    <3>1. labels \in Seq(Seq(Characters))
      BY InputTexts DEF TypeInv
    <3>2. <<"name">> \o Block(labels) \in Seq(Tokens)
      BY <3>1, BlockIsText
    <3> QED BY <3>2, DataLineOfBlock, FixedTexts, ConcatProperties
  <2> QED BY <2>2, <2>3, PartsOfConcat
<1> QED BY <1>1, <1>2, <1>3, TypeInvHolds, PTL DEF Spec

=============================================================================

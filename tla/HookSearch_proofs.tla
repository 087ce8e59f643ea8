--------------------------- MODULE HookSearch_proofs ---------------------------
(***************************************************************************)
(* Proofs about the search for the place to hook, for any code, of any     *)
(* length and with any bytes, and any windows: where instructions start,   *)
(* which bytes they leave, what memmem finds among them, and from that     *)
(* what each switch function redirects.                                    *)
(***************************************************************************)
EXTENDS HookSearch, FoldLemmas, TLAPS

Size(c, k) == Len(Bytes(c[k]))

\* A byte before some others.
LEMMA PrependOne ==
    ASSUME NEW T, NEW x \in T, NEW s \in Seq(T)
    PROVE  /\ <<x>> \o s \in Seq(T)
           /\ Len(<<x>> \o s) = 1 + Len(s) /\ Len(s) \in Nat
           /\ (<<x>> \o s)[1] = x
OBVIOUS

\* Instructions are not empty, and start with their opcode.
LEMMA SizeType ==
    ASSUME NEW c \in Codes, NEW k \in 1 .. Len(c)
    PROVE  /\ Bytes(c[k]) \in Seq(STRING)
           /\ Size(c, k) \in Nat \ {0}
           /\ Bytes(c[k])[1] = c[k].op
           /\ c[k].op \in {"e8", "e9"} => Size(c, k) = 1 + DISP
<1>1. c \in Seq([op : STRING, to : STRING, rest : Seq(STRING)]) /\ k \in DOMAIN c
  <2>1. c \in Seq([op : STRING, to : STRING, rest : Seq(STRING)])
      BY CodesAssumption
  <2> QED  BY <2>1
<1>2. c[k] \in [op : STRING, to : STRING, rest : Seq(STRING)]
    BY <1>1, SeqElement
<1>3. c[k].op \in {"e8", "e9"} => Len(c[k].rest) = DISP
    BY <1>1, CodesAssumption
<1> DEFINE op == c[k].op
           rest == c[k].rest
<1>4. op \in STRING /\ rest \in Seq(STRING)
    BY <1>2
<1>5. Bytes(c[k]) = <<op>> \o rest
    BY DEF Bytes
<1>6. op \in {"e8", "e9"} => Len(rest) = DISP
    BY <1>3
<1>8. Size(c, k) = Len(<<op>> \o rest)
    BY <1>5 DEF Size
<1> HIDE DEF op, rest
<1>7. /\ <<op>> \o rest \in Seq(STRING)
      /\ Len(<<op>> \o rest) = 1 + Len(rest) /\ Len(rest) \in Nat
      /\ (<<op>> \o rest)[1] = op
    BY <1>4, PrependOne
<1>9. /\ Bytes(c[k]) \in Seq(STRING)
      /\ Size(c, k) \in Nat \ {0}
      /\ Bytes(c[k])[1] = op
      /\ op \in {"e8", "e9"} => Size(c, k) = 1 + DISP
    BY <1>5, <1>6, <1>7, <1>8
<1> QED  BY <1>9 DEF op

-----------------------------------------------------------------------------
(* Where instructions start.                                               *)

Sizes(c) == [k \in 1 .. Len(c) |-> Size(c, k)]

\* The sizes' sum, as a function of the instructions summed.
LEMMA StartIsSum ==
    ASSUME NEW c \in Codes, NEW n \in 1 .. Len(c) + 1
    PROVE  \E g : Sums(Sizes(c), 1 .. n - 1, g) /\ Start(c, n) = 1 + g[1 .. n - 1]
<1> DEFINE D == 1 .. n - 1
           Is(g) == g = [s \in SUBSET D |-> IF s = {} THEN 0
                                            ELSE Len(Bytes(c[Chosen(s)])) + g[s \ {Chosen(s)}]]
<1>1. Len(c) \in Nat
    BY CodesAssumption
<1>2. IsFiniteSet(D)
    BY <1>1, FS_Interval
<1>3. ASSUME NEW s \in SUBSET D, s # {} PROVE Sizes(c)[Chosen(s)] = Len(Bytes(c[Chosen(s)]))
  <2>1. Chosen(s) \in s
      BY <1>3 DEF Chosen
  <2>2. \A k \in D : k \in 1 .. Len(c)
      BY <1>1
  <2>3. Chosen(s) \in 1 .. Len(c)
      BY <2>1, <2>2
  <2> QED  BY <2>3 DEF Sizes, Size
<1> HIDE DEF D
<1>4. \A g : Is(g) <=> Sums(Sizes(c), D, g)
    BY <1>3 DEF Sums
<1>5. \E g : Is(g)
  <2>1. PICK g : Sums(Sizes(c), D, g)
      BY <1>2, SumsExist
  <2> QED  BY <1>4, <2>1
<1>6. Start(c, n) = 1 + (CHOOSE g : Is(g))[D]
    BY Zenon DEF Start, MapThenSumSet, MapThenFoldSet, Chosen, D
<1> HIDE DEF Is
<1>7. Is(CHOOSE g : Is(g))
    BY <1>5
<1> QED  BY <1>4, <1>6, <1>7 DEF D

\* Each instruction starts where the one before it ends.
LEMMA StartStep ==
    ASSUME NEW c \in Codes
    PROVE  /\ Len(c) \in Nat
           /\ Start(c, 1) = 1
           /\ \A n \in 1 .. Len(c) + 1 : Start(c, n) \in Nat \ {0}
           /\ \A n \in 1 .. Len(c) : Start(c, n + 1) = Start(c, n) + Size(c, n)
<1> DEFINE F == Sizes(c)
<1>1. Len(c) \in Nat
    BY CodesAssumption
<1>2. \A k \in 1 .. Len(c) : F[k] = Size(c, k) /\ F[k] \in Int
  <2>1. ASSUME NEW k \in 1 .. Len(c) PROVE Size(c, k) \in Int
    <3>1. Size(c, k) \in Nat \ {0}
        BY SizeType
    <3> QED  BY <3>1
  <2> QED  BY <2>1 DEF Sizes
<1> HIDE DEF F
<1>3. Start(c, 1) = 1
  <2>1. 1 \in 1 .. Len(c) + 1
      BY <1>1
  <2>2. PICK g : Sums(F, 1 .. 1 - 1, g) /\ Start(c, 1) = 1 + g[1 .. 1 - 1]
      BY <2>1, StartIsSum DEF F
  <2>3. 1 .. 1 - 1 = {}
      OBVIOUS
  <2>4. g[{}] = 0
      BY <2>2, <2>3 DEF Sums
  <2> QED  BY <2>2, <2>3, <2>4
<1>4. ASSUME NEW n \in 1 .. Len(c) PROVE Start(c, n + 1) = Start(c, n) + Size(c, n) /\ Start(c, n) \in Int
  <2> DEFINE D == 1 .. n
             E == 1 .. n - 1
  <2>1. n \in 1 .. Len(c) + 1 /\ n + 1 \in 1 .. Len(c) + 1 /\ D = 1 .. (n + 1) - 1
      BY <1>1
  <2>2. PICK g : Sums(F, D, g) /\ Start(c, n + 1) = 1 + g[D]
      BY <2>1, StartIsSum DEF F
  <2>3. PICK h : Sums(F, E, h) /\ Start(c, n) = 1 + h[E]
      BY <2>1, StartIsSum DEF F
  <2>4. n \in D /\ D \ {n} = E /\ E \in SUBSET D
      OBVIOUS
  <2>5. IsFiniteSet(D)
      BY <1>1, FS_Interval
  <2>6. \A x \in D : F[x] \in Int
      BY <1>1, <1>2
  <2> HIDE DEF D, E
  <2>7. Summed(F, D, g)
      BY <2>2, <2>5, <2>6 DEF Summed
  <2>8. g[D] = F[n] + g[E] /\ g[E] \in Int
      BY <2>4, <2>7, SumsWhole
  <2>9. g[E] = h[E]
      BY <2>3, <2>4, <2>7, SumsAgree
  <2>10. F[n] = Size(c, n) /\ Size(c, n) \in Int
      BY <1>2
  <2> QED  BY <2>2, <2>3, <2>8, <2>9, <2>10
<1> DEFINE T == {k \in Nat : k + 1 <= Len(c) + 1 => Start(c, k + 1) \in Nat \ {0}}
<1>5. 0 \in T
    BY <1>3
<1>6. ASSUME NEW k \in T PROVE k + 1 \in T
  <2> SUFFICES ASSUME k + 1 <= Len(c) PROVE Start(c, (k + 1) + 1) \in Nat \ {0}
      BY <1>1
  <2>1. k + 1 \in 1 .. Len(c) /\ Start(c, k + 1) \in Nat \ {0}
      BY <1>1
  <2>2. Size(c, k + 1) \in Nat
      BY <2>1, SizeType
  <2> QED  BY <1>4, <2>1, <2>2
<1>7. T = Nat
  <2> HIDE DEF T
  <2> QED  BY <1>5, <1>6, NatSetInd DEF T
<1>8. ASSUME NEW n \in 1 .. Len(c) + 1 PROVE Start(c, n) \in Nat \ {0}
  <2>1. n - 1 \in Nat /\ (n - 1) + 1 = n /\ n <= Len(c) + 1
      BY <1>1
  <2>2. n - 1 \in T
      BY <1>7, <2>1
  <2> QED  BY <2>1, <2>2
<1> QED  BY <1>1, <1>3, <1>4, <1>8

\* Later instructions start behind the end of earlier ones.
LEMMA StartGrows ==
    ASSUME NEW c \in Codes, NEW m \in 1 .. Len(c), NEW n \in m + 1 .. Len(c) + 1
    PROVE  Start(c, m) + Size(c, m) <= Start(c, n)
<1> DEFINE T == {k \in Nat : m + 1 + k <= Len(c) + 1 => Start(c, m + 1) <= Start(c, m + 1 + k)}
<1>1. Len(c) \in Nat /\ \A k \in 1 .. Len(c) + 1 : Start(c, k) \in Nat
    BY StartStep
<1>2. 0 \in T
  <2>1. m + 1 + 0 = m + 1 /\ m + 1 \in 1 .. Len(c) + 1
      BY <1>1
  <2>2. Start(c, m + 1) <= Start(c, m + 1 + 0)
      BY <1>1, <2>1
  <2> QED  BY <2>2
<1>3. ASSUME NEW k \in T PROVE k + 1 \in T
  <2> SUFFICES ASSUME m + 1 + (k + 1) <= Len(c) + 1 PROVE Start(c, m + 1) <= Start(c, m + 1 + (k + 1))
      OBVIOUS
  <2> DEFINE j == m + 1 + k
  <2>1. j \in 1 .. Len(c) /\ m + 1 + (k + 1) = j + 1 /\ m + 1 \in 1 .. Len(c) + 1 /\ Start(c, m + 1) <= Start(c, j)
      BY <1>1
  <2> HIDE DEF j
  <2>2. Size(c, j) \in Nat
    <3>1. Size(c, j) \in Nat \ {0}
        BY <2>1, SizeType
    <3> QED  BY <3>1
  <2>3. Start(c, j + 1) = Start(c, j) + Size(c, j)
      BY <2>1, StartStep
  <2>4. Start(c, j) \in Nat /\ Start(c, m + 1) \in Nat
      BY <1>1, <2>1
  <2> QED  BY <2>1, <2>2, <2>3, <2>4
<1>4. T = Nat
  <2> HIDE DEF T
  <2> QED  BY <1>2, <1>3, NatSetInd DEF T
<1>5. n - (m + 1) \in Nat /\ m + 1 + (n - (m + 1)) = n /\ n <= Len(c) + 1
    BY <1>1
<1>6. n - (m + 1) \in T
    BY <1>4, <1>5
<1>7. Start(c, m + 1) = Start(c, m) + Size(c, m)
    BY StartStep
<1> QED  BY <1>5, <1>6, <1>7

\* Place p is one of the m-th instruction's.
Inside(c, m, p) == \E b \in 1 .. Size(c, m) : p = Start(c, m) + b - 1

\* Every place up to an instruction's end lies in an instruction.
LEMMA PlaceOf ==
    ASSUME NEW c \in Codes, NEW n \in 0 .. Len(c), NEW p \in 1 .. Start(c, n + 1) - 1
    PROVE  \E m \in 1 .. n : Inside(c, m, p)
<1> DEFINE In(k, q) == \E m \in 1 .. k : Inside(c, m, q)
           T == {k \in Nat : k <= Len(c) => \A q \in 1 .. Start(c, k + 1) - 1 : In(k, q)}
<1>1. Len(c) \in Nat /\ Start(c, 1) = 1
    BY StartStep
<1>2. 0 \in T
    BY <1>1
<1>3. ASSUME NEW k \in T PROVE k + 1 \in T
  <2> SUFFICES ASSUME k + 1 <= Len(c), NEW q \in 1 .. Start(c, k + 1 + 1) - 1 PROVE In(k + 1, q)
      OBVIOUS
  <2>1. k \in Nat /\ k + 1 \in 1 .. Len(c) /\ k + 1 \in 1 .. Len(c) + 1 /\ \A r \in 1 .. Start(c, k + 1) - 1 : In(k, r)
      BY <1>1
  <2>2. Start(c, k + 1 + 1) = Start(c, k + 1) + Size(c, k + 1) /\ Start(c, k + 1) \in Nat
    <3>1. Start(c, k + 1) \in Nat \ {0}
        BY <2>1, StartStep
    <3> QED  BY <2>1, <3>1, StartStep
  <2>3. Size(c, k + 1) \in Nat
    <3>1. Size(c, k + 1) \in Nat \ {0}
        BY <2>1, SizeType
    <3> QED  BY <3>1
  <2>4. CASE q < Start(c, k + 1)
    <3>1. q \in 1 .. Start(c, k + 1) - 1
        BY <2>2, <2>4
    <3>2. PICK m \in 1 .. k : Inside(c, m, q)
        BY <2>1, <3>1
    <3>3. m \in 1 .. k + 1
        BY <2>1
    <3> QED  BY <3>2, <3>3
  <2>5. CASE q >= Start(c, k + 1)
    <3>1. q - Start(c, k + 1) + 1 \in 1 .. Size(c, k + 1)
        BY <2>2, <2>3, <2>5
    <3>2. q = Start(c, k + 1) + (q - Start(c, k + 1) + 1) - 1
        BY <2>2
    <3>3. k + 1 \in 1 .. k + 1
        BY <2>1
    <3> QED  BY <3>1, <3>2, <3>3 DEF Inside
  <2> QED  BY <2>2, <2>4, <2>5
<1>4. T = Nat
  <2> HIDE DEF T
  <2> QED  BY <1>2, <1>3, NatSetInd DEF T
<1>5. n \in T /\ n <= Len(c)
    BY <1>1, <1>4
<1> QED  BY <1>5

-----------------------------------------------------------------------------
(* The bytes.                                                              *)

\* What FlattenSeq chooses: f joins the first sequences.
Joins(seqs, n, f) == f = [i \in 1 .. n |-> IF i = 1 THEN seqs[i] ELSE f[i - 1] \o seqs[i]]

\* There is such a function.
LEMMA JoinsExist ==
    ASSUME NEW seqs, NEW n \in Nat
    PROVE  \E f : Joins(seqs, n, f)
<1> DEFINE T == {k \in Nat : \E f : Joins(seqs, k, f)}
<1>1. 0 \in T
  <2> DEFINE f == [i \in 1 .. 0 |-> <<>>]
  <2>1. Joins(seqs, 0, f)
    <3>1. 1 .. 0 = {}
        OBVIOUS
    <3> QED  BY <3>1 DEF Joins
  <2> QED  BY <2>1
<1>2. ASSUME NEW k \in T PROVE k + 1 \in T
  <2>1. PICK f : Joins(seqs, k, f)
      OBVIOUS
  <2> DEFINE h == [i \in 1 .. k + 1 |-> IF i = 1 THEN seqs[i] ELSE f[i - 1] \o seqs[i]]
  <2>2. ASSUME NEW i \in 1 .. k PROVE h[i] = f[i]
    <3>1. f[i] = IF i = 1 THEN seqs[i] ELSE f[i - 1] \o seqs[i]
        BY <2>1 DEF Joins
    <3>2. i \in 1 .. k + 1
        OBVIOUS
    <3> QED  BY <3>1, <3>2
  <2>3. \A i \in 1 .. k + 1 : i # 1 => i - 1 \in 1 .. k
      OBVIOUS
  <2>4. \A i \in 1 .. k + 1 : h[i] = IF i = 1 THEN seqs[i] ELSE h[i - 1] \o seqs[i]
      BY <2>2, <2>3
  <2>5. h = [i \in 1 .. k + 1 |-> h[i]]
      OBVIOUS
  <2> HIDE DEF h
  <2>6. Joins(seqs, k + 1, h)
      BY <2>4, <2>5 DEF Joins
  <2> QED  BY <2>6
<1>3. T = Nat
  <2> HIDE DEF T
  <2> QED  BY <1>1, <1>2, NatSetInd DEF T
<1> QED  BY <1>3

\* What the first k instructions are in bytes.
Holds(c, k, bytes) ==
    /\ bytes \in Seq(STRING)
    /\ Len(bytes) = Start(c, k + 1) - 1
    /\ \A m \in 1 .. k : \A b \in 1 .. Size(c, m) : bytes[Start(c, m) + b - 1] = Bytes(c[m])[b]

\* One more instruction is so many more bytes.
LEMMA HoldsStep ==
    ASSUME NEW c \in Codes, NEW k \in 0 .. Len(c) - 1, NEW bytes, Holds(c, k, bytes)
    PROVE  Holds(c, k + 1, bytes \o Bytes(c[k + 1]))
<1> DEFINE new == bytes \o Bytes(c[k + 1])
           n == k + 1
<1>1. Len(c) \in Nat /\ n \in 1 .. Len(c) /\ n \in 1 .. Len(c) + 1
    BY StartStep
<1>2. Bytes(c[n]) \in Seq(STRING) /\ Size(c, n) \in Nat \ {0} /\ Len(Bytes(c[n])) = Size(c, n)
    BY <1>1, SizeType DEF Size
<1>3. bytes \in Seq(STRING) /\ Len(bytes) = Start(c, n) - 1
    BY DEF Holds
<1>4. Start(c, n + 1) = Start(c, n) + Size(c, n) /\ Start(c, n) \in Nat \ {0}
    BY <1>1, StartStep
<1>5. /\ new \in Seq(STRING) /\ Len(new) = Start(c, n + 1) - 1
      /\ \A p \in 1 .. Len(bytes) : new[p] = bytes[p]
      /\ \A b \in 1 .. Size(c, n) : new[Start(c, n) + b - 1] = Bytes(c[n])[b]
  <2> DEFINE more == Bytes(c[n])
  <2> HIDE DEF more
  <2>1. more \in Seq(STRING) /\ Len(more) = Size(c, n) /\ new = bytes \o more
      BY <1>2 DEF more
  <2>2. new \in Seq(STRING) /\ Len(new) = Len(bytes) + Len(more)
      BY <1>3, <2>1
  <2>3. \A p \in 1 .. Len(bytes) : new[p] = bytes[p]
      BY <1>3, <2>1
  <2>4. ASSUME NEW b \in 1 .. Size(c, n) PROVE new[Start(c, n) + b - 1] = more[b]
    <3>1. Start(c, n) + b - 1 = Len(bytes) + b /\ b \in 1 .. Len(more)
        BY <1>3, <1>4, <2>1
    <3>2. new[Len(bytes) + b] = more[b]
        BY <1>3, <2>1, <3>1
    <3> QED  BY <3>1, <3>2
  <2>5. Len(new) = Start(c, n + 1) - 1
    <3>1. Len(bytes) = Start(c, n) - 1 /\ Len(more) = Size(c, n) /\ Start(c, n) \in Nat /\ Size(c, n) \in Nat
        BY <1>2, <1>3, <1>4, <2>1
    <3>2. Len(new) = Len(bytes) + Len(more)
        BY <2>2
    <3> HIDE DEF new, n
    <3> QED  BY <1>4, <3>1, <3>2
  <2>6. \A b \in 1 .. Size(c, n) : new[Start(c, n) + b - 1] = Bytes(c[n])[b]
    <3> HIDE DEF new, n
    <3> QED  BY <2>4 DEF more
  <2> HIDE DEF new, n
  <2> QED  BY <2>2, <2>3, <2>5, <2>6
<1>6. ASSUME NEW m \in 1 .. k, NEW b \in 1 .. Size(c, m)
      PROVE  new[Start(c, m) + b - 1] = Bytes(c[m])[b]
  <2>1. m \in 1 .. Len(c) /\ m \in 1 .. Len(c) + 1 /\ n \in m + 1 .. Len(c) + 1
      BY <1>1
  <2>2. Start(c, m) + Size(c, m) <= Start(c, n) /\ Start(c, m) \in Nat \ {0} /\ Size(c, m) \in Nat \ {0}
      BY <2>1, StartGrows, StartStep, SizeType
  <2>3. Start(c, m) + b - 1 \in 1 .. Len(bytes)
      BY <1>3, <1>4, <2>2
  <2>4. bytes[Start(c, m) + b - 1] = Bytes(c[m])[b]
      BY DEF Holds
  <2> QED  BY <1>5, <2>3, <2>4
<1>7. \A m \in 1 .. n : m \in 1 .. k \/ m = n
    BY <1>1
<1> HIDE DEF new
<1>8. \A m \in 1 .. n : \A b \in 1 .. Size(c, m) : new[Start(c, m) + b - 1] = Bytes(c[m])[b]
    BY <1>5, <1>6, <1>7
<1>9. Holds(c, n, new)
    BY <1>5, <1>8 DEF Holds
<1> QED  BY <1>9 DEF new

\* The text that is searched holds the instructions in their order.
LEMMA TextHolds ==
    ASSUME NEW c \in Codes
    PROVE  Holds(c, Len(c), Text(c))
<1> DEFINE seqs == [k \in DOMAIN c |-> Bytes(c[k])]
           n == Len(c)
<1>1. n \in Nat /\ DOMAIN c = 1 .. n
    BY CodesAssumption
<1>2. \A k \in 1 .. n : seqs[k] = Bytes(c[k]) /\ Bytes(c[k]) \in Seq(STRING)
    BY <1>1, SizeType
<1>3. Len(seqs) = n
  <2>1. seqs \in [1 .. n -> Seq(STRING)]
      BY <1>1, <1>2
  <2> HIDE DEF seqs, n
  <2> QED  BY <1>1, <2>1
<1>4. Holds(c, 0, <<>>)
  <2>1. Start(c, 0 + 1) = 1
      BY StartStep
  <2>2. <<>> \in Seq(STRING) /\ Len(<<>>) = 0
      OBVIOUS
  <2> QED  BY <2>1, <2>2 DEF Holds
<1>5. CASE n = 0
  <2>1. Text(c) = seqs
      BY <1>3, <1>5 DEF Text, FlattenSeq
  <2>2. seqs = <<>>
      BY <1>1, <1>5
  <2> QED  BY <1>4, <1>5, <2>1, <2>2
<1>6. CASE n > 0
  <2> DEFINE f == CHOOSE g : Joins(seqs, n, g)
  <2>1. Text(c) = f[n]
    <3>1. Len(seqs) # 0
        BY <1>3, <1>6
    <3>2. Text(c) = (CHOOSE g : Joins(seqs, Len(seqs), g))[Len(seqs)]
        BY <3>1, Zenon DEF Text, FlattenSeq, Joins
    <3> QED  BY <1>3, <3>2
  <2>2. Joins(seqs, n, f)
      BY <1>1, JoinsExist
  <2> HIDE DEF f, seqs
  <2>3. \A i \in 1 .. n : f[i] = IF i = 1 THEN seqs[i] ELSE f[i - 1] \o seqs[i]
      BY <2>2 DEF Joins
  <2> DEFINE T == {k \in Nat : k + 1 <= n => Holds(c, k + 1, f[k + 1])}
  <2>4. 0 \in T
    <3>1. 1 \in 1 .. n /\ 0 \in 0 .. n - 1
        BY <1>1, <1>6
    <3>2. f[1] = Bytes(c[1]) /\ Bytes(c[1]) \in Seq(STRING)
        BY <1>2, <2>3, <3>1
    <3>3. <<>> \o Bytes(c[1]) = Bytes(c[1])
        BY <3>2
    <3>4. Holds(c, 0 + 1, <<>> \o Bytes(c[0 + 1]))
        BY <1>4, <3>1, HoldsStep
    <3> QED  BY <3>2, <3>3, <3>4
  <2>5. ASSUME NEW k \in T PROVE k + 1 \in T
    <3> SUFFICES ASSUME k + 1 + 1 <= n PROVE Holds(c, k + 1 + 1, f[k + 1 + 1])
        OBVIOUS
    <3> DEFINE j == k + 1
    <3>1. j \in 0 .. n - 1 /\ j + 1 \in 1 .. n /\ j + 1 # 1 /\ Holds(c, j, f[j]) /\ (j + 1) - 1 = j
        BY <1>1
    <3>2. Holds(c, j + 1, f[j] \o Bytes(c[j + 1]))
        BY <3>1, HoldsStep
    <3>3. f[j + 1] = f[j] \o Bytes(c[j + 1])
        BY <1>2, <2>3, <3>1
    <3> QED  BY <3>2, <3>3
  <2>6. T = Nat
    <3> HIDE DEF T
    <3> QED  BY <2>4, <2>5, NatSetInd DEF T
  <2>7. n - 1 \in Nat /\ (n - 1) + 1 = n
      BY <1>1, <1>6
  <2>8. n - 1 \in T
      BY <2>6, <2>7
  <2> QED  BY <2>1, <2>7, <2>8
<1> QED  BY <1>1, <1>5, <1>6

\* Each call's first byte looks like a call.
LEMMA CallsLook ==
    ASSUME NEW c \in Codes
    PROVE  /\ Len(Text(c)) \in Nat
           /\ \A k \in Calls(c) : Start(c, k) \in Looks(c)
<1>1. Len(c) \in Nat /\ DOMAIN c = 1 .. Len(c)
    BY StartStep, CodesAssumption
<1>2. Text(c) \in Seq(STRING) /\ Len(Text(c)) = Start(c, Len(c) + 1) - 1
    BY TextHolds DEF Holds
<1>3. ASSUME NEW k \in 1 .. Len(c), NEW b \in 1 .. Size(c, k)
      PROVE  Text(c)[Start(c, k) + b - 1] = Bytes(c[k])[b]
    BY TextHolds DEF Holds
<1>4. ASSUME NEW k \in Calls(c) PROVE Start(c, k) \in Looks(c)
  <2>1. k \in 1 .. Len(c) /\ c[k].op = "e8" /\ Len(c) + 1 \in k + 1 .. Len(c) + 1
      BY <1>1 DEF Calls
  <2>2. Size(c, k) \in Nat \ {0}
      BY <2>1, SizeType
  <2>3. Start(c, k) \in Nat \ {0} /\ Start(c, Len(c) + 1) \in Nat \ {0}
    <3>1. k \in 1 .. Len(c) + 1 /\ Len(c) + 1 \in 1 .. Len(c) + 1
        BY <1>1, <2>1
    <3> QED  BY <3>1, StartStep
  <2>4. Start(c, k) + Size(c, k) <= Start(c, Len(c) + 1)
      BY <2>1, StartGrows
  <2>5. 1 \in 1 .. Size(c, k) /\ Start(c, k) + 1 - 1 = Start(c, k)
      BY <2>2, <2>3
  <2>6. Text(c)[Start(c, k) + 1 - 1] = Bytes(c[k])[1]
      BY <1>3, <2>1, <2>5
  <2>7. Bytes(c[k])[1] = "e8"
      BY <2>1, SizeType
  <2>8. Start(c, k) \in 1 .. Len(Text(c)) /\ Text(c)[Start(c, k)] = "e8"
      BY <1>2, <2>2, <2>3, <2>4, <2>5, <2>6, <2>7
  <2> QED  BY <2>8 DEF Looks
<1> QED  BY <1>2, <1>4

\* A call that comes later starts behind the end of the earlier one.
LEMMA CallsInOrder ==
    ASSUME NEW c \in Codes
    PROVE  /\ Calls(c) \in SUBSET Nat /\ IsFiniteSet(Calls(c))
           /\ \A k \in Calls(c) : Start(c, k) \in Nat \ {0}
           /\ \A k, m \in Calls(c) : k < m => Start(c, k) + 1 + DISP <= Start(c, m)
<1>1. Len(c) \in Nat /\ DOMAIN c = 1 .. Len(c)
    BY StartStep, CodesAssumption
<1>2. Calls(c) \subseteq 1 .. Len(c)
    BY <1>1 DEF Calls
<1>3. IsFiniteSet(Calls(c))
  <2>1. IsFiniteSet(1 .. Len(c))
      BY <1>1, FS_Interval
  <2> QED  BY <1>2, <2>1, FS_Subset
<1>4. \A k \in Calls(c) : Start(c, k) \in Nat \ {0}
    BY <1>1, <1>2, StartStep
<1>5. ASSUME NEW k \in Calls(c), NEW m \in Calls(c), k < m
      PROVE  Start(c, k) + 1 + DISP <= Start(c, m)
  <2>1. k \in 1 .. Len(c) /\ m \in k + 1 .. Len(c) + 1 /\ c[k].op = "e8"
      BY <1>1, <1>2, <1>5 DEF Calls
  <2>2. Size(c, k) = 1 + DISP
      BY <2>1, SizeType
  <2>3. Start(c, k) + Size(c, k) <= Start(c, m)
      BY <2>1, StartGrows
  <2>4. Start(c, k) \in Nat
      BY <1>4
  <2> QED  BY <2>2, <2>3, <2>4, WindowsAssumption
<1> QED  BY <1>1, <1>2, <1>3, <1>4, <1>5

-----------------------------------------------------------------------------
(* Counting calls.                                                         *)

Upto(S, k) == {m \in S : m <= k}
Rank(S, k) == Cardinality(Upto(S, k))

\* A later member has a higher rank, up to the number of members.
LEMMA RankGrows ==
    ASSUME NEW S \in SUBSET Nat, IsFiniteSet(S)
    PROVE  /\ \A k \in S : Rank(S, k) \in 1 .. Cardinality(S)
           /\ \A k, l \in S : k < l => Rank(S, k) < Rank(S, l)
<1>1. \A k \in S : Upto(S, k) \subseteq S /\ IsFiniteSet(Upto(S, k)) /\ k \in Upto(S, k)
    BY FS_Subset DEF Upto
<1>2. ASSUME NEW k \in S PROVE Rank(S, k) \in 1 .. Cardinality(S)
  <2> DEFINE U == Upto(S, k)
  <2>1. Cardinality(S) \in Nat /\ Cardinality(U) \in Nat /\ Cardinality(U) <= Cardinality(S)
      BY <1>1, FS_Subset, FS_CardinalityType
  <2>2. Cardinality(U) # 0
      BY <1>1, FS_EmptySet
  <2> QED  BY <2>1, <2>2 DEF Rank
<1>3. ASSUME NEW k \in S, NEW l \in S, k < l PROVE Rank(S, k) < Rank(S, l)
  <2> DEFINE U == Upto(S, k)
             V == Upto(S, l)
  <2>1. U \subseteq V /\ l \in V /\ l \notin U
    <3>1. \A m \in S : m \in Nat
        OBVIOUS
    <3>2. \A m \in S : m <= k => m <= l
        BY <1>3, <3>1
    <3>3. ~(l <= k) /\ l <= l
        BY <1>3, <3>1
    <3> QED  BY <3>2, <3>3, Zenon DEF Upto
  <2>2. IsFiniteSet(U) /\ IsFiniteSet(V)
      BY <1>1
  <2> HIDE DEF U, V
  <2>3. Cardinality(U) \in Nat /\ Cardinality(V) \in Nat /\ Cardinality(U) <= Cardinality(V) /\ Cardinality(U) # Cardinality(V)
      BY <2>1, <2>2, FS_Subset, FS_CardinalityType
  <2> QED  BY <2>3 DEF Rank, U, V
<1> QED  BY <1>2, <1>3

\* There is a member of every rank.
LEMMA RankExists ==
    ASSUME NEW S \in SUBSET Nat, IsFiniteSet(S), NEW n \in 1 .. Cardinality(S)
    PROVE  \E k \in S : Rank(S, k) = n
<1> DEFINE T == {j \in Nat : j + 1 <= Cardinality(S) => \E k \in S : Rank(S, k) = j + 1}
<1>1. Cardinality(S) \in Nat
    BY FS_CardinalityType
<1>2. 0 \in T
  <2> SUFFICES ASSUME 1 <= Cardinality(S) PROVE \E k \in S : Rank(S, k) = 1
      OBVIOUS
  <2>1. S # {}
      BY FS_EmptySet
  <2>2. Min(S) \in S /\ \A m \in S : Min(S) <= m
      BY <2>1, MinOfNat
  <2>3. PICK k \in S : \A m \in S : k <= m
      BY <2>2
  <2>4. Upto(S, k) = {k}
    <3>1. \A m \in S : m \in Nat
        OBVIOUS
    <3>2. \A m \in S : m <= k <=> m = k
        BY <2>3, <3>1
    <3> QED  BY <3>2 DEF Upto
  <2>5. Cardinality({k}) = 1
      BY FS_Singleton
  <2> QED  BY <2>4, <2>5 DEF Rank
<1>3. ASSUME NEW j \in T PROVE j + 1 \in T
  <2> SUFFICES ASSUME j + 1 + 1 <= Cardinality(S) PROVE \E l \in S : Rank(S, l) = j + 1 + 1
      OBVIOUS
  <2>1. PICK k \in S : Rank(S, k) = j + 1
      BY <1>1
  <2> DEFINE later == {m \in S : m > k}
  <2>2. later # {}
    <3>1. SUFFICES ASSUME later = {} PROVE FALSE
        OBVIOUS
    <3>2. \A m \in S : m \in Nat /\ ~(m > k)
        BY <3>1
    <3>3. \A m \in S : m <= k
        BY <3>2
    <3>4. Upto(S, k) = S
        BY <3>3 DEF Upto
    <3>5. j + 1 = Cardinality(S) /\ j \in Nat
        BY <2>1, <3>4 DEF Rank
    <3> QED  BY <1>1, <3>5
  <2>3. later \in SUBSET Nat
      OBVIOUS
  <2>4. PICK l \in later : \A m \in later : l <= m
      BY <2>2, <2>3, MinOfNat
  <2>5. l \in S /\ Upto(S, l) = Upto(S, k) \cup {l} /\ l \notin Upto(S, k)
    <3>1. \A m \in S : m \in Nat
        OBVIOUS
    <3>2. l \in S /\ l > k /\ \A m \in S : m > k => l <= m
        BY <2>4
    <3>3. \A m \in S : m <= l <=> m <= k \/ m = l
        BY <3>1, <3>2
    <3>4. ~(l <= k)
        BY <3>1, <3>2
    <3>5. \A m : m \in Upto(S, l) <=> m \in Upto(S, k) \cup {l}
        BY <3>2, <3>3 DEF Upto
    <3> QED  BY <3>2, <3>4, <3>5 DEF Upto
  <2>6. IsFiniteSet(Upto(S, k))
      BY FS_Subset DEF Upto
  <2>7. Cardinality(Upto(S, k) \cup {l}) = Cardinality(Upto(S, k)) + 1
      BY <2>5, <2>6, FS_AddElement
  <2> QED  BY <2>1, <2>5, <2>7 DEF Rank
<1>4. T = Nat
  <2> HIDE DEF T
  <2> QED  BY <1>2, <1>3, NatSetInd DEF T
<1>5. n - 1 \in Nat /\ (n - 1) + 1 = n /\ n <= Cardinality(S)
    BY <1>1
<1>6. n - 1 \in T
    BY <1>4, <1>5
<1> QED  BY <1>5, <1>6

\* The call of rank n is the one that the properties call the n-th.
LEMMA NthIs ==
    ASSUME NEW c \in Codes, NEW k \in Calls(c)
    PROVE  NthCall(c, Rank(Calls(c), k)) = Start(c, k)
<1> DEFINE S == Calls(c)
           n == Rank(S, k)
<1>1. ASSUME NEW l \in S, Rank(S, l) = n PROVE l = k
  <2>1. S \in SUBSET Nat /\ IsFiniteSet(S)
      BY CallsInOrder
  <2> HIDE DEF S
  <2>2. /\ Rank(S, k) \in Int
        /\ k < l => Rank(S, k) < Rank(S, l)
        /\ l < k => Rank(S, l) < Rank(S, k)
      BY <2>1, RankGrows DEF S
  <2> QED  BY <1>1, <2>1, <2>2 DEF S
<1> HIDE DEF n
<1>2. (CHOOSE l \in S : Rank(S, l) = n) = k
    BY <1>1 DEF n
<1>3. NthCall(c, n) = Start(c, CHOOSE l \in S : Rank(S, l) = n)
    BY Zenon DEF NthCall, Rank, Upto
<1> QED  BY <1>2, <1>3 DEF n

-----------------------------------------------------------------------------
(* One call of memmem.                                                     *)

\* The calls are where the code looks like one and is no stray, in order.
LEMMA CallsCounted ==
    ASSUME NEW c \in Codes
    PROVE  /\ Looks(c) \in SUBSET (Nat \ {0}) /\ Strays(c) \subseteq Looks(c)
           /\ Cardinality(Calls(c)) \in Nat
           /\ \A n \in 1 .. Cardinality(Calls(c)) : NthCall(c, n) \in Looks(c) \ Strays(c)
           /\ \A m, n \in 1 .. Cardinality(Calls(c)) :
                  m < n => NthCall(c, m) + 1 + DISP <= NthCall(c, n)
           /\ \A x \in Looks(c) \ Strays(c) :
                  \E n \in 1 .. Cardinality(Calls(c)) : x = NthCall(c, n)
<1> DEFINE S == Calls(c)
           N == Cardinality(S)
<1>1. S \in SUBSET Nat /\ IsFiniteSet(S) /\ \A k \in S : Start(c, k) \in Looks(c)
    BY CallsInOrder, CallsLook
<1>2. N \in Nat /\ \A k \in S : Rank(S, k) \in 1 .. N
    BY <1>1, FS_CardinalityType, RankGrows
<1>3. Looks(c) \in SUBSET (Nat \ {0}) /\ Strays(c) \subseteq Looks(c)
    BY CallsLook DEF Looks, Strays
<1>4. ASSUME NEW n \in 1 .. N PROVE \E k \in S : Rank(S, k) = n /\ NthCall(c, n) = Start(c, k)
  <2>1. PICK k \in S : Rank(S, k) = n
      BY <1>1, RankExists
  <2> QED  BY <2>1, NthIs
<1>5. ASSUME NEW n \in 1 .. N PROVE NthCall(c, n) \in Looks(c) \ Strays(c)
  <2>1. PICK k \in S : NthCall(c, n) = Start(c, k)
      BY <1>4
  <2> QED  BY <1>1, <2>1 DEF Strays
<1>6. ASSUME NEW m \in 1 .. N, NEW n \in 1 .. N, m < n
      PROVE  NthCall(c, m) + 1 + DISP <= NthCall(c, n)
  <2>1. PICK k \in S : Rank(S, k) = m /\ NthCall(c, m) = Start(c, k)
      BY <1>4
  <2>2. PICK l \in S : Rank(S, l) = n /\ NthCall(c, n) = Start(c, l)
      BY <1>4
  <2>3. k < l
    <3>1. k = l => m = n
        BY <2>1, <2>2
    <3>2. l < k => n < m
        BY <1>1, <2>1, <2>2, RankGrows
    <3>3. k \in Nat /\ l \in Nat
        BY <1>1
    <3> HIDE DEF N
    <3> QED  BY <1>2, <1>6, <3>1, <3>2, <3>3
  <2> QED  BY <2>1, <2>2, <2>3, CallsInOrder
<1>7. ASSUME NEW x \in Looks(c) \ Strays(c) PROVE \E n \in 1 .. N : x = NthCall(c, n)
  <2>1. PICK k \in S : x = Start(c, k)
      BY DEF Strays
  <2>2. NthCall(c, Rank(S, k)) = Start(c, k)
      BY NthIs
  <2> QED  BY <1>2, <2>1, <2>2
<1> QED  BY <1>2, <1>3, <1>5, <1>6, <1>7

\* A search from one place finds the next of some places, up to a distance.
IsHop(places, from, len, q) ==
    /\ q \in Nat
    /\ q = NULL => \A x \in places : ~(from <= x /\ x <= from + len - 1)
    /\ q # NULL => /\ q \in places /\ from <= q /\ q <= from + len - 1
                   /\ \A x \in places : from <= x => q <= x

\* The places of a byte.
Places(c, byte) == {p \in 1 .. Len(Text(c)) : Text(c)[p] = byte}

LEMMA HopAny ==
    ASSUME NEW c \in Codes, NEW from \in Nat \ {0}, NEW len \in Nat, NEW byte
    PROVE  IsHop(Places(c, byte), from, len, memmem(c, from, len, byte))
<1> DEFINE F == {p \in from .. from + len - 1 : p <= Len(Text(c)) /\ Text(c)[p] = byte}
           q == memmem(c, from, len, byte)
<1>1. q = IF F = {} THEN NULL ELSE Min(F)
    BY Zenon DEF memmem
<1>2. \A x : x \in F <=> x \in Places(c, byte) /\ from <= x /\ x <= from + len - 1
  <2>1. Len(Text(c)) \in Nat
      BY CallsLook
  <2> QED  BY <2>1 DEF Places
<1>3. F \in SUBSET Nat /\ 0 \notin F
    OBVIOUS
<1>4. Places(c, byte) \in SUBSET Nat
    BY CallsLook DEF Places
<1> HIDE DEF F, q
<1>5. CASE F = {}
  <2>1. q = NULL /\ NULL \in Nat
      BY <1>1, <1>5 DEF NULL
  <2>2. \A x \in Places(c, byte) : ~(from <= x /\ x <= from + len - 1)
      BY <1>2, <1>5
  <2> QED  BY <2>1, <2>2 DEF IsHop, q
<1>6. CASE F # {}
  <2>1. q \in F /\ \A x \in F : q <= x
      BY <1>1, <1>3, <1>6, MinOfNat
  <2>2. q \in Nat /\ q # NULL /\ q \in Places(c, byte) /\ from <= q /\ q <= from + len - 1
      BY <1>2, <1>3, <2>1 DEF NULL
  <2>3. ASSUME NEW x \in Places(c, byte), from <= x PROVE q <= x
    <3>1. CASE x <= from + len - 1
        BY <1>2, <2>1, <2>3, <3>1
    <3>2. CASE ~(x <= from + len - 1)
        BY <1>4, <2>2, <3>2
    <3> QED  BY <3>1, <3>2
  <2>4. IsHop(Places(c, byte), from, len, q)
      BY <2>2, <2>3, Zenon DEF IsHop
  <2> QED  BY <2>4 DEF q
<1> QED  BY <1>5, <1>6

LEMMA Hop ==
    ASSUME NEW c \in Codes, NEW from \in Nat \ {0}, NEW len \in Nat
    PROVE  IsHop(Looks(c), from, len, memmem(c, from, len, "e8"))
<1>1. Looks(c) = Places(c, "e8")
    BY DEF Looks, Places
<1> QED  BY <1>1, HopAny

\* The first, second and third of some places, some of which are strays: a
\* search finds the real one exactly if no stray comes before it.
LEMMA FirstHop ==
    ASSUME NEW L \in SUBSET (Nat \ {0}), NEW S \in SUBSET L, NEW W \in Nat, NEW p, NEW a \in L \ S,
           \A x \in L \ S : a <= x,
           IsHop(L, 1, W, p)
    PROVE  /\ p # NULL /\ p = a <=> a <= W /\ \A x \in S : x > a
           /\ a <= W => p # NULL /\ p <= a
<1>1. a <= W => p # NULL /\ p <= a
    BY DEF IsHop, NULL
<1>2. ASSUME p # NULL, p = a PROVE a <= W /\ \A x \in S : x > a
    BY <1>2 DEF IsHop, NULL
<1>3. ASSUME a <= W, \A x \in S : x > a PROVE p # NULL /\ p = a
  <2>1. p # NULL /\ p <= a /\ p \in L
      BY <1>1, <1>3 DEF IsHop
  <2>2. p \notin S
      BY <1>3, <2>1
  <2> QED  BY <2>1, <2>2
<1> QED  BY <1>1, <1>2, <1>3

LEMMA SecondHop ==
    ASSUME NEW L \in SUBSET (Nat \ {0}), NEW S \in SUBSET L, NEW W \in Nat, NEW p, NEW q,
           NEW a \in L \ S, NEW b \in L \ S, a < b, \A x \in L \ S : x = a \/ b <= x,
           IsHop(L, 1, W, p), IsHop(L, p + 1, W, q)
    PROVE  LET reach == a <= W /\ b <= W + a
           IN  /\ p # NULL /\ q # NULL /\ q = b <=> reach /\ \A x \in S : x > b
               /\ reach => p # NULL /\ q # NULL /\ q <= b
<1> DEFINE reach == a <= W /\ b <= W + a
<1>0. p \in Nat /\ q \in Nat /\ W \in Nat /\ L \in SUBSET Nat
    BY DEF IsHop
<1>1. ASSUME reach PROVE p # NULL /\ p <= a /\ q # NULL /\ q <= b
  <2>1. p # NULL /\ p <= a
      BY <1>1 DEF IsHop, NULL
  <2>2. CASE p = a
      BY <1>0, <1>1, <2>1, <2>2 DEF IsHop, NULL
  <2>3. CASE p < a
      BY <1>0, <1>1, <2>1, <2>3 DEF IsHop, NULL
  <2> QED  BY <1>0, <2>1, <2>2, <2>3
<1>2. ASSUME p # NULL, q # NULL, q = b PROVE reach /\ \A x \in S : x > b
  <2>1. \A x \in L : x < b => x = p
      BY <1>0, <1>2 DEF IsHop
  <2>2. p = a
      BY <2>1
  <2>3. reach
      BY <1>0, <1>2, <2>2 DEF IsHop
  <2> QED  BY <1>0, <2>1, <2>2, <2>3
<1>3. ASSUME reach, \A x \in S : x > b PROVE p # NULL /\ q # NULL /\ q = b
  <2>1. p # NULL /\ p <= a /\ p \in L /\ q # NULL /\ q <= b /\ q \in L /\ p < q
      BY <1>0, <1>1, <1>3 DEF IsHop
  <2>2. p \notin S /\ q \notin S
      BY <1>0, <1>3, <2>1
  <2> QED  BY <1>0, <2>1, <2>2
<1> QED  BY <1>1, <1>2, <1>3

\* The first three of the places that are no strays.
FirstThree(L, S, a, b, d) ==
    /\ L \in SUBSET (Nat \ {0}) /\ S \in SUBSET L
    /\ a \in L \ S /\ b \in L \ S /\ d \in L \ S /\ a < b /\ b < d
    /\ \A x \in L \ S : x = a \/ x = b \/ d <= x

LEMMA ThirdHop ==
    ASSUME NEW L, NEW S, NEW a, NEW b, NEW d, FirstThree(L, S, a, b, d),
           NEW W \in Nat, NEW p, NEW q, NEW r,
           IsHop(L, 1, W, p), IsHop(L, p + 1, W, q), IsHop(L, q + 1, W, r)
    PROVE  LET reach == a <= W /\ b <= W + a /\ d <= W + b
           IN  /\ p # NULL /\ q # NULL /\ r # NULL /\ r = d <=> reach /\ \A x \in S : x > d
               /\ reach => p # NULL /\ q # NULL /\ r # NULL /\ r <= d
<1> DEFINE reach == a <= W /\ b <= W + a /\ d <= W + b
<1> USE DEF FirstThree
<1>0. p \in Nat /\ q \in Nat /\ r \in Nat /\ W \in Nat /\ L \in SUBSET Nat
    BY DEF IsHop
<1>1. ASSUME reach PROVE p # NULL /\ p <= a /\ q # NULL /\ q <= b /\ r # NULL /\ r <= d
  <2>1. p # NULL /\ p <= a
      BY <1>1 DEF IsHop, NULL
  <2>2. q # NULL /\ q <= b
    <3>1. CASE p = a
        BY <1>0, <1>1, <2>1, <3>1 DEF IsHop, NULL
    <3>2. CASE p < a
        BY <1>0, <1>1, <2>1, <3>2 DEF IsHop, NULL
    <3> QED  BY <1>0, <2>1, <3>1, <3>2
  <2>3. r # NULL /\ r <= d
    <3>1. CASE q < a
        BY <1>0, <1>1, <2>2, <3>1 DEF IsHop, NULL
    <3>2. CASE a <= q /\ q < b
        BY <1>0, <1>1, <2>2, <3>2 DEF IsHop, NULL
    <3>3. CASE q = b
        BY <1>0, <1>1, <2>2, <3>3 DEF IsHop, NULL
    <3> QED  BY <1>0, <2>2, <3>1, <3>2, <3>3
  <2> QED  BY <2>1, <2>2, <2>3
<1>2. ASSUME p # NULL, q # NULL, r # NULL, r = d PROVE reach /\ \A x \in S : x > d
  <2>1. \A x \in L : x < d => x = p \/ x = q
      BY <1>0, <1>2 DEF IsHop
  <2>2. p < q
      BY <1>0, <1>2 DEF IsHop
  <2>3. (a = p \/ a = q) /\ (b = p \/ b = q)
      BY <1>0, <2>1
  <2>4. p = a /\ q = b
      BY <1>0, <2>2, <2>3
  <2>5. reach
      BY <1>0, <1>2, <2>4 DEF IsHop
  <2> QED  BY <1>0, <2>1, <2>4, <2>5
<1>3. ASSUME reach, \A x \in S : x > d PROVE p # NULL /\ q # NULL /\ r # NULL /\ r = d
  <2>1. p # NULL /\ p \in L /\ q # NULL /\ q \in L /\ r # NULL /\ r <= d /\ r \in L /\ p < q /\ q < r
      BY <1>0, <1>1, <1>3 DEF IsHop
  <2>2. p \notin S /\ q \notin S /\ r \notin S
      BY <1>0, <1>3, <2>1
  <2>3. (p = a \/ p = b \/ d <= p) /\ (q = a \/ q = b \/ d <= q) /\ (r = a \/ r = b \/ d <= r)
      BY <2>1, <2>2
  <2> QED  BY <1>0, <2>1, <2>3
<1> QED  BY <1>1, <1>2, <1>3

-----------------------------------------------------------------------------
(* The searches.                                                           *)

\* A behaviour searches one function of the code for one hook point.
IInv == code \in Codes /\ point \in Points /\ result \in {Unsearched, Search(point, code, kernel)}

LEMMA SearchInvariance == Spec => []IInv
<1>1. Init => IInv
    BY DEF Init, IInv
<1>2. IInv /\ [Next]_vars => IInv'
    BY DEF IInv, Next, vars
<1> QED  BY <1>1, <1>2, PTL DEF Spec

\* What the calls that are counted are to each other.
LEMMA ThreeCalls ==
    ASSUME NEW c \in Codes
    PROVE  LET N == Cardinality(Calls(c))
               real == Looks(c) \ Strays(c)
           IN  /\ N >= 1 => /\ NthCall(c, 1) \in real
                            /\ \A x \in real : NthCall(c, 1) <= x
               /\ N >= 2 => /\ NthCall(c, 2) \in real /\ NthCall(c, 1) + 1 + DISP <= NthCall(c, 2)
                            /\ \A x \in real : x = NthCall(c, 1) \/ NthCall(c, 2) <= x
               /\ N >= 3 => /\ NthCall(c, 3) \in real /\ NthCall(c, 2) < NthCall(c, 3)
                            /\ \A x \in real : x = NthCall(c, 1) \/ x = NthCall(c, 2) \/ NthCall(c, 3) <= x
<1> DEFINE N == Cardinality(Calls(c))
           real == Looks(c) \ Strays(c)
           At(n) == NthCall(c, n)
<1>1. N \in Nat /\ real \in SUBSET Nat /\ DISP \in Nat
    BY CallsCounted, WindowsAssumption
<1>2. \A n \in 1 .. N : At(n) \in real
    BY CallsCounted
<1>3. \A m, n \in 1 .. N : m < n => At(m) + 1 + DISP <= At(n)
    BY CallsCounted
<1>4. \A x \in real : \E n \in 1 .. N : x = At(n)
    BY CallsCounted
<1> HIDE DEF N, real, At
<1>5. ASSUME NEW n \in 1 .. N, NEW x \in real PROVE At(n) <= x \/ \E m \in 1 .. n - 1 : x = At(m)
  <2>1. PICK m \in 1 .. N : x = At(m)
      BY <1>4
  <2>2. At(n) \in Nat /\ At(m) \in Nat
      BY <1>1, <1>2
  <2>3. CASE n < m
    <3>1. At(n) + 1 + DISP <= At(m)
        BY <1>3, <2>3
    <3> QED  BY <1>1, <2>1, <2>2, <3>1
  <2>4. CASE m < n
      BY <1>1, <2>1, <2>4
  <2>5. CASE m = n
      BY <2>1, <2>2, <2>5
  <2> QED  BY <1>1, <2>3, <2>4, <2>5
<1>6. N >= 1 => At(1) \in real /\ \A x \in real : At(1) <= x
  <2> SUFFICES ASSUME N >= 1 PROVE At(1) \in real /\ \A x \in real : At(1) <= x
      OBVIOUS
  <2>1. 1 \in 1 .. N /\ 1 .. 1 - 1 = {}
      BY <1>1
  <2> QED  BY <1>2, <1>5, <2>1
<1>7. N >= 2 => /\ At(2) \in real /\ At(1) + 1 + DISP <= At(2)
                /\ \A x \in real : x = At(1) \/ At(2) <= x
  <2> SUFFICES ASSUME N >= 2
               PROVE  /\ At(2) \in real /\ At(1) + 1 + DISP <= At(2)
                      /\ \A x \in real : x = At(1) \/ At(2) <= x
      OBVIOUS
  <2>1. 1 \in 1 .. N /\ 2 \in 1 .. N /\ 1 < 2 /\ 1 .. 2 - 1 = {1}
      BY <1>1
  <2>2. \A x \in real : x = At(1) \/ At(2) <= x
      BY <1>5, <2>1
  <2> QED  BY <1>2, <1>3, <2>1, <2>2
<1>8. N >= 3 => /\ At(3) \in real /\ At(2) < At(3)
                /\ \A x \in real : x = At(1) \/ x = At(2) \/ At(3) <= x
  <2> SUFFICES ASSUME N >= 3
               PROVE  /\ At(3) \in real /\ At(2) < At(3)
                      /\ \A x \in real : x = At(1) \/ x = At(2) \/ At(3) <= x
      OBVIOUS
  <2>1. 2 \in 1 .. N /\ 3 \in 1 .. N /\ 2 < 3 /\ 1 .. 3 - 1 = {1, 2}
      BY <1>1
  <2>2. At(2) + 1 + DISP <= At(3) /\ At(2) \in Nat /\ At(3) \in Nat
      BY <1>1, <1>2, <1>3, <2>1
  <2>3. \A x \in real : x = At(1) \/ x = At(2) \/ At(3) <= x
      BY <1>5, <2>1
  <2>4. At(2) < At(3)
      BY <1>1, <2>2
  <2> QED  BY <1>2, <2>1, <2>3, <2>4
<1> QED  BY <1>6, <1>7, <1>8 DEF N, real, At

\* What it means for one, two and three calls to be in reach.
LEMMA Reaches ==
    ASSUME NEW c, NEW W
    PROVE  /\ InReach(c, 1, W) <=> NthCall(c, 1) <= W + 0
           /\ InReach(c, 2, W) <=> NthCall(c, 1) <= W + 0 /\ NthCall(c, 2) <= W + NthCall(c, 1)
           /\ InReach(c, 3, W) <=> /\ NthCall(c, 1) <= W + 0 /\ NthCall(c, 2) <= W + NthCall(c, 1)
                                   /\ NthCall(c, 3) <= W + NthCall(c, 2)
<1> DEFINE Near(k) == NthCall(c, k) <= W + (IF k = 1 THEN 0 ELSE NthCall(c, k - 1))
<1>1. \A n : InReach(c, n, W) <=> \A k \in 1 .. n : Near(k)
    BY DEF InReach
<1>2. 1 .. 1 = {1} /\ 1 .. 2 = {1, 2} /\ 1 .. 3 = {1, 2, 3}
    OBVIOUS
<1>3. /\ Near(1) <=> NthCall(c, 1) <= W + 0
      /\ Near(2) <=> NthCall(c, 2) <= W + NthCall(c, 1)
      /\ Near(3) <=> NthCall(c, 3) <= W + NthCall(c, 2)
  <2>1. 2 - 1 = 1 /\ 3 - 1 = 2
      OBVIOUS
  <2> QED  BY <2>1
<1> HIDE DEF Near
<1> QED  BY <1>1, <1>2, <1>3

-----------------------------------------------------------------------------
\* The searches of the timer's entry, the page fault's and ret_from_fork
\* (apic_timer.c:59, page_fault.c:67, fork.c:104) count the bytes that look
\* like a call: they take the third, second and first call itself exactly if
\* it is in reach and no such byte before it is a stray.
THEOREM CountedCalls == Spec => []CountedCallHooked
<1>1. IInv => CountedCallHooked
  <2> DEFINE n == CASE point = "timer" -> 3 [] point = "pgfault" -> 2 [] OTHER -> 1
             window == IF point = "tail" THEN NEAR ELSE MAX_OFFSET
             Good == /\ result = Hook(NthCall(code, n))
                          <=> /\ InReach(code, n, window)
                              /\ \A p \in Strays(code) : p > NthCall(code, n)
                     /\ InReach(code, n, window) => result.is = "hook" /\ result.at <= NthCall(code, n)
  <2> SUFFICES ASSUME IInv, Done, point \in {"timer", "pgfault", "tail"}, Cardinality(Calls(code)) >= n
               PROVE  Good
      BY DEF CountedCallHooked
  <2> DEFINE L == Looks(code)
             S == Strays(code)
             a == NthCall(code, 1)
             b == NthCall(code, 2)
             d == NthCall(code, 3)
  <2>1. code \in Codes /\ result = Search(point, code, kernel) /\ DISP \in Nat
      BY WindowsAssumption DEF IInv, Done
  <2>2. window \in Nat
      BY WindowsAssumption
  <2>3. L \in SUBSET (Nat \ {0}) /\ S \in SUBSET L
      BY <2>1, CallsCounted
  <2>8. \A x, y : Hook(x) = Hook(y) <=> x = y
      BY DEF Hook
  <2>9. \A x : Hook(x) # ENOSYS /\ Hook(x) # Oops /\ Hook(x).is = "hook" /\ Hook(x).at = x
      BY DEF Hook, ENOSYS, Oops
  <2>10. \A from \in Nat \ {0} : IsHop(L, from, window, memmem(code, from, window, "e8"))
      BY <2>1, <2>2, Hop
  <2>11. \A q \in Nat : q + 1 \in Nat \ {0}
      OBVIOUS
  <2>4. CASE point = "timer"
    <3> DEFINE p == memmem(code, 1, window, "e8")
               q == memmem(code, p + 1, window, "e8")
               r == memmem(code, q + 1, window, "e8")
    <3>1. n = 3 /\ window = MAX_OFFSET
        BY <2>4
    <3>2. result = IF p = NULL \/ q = NULL \/ r = NULL THEN ENOSYS ELSE Hook(r)
        BY <2>1, <2>4 DEF Search, switch_smp_apic_timer_interrupt
    <3>3. IsHop(L, 1, window, p) /\ IsHop(L, p + 1, window, q) /\ IsHop(L, q + 1, window, r)
      <4>1. IsHop(L, 1, window, p) /\ p \in Nat
          BY <2>10 DEF IsHop
      <4>2. IsHop(L, p + 1, window, q) /\ q \in Nat
          BY <2>10, <2>11, <4>1 DEF IsHop
      <4>3. IsHop(L, q + 1, window, r)
          BY <2>10, <2>11, <4>2
      <4> QED  BY <4>1, <4>2, <4>3
    <3>4. /\ a \in L \ S /\ b \in L \ S /\ d \in L \ S /\ a < b /\ b < d
          /\ \A x \in L \ S : x = a \/ x = b \/ d <= x
      <4>1. Cardinality(Calls(code)) >= 3 /\ Cardinality(Calls(code)) >= 2 /\ Cardinality(Calls(code)) >= 1
          BY <2>1, <3>1, CallsCounted
      <4>2. a \in Nat /\ b \in Nat /\ a + 1 + DISP <= b
          BY <2>1, <2>3, <4>1, ThreeCalls
      <4>3. a < b
          BY <2>1, <4>2
      <4> QED  BY <2>1, <4>1, <4>3, ThreeCalls
    <3>5. InReach(code, 3, window) <=> a <= window + 0 /\ b <= window + a /\ d <= window + b
        BY Reaches
    <3>6. window + 0 = window
        BY <2>2
    <3> HIDE DEF p, q, r, L, S, a, b, d, window
    <3>7. /\ p # NULL /\ q # NULL /\ r # NULL /\ r = d <=> InReach(code, 3, window) /\ \A x \in S : x > d
          /\ InReach(code, 3, window) => p # NULL /\ q # NULL /\ r # NULL /\ r <= d
      <4>1. LET reach == a <= window /\ b <= window + a /\ d <= window + b
            IN  /\ p # NULL /\ q # NULL /\ r # NULL /\ r = d <=> reach /\ \A x \in S : x > d
                /\ reach => p # NULL /\ q # NULL /\ r # NULL /\ r <= d
        <5>1. FirstThree(L, S, a, b, d)
            BY <2>3, <3>4 DEF FirstThree
        <5> QED  BY <2>2, <3>3, <5>1, ThirdHop
      <4> QED  BY <3>5, <3>6, <4>1
    <3>8. /\ result = Hook(d) <=> InReach(code, 3, window) /\ \A x \in S : x > d
          /\ InReach(code, 3, window) => result.is = "hook" /\ result.at <= d
        BY <2>8, <2>9, <3>2, <3>7
    <3> QED  BY <3>1, <3>8 DEF d, S
  <2>5. CASE point = "pgfault"
    <3> DEFINE p == memmem(code, 1, window, "e8")
               q == memmem(code, p + 1, window, "e8")
    <3>1. n = 2 /\ window = MAX_OFFSET
        BY <2>5
    <3>2. result = IF p = NULL \/ q = NULL THEN Oops ELSE Hook(q)
        BY <2>1, <2>5 DEF Search, switch_pgfault_handler
    <3>3. IsHop(L, 1, window, p) /\ IsHop(L, p + 1, window, q)
      <4>1. IsHop(L, 1, window, p) /\ p \in Nat
          BY <2>10 DEF IsHop
      <4>2. IsHop(L, p + 1, window, q)
          BY <2>10, <2>11, <4>1
      <4> QED  BY <4>1, <4>2
    <3>4. a \in L \ S /\ b \in L \ S /\ a < b /\ \A x \in L \ S : x = a \/ b <= x
      <4>1. Cardinality(Calls(code)) >= 2 /\ Cardinality(Calls(code)) >= 1
          BY <2>1, <3>1, CallsCounted
      <4>2. a \in Nat /\ b \in Nat /\ a + 1 + DISP <= b
          BY <2>1, <2>3, <4>1, ThreeCalls
      <4>3. a < b
          BY <2>1, <4>2
      <4> QED  BY <2>1, <4>1, <4>3, ThreeCalls
    <3>5. InReach(code, 2, window) <=> a <= window + 0 /\ b <= window + a
        BY Reaches
    <3>6. window + 0 = window
        BY <2>2
    <3> HIDE DEF p, q, L, S, a, b, window
    <3>7. /\ p # NULL /\ q # NULL /\ q = b <=> InReach(code, 2, window) /\ \A x \in S : x > b
          /\ InReach(code, 2, window) => p # NULL /\ q # NULL /\ q <= b
        BY <2>2, <2>3, <3>3, <3>4, <3>5, <3>6, SecondHop
    <3>8. /\ result = Hook(b) <=> InReach(code, 2, window) /\ \A x \in S : x > b
          /\ InReach(code, 2, window) => result.is = "hook" /\ result.at <= b
        BY <2>8, <2>9, <3>2, <3>7
    <3> QED  BY <3>1, <3>8 DEF b, S
  <2>6. CASE point = "tail"
    <3> DEFINE p == memmem(code, 1, window, "e8")
    <3>1. n = 1 /\ window = NEAR
        BY <2>6
    <3>2. result = IF p = NULL THEN ENOSYS ELSE Hook(p)
        BY <2>1, <2>6 DEF Search, switch_schedule_tail
    <3>3. IsHop(L, 1, window, p)
        BY <2>10
    <3>4. a \in L \ S /\ \A x \in L \ S : a <= x
        BY <2>1, <3>1, ThreeCalls
    <3>5. InReach(code, 1, window) <=> a <= window + 0
        BY Reaches
    <3>6. window + 0 = window
        BY <2>2
    <3> HIDE DEF p, L, S, a, window
    <3>7. /\ p # NULL /\ p = a <=> InReach(code, 1, window) /\ \A x \in S : x > a
          /\ InReach(code, 1, window) => p # NULL /\ p <= a
        BY <2>2, <2>3, <3>3, <3>4, <3>5, <3>6, FirstHop
    <3>8. /\ result = Hook(a) <=> InReach(code, 1, window) /\ \A x \in S : x > a
          /\ InReach(code, 1, window) => result.is = "hook" /\ result.at <= a
        BY <2>8, <2>9, <3>2, <3>7
    <3> QED  BY <3>1, <3>8 DEF a, S
  <2> QED  BY <2>4, <2>5, <2>6
<1> QED  BY <1>1, SearchInvariance, PTL

\* A place that looks like a call and leads to a function is a call.
LEMMA CallLeads ==
    ASSUME NEW c \in Codes, NEW p \in Looks(c), Target(c, p) # "junk"
    PROVE  p \notin Strays(c)
<1> DEFINE N == {n \in DOMAIN c : c[n].op \in {"e8", "e9"} /\ Start(c, n) = p}
<1>1. Target(c, p) = IF N = {} THEN "junk" ELSE c[CHOOSE n \in N : TRUE].to
    BY Zenon DEF Target
<1>2. PICK n \in DOMAIN c : c[n].op \in {"e8", "e9"} /\ Start(c, n) = p
    BY <1>1
<1>3. n \in 1 .. Len(c) /\ Len(c) \in Nat
    BY <1>2, CodesAssumption
<1>4. Size(c, n) \in Nat \ {0} /\ Bytes(c[n])[1] = c[n].op
    BY <1>3, SizeType
<1>5. 1 \in 1 .. Size(c, n)
    BY <1>4
<1>6. Text(c)[Start(c, n) + 1 - 1] = Bytes(c[n])[1]
    BY <1>3, <1>5, TextHolds DEF Holds
<1>7. p \in Nat /\ Text(c)[p] = "e8"
    BY DEF Looks
<1>8. p + 1 - 1 = p
    BY <1>7
<1>9. n \in Calls(c)
    BY <1>2, <1>4, <1>6, <1>7, <1>8 DEF Calls
<1> QED  BY <1>2, <1>9 DEF Strays

\* The first two of the places that are no strays, the second one behind the
\* end of the first.
FirstTwo(L, S, a, b, e) ==
    /\ L \in SUBSET (Nat \ {0}) /\ S \in SUBSET L
    /\ a \in L \ S /\ b \in L \ S /\ a + 1 + e <= b
    /\ \A x \in L \ S : x = a \/ b <= x

\* A search for the first and then for the next behind its end, if the first
\* one found is no stray.
LEMMA HopBehind ==
    ASSUME NEW L, NEW S, NEW a, NEW b, NEW e \in Nat, FirstTwo(L, S, a, b, e),
           NEW W \in Nat, NEW p, NEW q,
           IsHop(L, 1, W, p), IsHop(L, p + 1 + e, W, q)
    PROVE  /\ p # NULL /\ p \notin S => p = a
           /\ p # NULL /\ p \notin S /\ q # NULL => q \in a + e + 1 .. b
           /\ p # NULL /\ p \notin S /\ q # NULL /\ q = b
                <=> a <= W /\ b <= a + e + W /\ \A x \in S : x \in a .. a + e \/ x > b
<1> USE DEF FirstTwo
<1>0. p \in Nat /\ q \in Nat /\ W \in Nat /\ L \in SUBSET Nat /\ a \in Nat /\ b \in Nat /\ a < b
    BY DEF IsHop
<1>1. ASSUME p # NULL, p \notin S PROVE p = a
    BY <1>0, <1>1 DEF IsHop
<1>2. ASSUME p # NULL, p \notin S, q # NULL PROVE q \in a + e + 1 .. b
  <2>1. p = a
      BY <1>1, <1>2
  <2>2. q \in L /\ p + 1 + e <= q /\ q <= b
      BY <1>0, <1>2, <2>1 DEF IsHop
  <2> QED  BY <1>0, <2>1, <2>2
<1>3. ASSUME p # NULL, p \notin S, q # NULL, q = b
      PROVE  a <= W /\ b <= a + e + W /\ \A x \in S : x \in a .. a + e \/ x > b
  <2>1. p = a
      BY <1>1, <1>3
  <2>2. a <= W /\ b <= a + e + W
      BY <1>0, <1>3, <2>1 DEF IsHop
  <2>3. ASSUME NEW x \in S PROVE x \in a .. a + e \/ x > b
    <3>1. x \in L /\ x \in Nat /\ x # b
        BY <1>0
    <3>2. a <= x
        BY <1>0, <1>3, <2>1, <3>1 DEF IsHop
    <3>3. a + 1 + e <= x => b <= x
        BY <1>3, <2>1, <3>1 DEF IsHop
    <3> QED  BY <1>0, <3>1, <3>2, <3>3
  <2> QED  BY <2>2, <2>3
<1>4. ASSUME a <= W, b <= a + e + W, \A x \in S : x \in a .. a + e \/ x > b
      PROVE  p # NULL /\ p \notin S /\ q # NULL /\ q = b
  <2>1. p # NULL /\ p <= a /\ p \in L
      BY <1>0, <1>4 DEF IsHop, NULL
  <2>2. p = a
    <3>1. p \in S => p >= a
        BY <1>0, <1>4, <2>1
    <3>2. p \notin S => p = a
        BY <1>1, <2>1
    <3> QED  BY <1>0, <2>1, <3>1, <3>2
  <2>3. q # NULL /\ q <= b /\ q \in L /\ a + 1 + e <= q
    <3>1. a + 1 + e <= b /\ b <= a + 1 + e + W - 1 /\ b \in L
        BY <1>0, <1>4
    <3> QED  BY <1>0, <2>2, <3>1 DEF IsHop
  <2>4. q \notin S
      BY <1>0, <1>4, <2>3
  <2>5. q = a \/ b <= q
      BY <2>3, <2>4
  <2> QED  BY <1>0, <2>1, <2>2, <2>3, <2>5
<1> QED  BY <1>1, <1>2, <1>3, <1>4

\* switch_execve (syscalls.c) takes the call behind getname's, exactly if both
\* are in reach and no stray stands before the first or between the two, and
\* redirects nothing if another call comes first.
THEOREM CallAfterGetname == Spec => []CallAfterGetnameHooked
<1>1. IInv => CallAfterGetnameHooked
  <2> DEFINE L == Looks(code)
             S == Strays(code)
             a == NthCall(code, 1)
             b == NthCall(code, 2)
             Good == /\ result = Hook(b)
                          <=> /\ a <= NEAR /\ Target(code, a) = "getname"
                              /\ b <= a + DISP + NEAR
                              /\ \A x \in S : x \in a .. a + DISP \/ x > b
                     /\ result.is = "hook" =>
                          Target(code, a) = "getname" /\ result.at \in a + DISP + 1 .. b
  <2> SUFFICES ASSUME IInv, Done, point = "execve", Cardinality(Calls(code)) >= 2 PROVE Good
      BY DEF CallAfterGetnameHooked
  <2> DEFINE p == memmem(code, 1, NEAR, "e8")
             q == memmem(code, p + 1 + DISP, NEAR, "e8")
  <2>1. code \in Codes /\ NEAR \in Nat /\ DISP \in Nat
      BY WindowsAssumption DEF IInv
  <2>2. result = IF p # NULL /\ Target(code, p) = "getname" /\ q # NULL THEN Hook(q) ELSE ENOSYS
      BY DEF IInv, Done, Search, switch_execve
  <2>3. IsHop(L, 1, NEAR, p) /\ IsHop(L, p + 1 + DISP, NEAR, q)
    <3>1. IsHop(L, 1, NEAR, p) /\ p \in Nat
        BY <2>1, Hop DEF IsHop
    <3>2. p + 1 + DISP \in Nat \ {0}
        BY <2>1, <3>1
    <3>3. IsHop(L, p + 1 + DISP, NEAR, q)
        BY <2>1, <3>2, Hop
    <3> QED  BY <3>1, <3>3
  <2>4. FirstTwo(L, S, a, b, DISP)
    <3>1. Cardinality(Calls(code)) >= 1
        BY <2>1, CallsCounted
    <3>2. L \in SUBSET (Nat \ {0}) /\ S \in SUBSET L
        BY <2>1, CallsCounted
    <3>3. a \in L \ S /\ b \in L \ S /\ a + 1 + DISP <= b /\ \A x \in L \ S : x = a \/ b <= x
        BY <2>1, <3>1, ThreeCalls
    <3> QED  BY <3>2, <3>3 DEF FirstTwo
  <2>5. p # NULL /\ Target(code, p) = "getname" => p \notin S
    <3>1. p # NULL => p \in L
        BY <2>3 DEF IsHop
    <3> QED  BY <2>1, <3>1, CallLeads
  <2>6. (\A x, y : Hook(x) = Hook(y) <=> x = y) /\ (\A x : Hook(x) # ENOSYS /\ Hook(x).at = x)
        /\ ENOSYS.is # "hook"
      BY DEF Hook, ENOSYS
  <2> HIDE DEF L, S, a, b, p, q
  <2>7. /\ p # NULL /\ p \notin S => p = a
        /\ p # NULL /\ p \notin S /\ q # NULL => q \in a + DISP + 1 .. b
        /\ p # NULL /\ p \notin S /\ q # NULL /\ q = b
             <=> a <= NEAR /\ b <= a + DISP + NEAR /\ \A x \in S : x \in a .. a + DISP \/ x > b
      BY <2>1, <2>3, <2>4, HopBehind
  <2> DEFINE Clear == \A x \in S : x \in a .. a + DISP \/ x > b
  <2>8. /\ p # NULL /\ p \notin S /\ q # NULL /\ q = b <=> a <= NEAR /\ b <= a + DISP + NEAR /\ Clear
      BY <2>7
  <2> HIDE DEF Clear
  <2>9. result = Hook(b) <=> a <= NEAR /\ Target(code, a) = "getname" /\ b <= a + DISP + NEAR /\ Clear
      BY <2>2, <2>5, <2>6, <2>7, <2>8
  <2>10. result.is = "hook" => Target(code, a) = "getname" /\ result.at \in a + DISP + 1 .. b
      BY <2>2, <2>5, <2>6, <2>7
  <2> QED  BY <2>9, <2>10 DEF Clear
<1> QED  BY <1>1, SearchInvariance, PTL

-----------------------------------------------------------------------------
(* The loop of __switch_do_fork.                                           *)

\* One turn of the loop, which goes on as f says.
Turn(c, k, f, d) ==
    LET p == Candidate(c, d) IN
    IF d >= FORK_WINDOW THEN Nothing
    ELSE IF p = NULL THEN ENOSYS
    ELSE IF Faults(c, p, k) THEN Oops
    ELSE IF Accepts(c, p, k) THEN Hook(p)
    ELSE f[d + p]

\* A search of the first bytes finds nothing, or a place among them.
LEMMA FoundInWindow ==
    ASSUME NEW c, NEW len \in Nat, NEW byte
    PROVE  memmem(c, 1, len, byte) \in 0 .. len
<1> DEFINE Found == {p \in 1 .. 1 + len - 1 : p <= Len(Text(c)) /\ Text(c)[p] = byte}
<1>1. memmem(c, 1, len, byte) = IF Found = {} THEN NULL ELSE Min(Found)
    BY Zenon DEF memmem
<1>2. Found \in SUBSET Nat /\ \A p \in Found : p \in 0 .. len
  <2>1. 1 + len - 1 = len
      OBVIOUS
  <2> QED  BY <2>1
<1> HIDE DEF Found
<1>3. CASE Found # {}
  <2>1. Min(Found) \in Found
      BY <1>2, <1>3, MinOfNat
  <2>2. Min(Found) \in 0 .. len
      BY <1>2, <2>1
  <2> QED  BY <1>1, <1>3, <2>2
<1>4. CASE Found = {}
  <2>1. 0 \in 0 .. len
      OBVIOUS
  <2> QED  BY <1>1, <1>4, <2>1 DEF NULL
<1> QED  BY <1>3, <1>4

\* The window shrinks in every turn that goes on, so the loop ends: there is a
\* function that says where.
LEMMA LoopEnds ==
    ASSUME NEW c, NEW kn
    PROVE  \E f : f = [d \in 0 .. FORK_WINDOW |-> Turn(c, kn, f, d)]
<1> DEFINE F == FORK_WINDOW
           Up(k, f) == f = [d \in F - k .. F |-> Turn(c, kn, f, d)]
           T == {k \in Nat : \E f : Up(k, f)}
<1>1. F \in Nat
    BY WindowsAssumption
<1>2. ASSUME NEW d \in Int, d < F, d >= 0, Candidate(c, d) # NULL
      PROVE  d + Candidate(c, d) \in d + 1 .. F
  <2>1. F - d \in Nat
      BY <1>1, <1>2
  <2>2. Candidate(c, d) \in 0 .. F - d
      BY <2>1, FoundInWindow DEF Candidate
  <2> QED  BY <1>1, <1>2, <2>2 DEF NULL
<1>3. 0 \in T
  <2> DEFINE f == [d \in F - 0 .. F |-> Nothing]
  <2>1. \A d \in F - 0 .. F : Turn(c, kn, f, d) = Nothing
    <3>1. \A d \in F - 0 .. F : d >= FORK_WINDOW
        BY <1>1
    <3> QED  BY <3>1 DEF Turn
  <2>2. Up(0, f)
      BY <2>1
  <2> QED  BY <2>2
<1>4. ASSUME NEW k \in T, k + 1 <= F PROVE k + 1 \in T
  <2>1. PICK f : Up(k, f)
      OBVIOUS
  <2> DEFINE e == F - (k + 1)
             h == [d \in e .. F |-> IF d = e THEN Turn(c, kn, f, d) ELSE f[d]]
  <2>2. e \in Int /\ 0 <= e /\ e < F /\ (\A d \in e .. F : d # e => d \in F - k .. F)
        /\ \A d \in e + 1 .. F : d \in e .. F /\ d # e
      BY <1>1, <1>4
  <2>3. \A d \in e + 1 .. F : h[d] = f[d]
      BY <2>2
  <2> HIDE DEF e
  <2>4. ASSUME NEW d \in e .. F PROVE Turn(c, kn, h, d) = Turn(c, kn, f, d)
    <3>1. CASE d >= F
        BY <3>1 DEF Turn
    <3>2. CASE d < F /\ Candidate(c, d) = NULL
        BY <3>2 DEF Turn
    <3>3. CASE d < F /\ Candidate(c, d) # NULL
      <4>1. d \in Int /\ d >= 0 /\ d >= e
          BY <2>2
      <4>2. d + Candidate(c, d) \in d + 1 .. F
          BY <1>2, <3>3, <4>1
      <4>3. d + Candidate(c, d) \in e + 1 .. F
          BY <1>1, <2>2, <4>1, <4>2
      <4>4. h[d + Candidate(c, d)] = f[d + Candidate(c, d)]
          BY <2>3, <4>3
      <4> HIDE DEF h
      <4> QED  BY <4>4, Zenon DEF Turn
    <3>4. d \in Int /\ F \in Int
        BY <1>1, <2>2
    <3> QED  BY <3>1, <3>2, <3>3, <3>4
  <2>5. ASSUME NEW d \in e .. F PROVE h[d] = Turn(c, kn, h, d)
    <3>1. CASE d = e
        BY <2>4, <3>1
    <3>2. CASE d # e
      <4>1. h[d] = f[d]
          BY <3>2
      <4>2. d \in F - k .. F
          BY <2>2, <3>2
      <4>3. f[d] = Turn(c, kn, f, d)
          BY <2>1, <4>2
      <4> QED  BY <2>4, <4>1, <4>3
    <3> QED  BY <3>1, <3>2
  <2>6. h = [d \in e .. F |-> h[d]]
      OBVIOUS
  <2> HIDE DEF h
  <2>7. Up(k + 1, h)
      BY <2>5, <2>6 DEF e
  <2> QED  BY <2>7
<1> DEFINE U == {k \in Nat : k <= F => k \in T}
<1>5. U = Nat
  <2>1. 0 \in U
      BY <1>3
  <2>2. ASSUME NEW k \in U PROVE k + 1 \in U
    <3> HIDE DEF T
    <3> QED  BY <1>1, <1>4
  <2> HIDE DEF U
  <2> QED  BY <2>1, <2>2, NatSetInd DEF U
<1>6. F \in T
  <2> HIDE DEF T
  <2> QED  BY <1>1, <1>5
<1>7. F - F = 0
    BY <1>1
<1>8. PICK f : Up(F, f)
    BY <1>6
<1>9. f = [d \in 0 .. F |-> Turn(c, kn, f, d)]
    BY <1>7, <1>8
<1> QED  BY <1>9

\* A narrower window has the same first place, if it reaches it.
LEMMA Narrower ==
    ASSUME NEW c \in Codes, NEW w \in Nat, NEW u \in 0 .. w, NEW byte
    PROVE  LET p == memmem(c, 1, w, byte)
           IN  memmem(c, 1, u, byte) = IF p # NULL /\ p <= u THEN p ELSE NULL
<1> DEFINE p == memmem(c, 1, w, byte)
           q == memmem(c, 1, u, byte)
           P == Places(c, byte)
<1>1. IsHop(P, 1, w, p) /\ IsHop(P, 1, u, q)
    BY HopAny
<1>2. P \in SUBSET (Nat \ {0})
    BY CallsLook DEF Places
<1> HIDE DEF p, q, P
<1>3. p \in Nat /\ q \in Nat
    BY <1>1 DEF IsHop
<1>4. ASSUME p # NULL, p <= u PROVE q = p
  <2>1. p \in P /\ 1 <= p /\ p <= 1 + u - 1
      BY <1>1, <1>3, <1>4 DEF IsHop, NULL
  <2>2. q # NULL
      BY <1>1, <2>1 DEF IsHop, NULL
  <2>3. q \in P /\ 1 <= q /\ q <= 1 + u - 1
      BY <1>1, <2>2 DEF IsHop, NULL
  <2>4. q <= p
      BY <1>1, <2>1, <2>2 DEF IsHop, NULL
  <2>5. 1 <= q /\ q <= 1 + w - 1
      BY <1>3, <2>3
  <2>6. p <= q
      BY <1>1, <1>4, <2>3, <2>5 DEF IsHop, NULL
  <2> QED  BY <1>3, <2>4, <2>6
<1>5. ASSUME ~(p # NULL /\ p <= u) PROVE q = NULL
  <2>1. \A x \in P : ~(1 <= x /\ x <= 1 + u - 1)
      BY <1>1, <1>2, <1>3, <1>5 DEF IsHop, NULL
  <2> QED  BY <1>1, <2>1 DEF IsHop
<1>6. q = IF p # NULL /\ p <= u THEN p ELSE NULL
    BY <1>4, <1>5
<1> QED  BY <1>6 DEF p, q

\* Taking the divisor away leaves the remainder, and below it is the remainder.
LEMMA TakeAway ==
    ASSUME NEW j \in Nat \ {0}, NEW w \in Nat, j <= w
    PROVE  /\ (w - j) % j = w % j
           /\ w - j < j => w - j = w % j
<1>1. (w - j) % j = w % j
  <2> DEFINE x == w - j
  <2>1. w - x = j * 1 /\ x \in Int /\ w \in Int /\ 1 \in Int
      OBVIOUS
  <2> HIDE DEF x
  <2>2. w % j = x % j
      BY <2>1, SameRemainder
  <2> QED  BY <2>2 DEF x
<1>2. ASSUME w - j < j PROVE w - j = w % j
  <2> DEFINE x == w - j
  <2>1. x \in 0 .. j - 1 /\ x \in Int
      BY <1>2
  <2>2. x = j * (x \div j) + (x % j) /\ x % j \in 0 .. j - 1 /\ x \div j \in Int
      BY <2>1, DivMod
  <2>3. x - (x % j) = j * (x \div j)
      BY <2>1, <2>2
  <2>4. x = x % j
      BY <2>1, <2>2, <2>3, OneRemainder
  <2> QED  BY <1>1, <2>4
<1> QED  BY <1>1, <1>2

-----------------------------------------------------------------------------
(* What the loop answers, by the window that is left.                      *)

Jmp(c, w) == memmem(c, 1, w, "e9")
Left(c, w) == IF Jmp(c, w) = NULL THEN w ELSE w % Jmp(c, w)
CallIn(c, w) == memmem(c, 1, Left(c, w), "e8")
Remainder(c, w) == IF CallIn(c, w) = NULL THEN Left(c, w) ELSE Left(c, w) % CallIn(c, w)

Right(c, p, k) == p # NULL /\ (Accepts(c, p, k) \/ Faults(c, p, k))
Outcome(c, p, k) == IF Faults(c, p, k) THEN Oops ELSE Hook(p)

Answer(c, k, w) ==
    IF Right(c, Jmp(c, w), k) THEN Outcome(c, Jmp(c, w), k)
    ELSE IF Right(c, CallIn(c, w), k) THEN Outcome(c, CallIn(c, w), k)
    ELSE IF Remainder(c, w) = 0 THEN Nothing ELSE ENOSYS

\* Nothing is left of the window.
LEMMA AnswerNothing == ASSUME NEW c, NEW k PROVE Answer(c, k, 0) = Nothing
<1>1. 0 .. 0 = {0} /\ 0 \in Nat
    OBVIOUS
<1>2. Jmp(c, 0) = NULL
    BY <1>1, FoundInWindow DEF Jmp, NULL
<1>3. Left(c, 0) = 0
    BY <1>2 DEF Left
<1>4. CallIn(c, 0) = NULL
    BY <1>1, <1>3, FoundInWindow DEF CallIn, NULL
<1>5. Remainder(c, 0) = 0
    BY <1>3, <1>4 DEF Remainder
<1> QED  BY <1>2, <1>4, <1>5 DEF Answer, Right

\* A turn with a wrong candidate changes nothing in the answer.
LEMMA AnswerStays ==
    ASSUME NEW c \in Codes, NEW k, NEW w \in Nat \ {0},
           NEW p, p = IF Jmp(c, w) # NULL THEN Jmp(c, w) ELSE memmem(c, 1, w, "e8"),
           p # NULL, ~Right(c, p, k)
    PROVE  Answer(c, k, w) = Answer(c, k, w - p)
<1>1. p \in 1 .. w
  <2>1. Jmp(c, w) \in 0 .. w /\ memmem(c, 1, w, "e8") \in 0 .. w
      BY FoundInWindow DEF Jmp
  <2> QED  BY <2>1 DEF NULL
<1> DEFINE u == w - p
<1>2. u \in 0 .. w /\ u \in Nat /\ p \in Nat \ {0} /\ p <= w
    BY <1>1
<1>3. u % p = w % p /\ (u < p => u = w % p)
    BY <1>2, TakeAway
<1>4. /\ Jmp(c, u) = IF Jmp(c, w) # NULL /\ Jmp(c, w) <= u THEN Jmp(c, w) ELSE NULL
      /\ memmem(c, 1, u, "e8") =
             IF memmem(c, 1, w, "e8") # NULL /\ memmem(c, 1, w, "e8") <= u
             THEN memmem(c, 1, w, "e8") ELSE NULL
  <2>1. w \in Nat
      OBVIOUS
  <2> QED  BY <1>2, <2>1, Narrower DEF Jmp
<1> HIDE DEF u
<1>5. p <= u \/ u < p
    BY <1>2
<1>6. ~Right(c, NULL, k)
    BY DEF Right
<1>7. CASE Jmp(c, w) # NULL
  <2>1. p = Jmp(c, w)
      BY <1>7
  <2>2. Left(c, u) = Left(c, w)
    <3>1. CASE p <= u
      <4>1. Jmp(c, u) = p
          BY <1>4, <1>7, <2>1, <3>1
      <4> QED  BY <1>3, <1>7, <2>1, <4>1 DEF Left
    <3>2. CASE u < p
      <4>1. Jmp(c, u) = NULL
          BY <1>2, <1>4, <2>1, <3>2
      <4> QED  BY <1>3, <1>7, <2>1, <3>2, <4>1 DEF Left
    <3> QED  BY <1>5, <3>1, <3>2
  <2>3. CallIn(c, u) = CallIn(c, w) /\ Remainder(c, u) = Remainder(c, w)
      BY <2>2 DEF CallIn, Remainder
  <2>4. ~Right(c, Jmp(c, u), k) /\ ~Right(c, Jmp(c, w), k)
      BY <1>4, <1>6, <2>1
  <2>5. Answer(c, k, w) = Answer(c, k, u)
      BY <2>3, <2>4 DEF Answer
  <2> QED  BY <2>5 DEF u
<1>8. CASE Jmp(c, w) = NULL
  <2>1. Jmp(c, u) = NULL /\ Left(c, w) = w /\ Left(c, u) = u
      BY <1>4, <1>8 DEF Left
  <2>2. p = CallIn(c, w)
      BY <1>8, <2>1 DEF CallIn
  <2>3. CallIn(c, u) = IF p <= u THEN p ELSE NULL
      BY <1>4, <1>8, <2>1 DEF CallIn
  <2>4. Remainder(c, u) = Remainder(c, w)
    <3>1. CASE p <= u
        BY <1>3, <2>1, <2>2, <2>3, <3>1 DEF Remainder
    <3>2. CASE u < p
      <4>1. CallIn(c, u) = NULL
          BY <1>2, <2>3, <3>2
      <4> QED  BY <1>3, <2>1, <2>2, <3>2, <4>1 DEF Remainder
    <3> QED  BY <1>5, <3>1, <3>2
  <2>5. /\ ~Right(c, Jmp(c, u), k) /\ ~Right(c, Jmp(c, w), k)
        /\ ~Right(c, CallIn(c, u), k) /\ ~Right(c, CallIn(c, w), k)
      BY <1>6, <1>8, <2>1, <2>2, <2>3
  <2>6. Answer(c, k, w) = Answer(c, k, u)
      BY <2>4, <2>5 DEF Answer
  <2> QED  BY <2>6 DEF u
<1> QED  BY <1>7, <1>8

\* The loop gives this answer from every distance on.
LEMMA LoopAnswers ==
    ASSUME NEW c \in Codes, NEW k, NEW f, f = [d \in 0 .. FORK_WINDOW |-> Turn(c, k, f, d)]
    PROVE  f[0] = Answer(c, k, FORK_WINDOW)
<1> DEFINE F == FORK_WINDOW
           T == {n \in Nat : \A d \in 0 .. F : F - d <= n => f[d] = Answer(c, k, F - d)}
<1>1. F \in Nat
    BY WindowsAssumption
<1>2. \A d \in 0 .. F : f[d] = Turn(c, k, f, d)
    OBVIOUS
<1>3. ASSUME NEW n \in Nat, NEW d \in 0 .. F, F - d <= n,
             \A e \in 0 .. F : e > d => f[e] = Answer(c, k, F - e)
      PROVE  f[d] = Answer(c, k, F - d)
  <2> DEFINE w == F - d
             p == Candidate(c, d)
  <2>1. w \in Nat /\ (d >= F <=> w = 0)
      BY <1>1
  <2>2. CASE w = 0
    <3>1. f[d] = Nothing
        BY <1>2, <2>1, <2>2 DEF Turn
    <3> QED  BY <2>2, <3>1, AnswerNothing
  <2>3. CASE w # 0
    <3>1. p = IF Jmp(c, w) # NULL THEN Jmp(c, w) ELSE memmem(c, 1, w, "e8")
        BY Zenon DEF Candidate, Jmp
    <3>2. f[d] = IF p = NULL THEN ENOSYS ELSE IF Faults(c, p, k) THEN Oops
                 ELSE IF Accepts(c, p, k) THEN Hook(p) ELSE f[d + p]
      <4>1. ~(d >= FORK_WINDOW)
          BY <2>1, <2>3
      <4>2. f[d] = Turn(c, k, f, d)
          BY <1>2
      <4> QED  BY <4>1, <4>2, Zenon DEF Turn
    <3>3. Jmp(c, w) \in 0 .. w /\ memmem(c, 1, w, "e8") \in 0 .. w
        BY <2>1, FoundInWindow DEF Jmp
    <3>4. Jmp(c, w) = NULL => Left(c, w) = w /\ CallIn(c, w) = memmem(c, 1, w, "e8")
        BY DEF Left, CallIn
    <3>5. ~Right(c, NULL, k)
        BY DEF Right
    <3> HIDE DEF p, w
    <3>6. CASE p = NULL
      <4>1. Jmp(c, w) = NULL /\ CallIn(c, w) = NULL /\ Remainder(c, w) # 0
          BY <2>3, <3>1, <3>4, <3>6 DEF Remainder
      <4>2. Answer(c, k, w) = ENOSYS
          BY <3>5, <4>1 DEF Answer
      <4> QED  BY <3>2, <3>6, <4>2 DEF w
    <3>7. CASE Right(c, p, k)
      <4>1. f[d] = Outcome(c, p, k)
          BY <3>2, <3>7 DEF Right, Outcome
      <4>2. CASE Jmp(c, w) # NULL
        <5>1. Answer(c, k, w) = Outcome(c, p, k)
            BY <3>1, <3>7, <4>2 DEF Answer
        <5> QED  BY <4>1, <5>1 DEF w
      <4>3. CASE Jmp(c, w) = NULL
        <5>1. p = CallIn(c, w) /\ ~Right(c, Jmp(c, w), k)
            BY <3>1, <3>4, <3>5, <4>3
        <5>2. Answer(c, k, w) = Outcome(c, p, k)
            BY <3>7, <5>1 DEF Answer
        <5> QED  BY <4>1, <5>2 DEF w
      <4> QED  BY <4>2, <4>3
    <3>8. CASE p # NULL /\ ~Right(c, p, k)
      <4>1. f[d] = f[d + p]
          BY <3>2, <3>8 DEF Right
      <4>2. p \in 1 .. w
          BY <2>1, <3>1, <3>3, <3>8 DEF NULL
      <4>3. d + p \in 0 .. F /\ d + p > d /\ F - (d + p) = w - p
          BY <1>1, <2>1, <4>2 DEF w
      <4>4. f[d + p] = Answer(c, k, w - p)
          BY <1>3, <4>3
      <4>5. Answer(c, k, w) = Answer(c, k, w - p)
          BY <2>1, <2>3, <3>1, <3>8, AnswerStays
      <4> QED  BY <4>1, <4>4, <4>5 DEF w
    <3> QED  BY <3>6, <3>7, <3>8
  <2> QED  BY <2>2, <2>3
<1>4. 0 \in T
  <2> SUFFICES ASSUME NEW d \in 0 .. F, F - d <= 0 PROVE f[d] = Answer(c, k, F - d)
      OBVIOUS
  <2>1. \A e \in 0 .. F : ~(e > d)
      BY <1>1
  <2> QED  BY <1>3, <2>1
<1>5. ASSUME NEW n \in T PROVE n + 1 \in T
  <2> SUFFICES ASSUME NEW d \in 0 .. F, F - d <= n + 1 PROVE f[d] = Answer(c, k, F - d)
      OBVIOUS
  <2>1. \A e \in 0 .. F : e > d => F - e <= n
      BY <1>1
  <2>2. \A e \in 0 .. F : e > d => f[e] = Answer(c, k, F - e)
      BY <2>1
  <2>3. n + 1 \in Nat
      OBVIOUS
  <2> HIDE DEF T
  <2> QED  BY <1>3, <2>2, <2>3
<1>6. T = Nat
  <2> HIDE DEF T
  <2> QED  BY <1>4, <1>5, NatSetInd DEF T
<1>7. F \in T /\ 0 \in 0 .. F /\ F - 0 = F /\ F <= F
    BY <1>1, <1>6
<1> QED  BY <1>7

\* The loop of __switch_do_fork (fork.c) tries the first e9, and the first e8
\* in what that leaves of the window, and nothing else; it passes a fork point
\* over without an error exactly if their turns use up the window.
THEOREM ForkPoints == Spec => []OnlyFirstPlacesTried
<1>1. IInv => OnlyFirstPlacesTried
  <2> SUFFICES ASSUME IInv, Done, point = "do_fork"
               PROVE  result = Answer(code, kernel, FORK_WINDOW)
      BY Zenon DEF OnlyFirstPlacesTried, Answer, Right, Outcome, Jmp, Left, CallIn, Remainder
  <2> DEFINE turn == CHOOSE f : f = [d \in 0 .. FORK_WINDOW |-> Turn(code, kernel, f, d)]
  <2>1. result = switch_do_fork(code, kernel) /\ code \in Codes
      BY DEF IInv, Done, Search
  <2>2. switch_do_fork(code, kernel) = turn[0]
      BY Zenon DEF switch_do_fork, Turn
  <2>3. turn = [d \in 0 .. FORK_WINDOW |-> Turn(code, kernel, turn, d)]
      BY LoopEnds
  <2> HIDE DEF turn
  <2>4. turn[0] = Answer(code, kernel, FORK_WINDOW)
      BY <2>1, <2>3, LoopAnswers
  <2> QED  BY <2>1, <2>2, <2>4
<1> QED  BY <1>1, SearchInvariance, PTL
=============================================================================

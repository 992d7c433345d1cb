----------------------------- MODULE TextProofs ------------------------------
(***************************************************************************)
(* Texts, for any texts: what splitting, joining, numbers and the names of *)
(* the messages (filename.rs) do to them.                                  *)
(*                                                                         *)
(* The operators fold over a text.  An induction here is over sets instead *)
(* of operators: the least counterexample, which a well-founded relation   *)
(* has, is preceded by a text that is none.                                *)
(***************************************************************************)
EXTENDS MessageNames, FiniteSetTheorems, WellFoundedInduction, SequenceTheorems, TLAPS

-----------------------------------------------------------------------------
(* Induction and folds *)

\* A set with 0 and every successor has all numbers.
LEMMA NatInduct ==
  ASSUME NEW N, 0 \in N, \A n \in Nat : n \in N => n + 1 \in N
  PROVE  \A n \in Nat : n \in N
<1> DEFINE R == {ss \in Nat \X Nat : ss[1] < ss[2]}
           B == Nat \ N
<1>1. SUFFICES ASSUME B # {} PROVE FALSE   OBVIOUS
<1>2. IsWellFoundedOn(R, Nat)   BY NatLessThanWellFounded DEF OpToRel
<1>3. PICK x \in B : \A y \in B : ~ (<<y, x>> \in R)
  <2> HIDE DEF R
  <2> QED BY <1>1, <1>2, WFMin
<1>4. x # 0 /\ x - 1 \in Nat   OBVIOUS
<1>5. <<x - 1, x>> \in R   BY <1>4
<1>6. x - 1 \in N   BY <1>3, <1>4, <1>5
<1> QED BY <1>4, <1>6

\* A set of places has a last one.
LEMMA MaxOfInterval ==
  ASSUME NEW n \in Nat, NEW s \in SUBSET (1 .. n), s # {}
  PROVE  Max(s) \in s /\ \A x \in s : x <= Max(s)
<1> DEFINE P(m) == \A u \in SUBSET (1 .. m) : u # {} => \E x \in u : \A y \in u : x >= y
<1>1. P(0)
  <2>1. SUBSET (1 .. 0) = {{}}  OBVIOUS
  <2> QED BY <2>1
<1>2. ASSUME NEW m \in Nat, P(m)  PROVE P(m + 1)
  <2> SUFFICES ASSUME NEW u \in SUBSET (1 .. m + 1), u # {}
               PROVE  \E x \in u : \A y \in u : x >= y
    OBVIOUS
  <2>1. CASE m + 1 \in u  BY <2>1
  <2>2. CASE m + 1 \notin u
    <3>1. u \in SUBSET (1 .. m)  BY <2>2
    <3> QED BY <1>2, <3>1
  <2> QED BY <2>1, <2>2
<1> HIDE DEF P
<1>3. \A m \in Nat : P(m)
  <2> DEFINE N == {m \in Nat : P(m)}
  <2>1. 0 \in N /\ \A m \in Nat : m \in N => m + 1 \in N  BY <1>1, <1>2
  <2>2. \A m \in Nat : m \in N
    <3> HIDE DEF N
    <3> QED BY <2>1, NatInduct
  <2> QED BY <2>2
<1>4. P(n)  BY <1>3
<1>5. \E x \in s : \A y \in s : x >= y  BY <1>4 DEF P
<1> QED BY <1>5 DEF Max

\* The last of the first i places is i.
LEMMA MaxOfPrefix ==
  ASSUME NEW n \in Nat, NEW i \in 1 .. n
  PROVE  /\ 1 .. i \in SUBSET (1 .. n) /\ 1 .. i # {}
         /\ Max(1 .. i) = i /\ (1 .. i) \ {i} = 1 .. i - 1
<1> DEFINE s == 1 .. i
<1>1. s \in SUBSET (1 .. n) /\ s # {} /\ i \in s  OBVIOUS
<1>2. Max(s) \in s /\ i <= Max(s)
  <2> HIDE DEF s
  <2> QED BY <1>1, MaxOfInterval
<1>3. Max(s) = i  BY <1>2
<1>4. s \ {i} = 1 .. i - 1  OBVIOUS
<1> QED BY <1>1, <1>3, <1>4

\* A set with the empty sequence and every longer one has all sequences.
LEMMA SeqInduct ==
  ASSUME NEW T, NEW Q, <<>> \in Q,
         \A s \in Seq(T), e \in T : s \in Q => Append(s, e) \in Q
  PROVE  \A s \in Seq(T) : s \in Q
<1> DEFINE N == {n \in Nat : \A s \in Seq(T) : Len(s) = n => s \in Q}
<1>1. 0 \in N
  <2>1. \A s \in Seq(T) : Len(s) = 0 => s = <<>>  OBVIOUS
  <2> QED BY <2>1
<1>2. ASSUME NEW n \in Nat, n \in N  PROVE n + 1 \in N
  <2> SUFFICES ASSUME NEW s \in Seq(T), Len(s) = n + 1  PROVE s \in Q
    OBVIOUS
  <2>1. s # <<>>  OBVIOUS
  <2>2. PICK f \in Seq(T), e \in T : s = Append(f, e)
    BY <2>1, SequenceEmptyOrAppend
  <2>3. Len(f) = n  BY <2>2
  <2>4. f \in Q  BY <1>2, <2>3
  <2> QED BY <2>2, <2>4
<1>3. \A n \in Nat : n \in N
  <2> HIDE DEF N
  <2> QED BY <1>1, <1>2, NatInduct
<1> QED BY <1>3

\* Append, as an operator that the provers need not look into.
Add(seq, last) == Append(seq, last)

\* The same, with Add.
LEMMA AddInduct ==
  ASSUME NEW T, NEW Q, <<>> \in Q,
         \A s \in Seq(T), e \in T : s \in Q => Add(s, e) \in Q
  PROVE  \A s \in Seq(T) : s \in Q
BY SeqInduct DEF Add

\* What a fold does with one element, as a function.
IsStep(D, S, T) == \A p \in S, c \in T : D[<<p, c>>] \in S

\* A fold over places 1 .. n, as a function of sets of places.
IsFold(it, D, b, g, n) ==
  \A s \in SUBSET (1 .. n) :
    it[s] = IF s = {} THEN b ELSE D[<<it[s \ {Max(s)}], g[Max(s)]>>]

\* A fold of typed elements exists: no step of it is undefined.
LEMMA FoldExists ==
  ASSUME NEW S, NEW T, NEW D, IsStep(D, S, T), NEW b \in S,
         NEW n \in Nat, NEW g \in [1 .. n -> T]
  PROVE  \E it \in [SUBSET (1 .. n) -> S] : IsFold(it, D, b, g, n)
<1> USE DEF IsFold, IsStep
<1> DEFINE Solves(it, m) == IsFold(it, D, b, g, m)
           P(m) == m <= n => \E it \in [SUBSET (1 .. m) -> S] : Solves(it, m)
<1>1. P(0)
  <2>1. SUBSET (1 .. 0) = {{}}  OBVIOUS
  <2>2. Solves([s \in SUBSET (1 .. 0) |-> b], 0)  BY <2>1
  <2> QED BY <2>2
<1>2. ASSUME NEW m \in Nat, P(m)  PROVE P(m + 1)
  <2> SUFFICES ASSUME m + 1 <= n
               PROVE  \E it \in [SUBSET (1 .. m + 1) -> S] : Solves(it, m + 1)
    OBVIOUS
  <2>0. m + 1 \in 1 .. n /\ m <= n
    OBVIOUS
  <2>1. PICK it \in [SUBSET (1 .. m) -> S] : Solves(it, m)
    <3> HIDE DEF Solves
    <3> QED  BY <1>2, <2>0
  <2> DEFINE new == [s \in SUBSET (1 .. m + 1) |->
                       IF m + 1 \in s THEN D[<<it[s \ {m + 1}], g[m + 1]>>] ELSE it[s]]
  <2> HIDE DEF P
  <2>2. ASSUME NEW s \in SUBSET (1 .. m + 1)
        PROVE  /\ new[s] \in S
               /\ new[s] = IF s = {} THEN b ELSE D[<<new[s \ {Max(s)}], g[Max(s)]>>]
    <3>1. CASE m + 1 \in s
      <4>1. s # {} /\ Max(s) \in s /\ m + 1 <= Max(s)
        BY <3>1, MaxOfInterval, m + 1 \in Nat
      <4>2. Max(s) = m + 1
        <5>1. Max(s) \in 1 .. m + 1  BY <4>1
        <5> QED BY <4>1, <5>1
      <4>3. s \ {m + 1} \in SUBSET (1 .. m) /\ m + 1 \notin s \ {m + 1}
        OBVIOUS
      <4>4. s \ {m + 1} \in SUBSET (1 .. m + 1)
        OBVIOUS
      <4>5. new[s \ {m + 1}] = it[s \ {m + 1}]
        BY <4>3, <4>4
      <4>6. g[m + 1] \in T /\ it[s \ {m + 1}] \in S
        BY <2>0, <4>3
      <4>7. new[s] = D[<<it[s \ {m + 1}], g[m + 1]>>]
        BY <3>1
      <4> HIDE DEF new
      <4> QED BY <4>1, <4>2, <4>5, <4>6, <4>7
    <3>2. CASE m + 1 \notin s
      <4>1. s \in SUBSET (1 .. m)
        BY <3>2
      <4>2. new[s] = it[s] /\ it[s] \in S
        BY <3>2, <4>1
      <4>3. s \ {Max(s)} \in SUBSET (1 .. m)
        BY <4>1
      <4>4. s \ {Max(s)} \in SUBSET (1 .. m + 1) /\ m + 1 \notin s \ {Max(s)}
        BY <3>2, <4>1
      <4>5. new[s \ {Max(s)}] = it[s \ {Max(s)}]
        BY <4>4
      <4> HIDE DEF new
      <4> QED BY <2>1, <4>1, <4>2, <4>5
    <3> QED BY <3>1, <3>2
  <2>3. new \in [SUBSET (1 .. m + 1) -> S] /\ Solves(new, m + 1)
    BY <2>2
  <2> HIDE DEF new, Solves
  <2> QED BY <2>3
<1> HIDE DEF P
<1>3. \A m \in Nat : P(m)
  <2> DEFINE N == {m \in Nat : P(m)}
  <2>1. 0 \in N /\ \A m \in Nat : m \in N => m + 1 \in N  BY <1>1, <1>2
  <2>2. \A m \in Nat : m \in N
    <3> HIDE DEF N
    <3> QED BY <2>1, NatInduct
  <2> QED BY <2>2
<1>4. P(n)
  <2> HIDE DEF P
  <2> QED BY <1>3
<1>5. n <= n  OBVIOUS
<1> QED BY <1>4, <1>5, Zenon DEF P

\* The values that a fold goes through, from b on, element by element.
IsRun(run, S, D, b, text) ==
  /\ run \in [0 .. Len(text) -> S]
  /\ run[0] = b
  /\ \A i \in 1 .. Len(text) : run[i] = D[<<run[i - 1], text[i]>>]

\* The same values, by the places that the fold has seen.
IsIteration(iter, S, D, b, text) ==
  /\ iter[{}] = b
  /\ \A i \in 1 .. Len(text) : iter[1 .. i - 1] \in S =>
       iter[1 .. i] = D[<<iter[1 .. i - 1], text[i]>>]

\* A fold by its places goes through them in their order.
LEMMA RunOfFold ==
  ASSUME NEW S, NEW T, NEW D, IsStep(D, S, T), NEW b \in S, NEW text \in Seq(T),
         NEW iter, IsIteration(iter, S, D, b, text)
  PROVE  \E run : IsRun(run, S, D, b, text) /\ run[Len(text)] = iter[DOMAIN text]
<1> DEFINE n == Len(text)
           run == [i \in 0 .. n |-> iter[1 .. i]]
           P(i) == i <= n => iter[1 .. i] \in S
<1>1. n \in Nat /\ DOMAIN text = 1 .. n /\ 1 .. 0 = {}
  OBVIOUS
<1>2. P(0)
  BY <1>1 DEF IsIteration
<1>3. ASSUME NEW i \in Nat, P(i)  PROVE P(i + 1)
  <2> SUFFICES ASSUME i + 1 <= n  PROVE iter[1 .. i + 1] \in S
    OBVIOUS
  <2>1. i + 1 \in 1 .. n /\ (i + 1) - 1 = i
    BY <1>1
  <2>2. text[i + 1] \in T /\ iter[1 .. i] \in S
    BY <1>1, <1>3, <2>1
  <2>3. iter[1 .. i + 1] = D[<<iter[1 .. i], text[i + 1]>>]
    BY <2>1, <2>2 DEF IsIteration
  <2>4. D[<<iter[1 .. i], text[i + 1]>>] \in S
    BY <2>2 DEF IsStep
  <2> QED BY <2>3, <2>4
<1>4. \A i \in Nat : P(i)
  <2> DEFINE N == {i \in Nat : P(i)}
  <2> HIDE DEF P
  <2>1. 0 \in N /\ \A i \in Nat : i \in N => i + 1 \in N  BY <1>2, <1>3
  <2>2. \A i \in Nat : i \in N
    <3> HIDE DEF N
    <3> QED BY <2>1, NatInduct
  <2> QED BY <2>2
<1>5. \A i \in 0 .. n : run[i] = iter[1 .. i] /\ run[i] \in S
  BY <1>1, <1>4
<1>6. \A i \in 1 .. n : i - 1 \in 0 .. n /\ i \in 0 .. n
  BY <1>1
<1>7. \A i \in 1 .. n : run[i] = D[<<run[i - 1], text[i]>>]
  <2> HIDE DEF run
  <2> QED BY <1>5, <1>6 DEF IsIteration
<1>8. run[0] = b /\ run[n] = iter[DOMAIN text] /\ run \in [0 .. n -> S]
  BY <1>1, <1>5 DEF IsIteration
<1> HIDE DEF run
<1> QED BY <1>7, <1>8 DEF IsRun

\* A longer text continues the run of a shorter one.
LEMMA RunsAgree ==
  ASSUME NEW S, NEW T, NEW D, NEW b,
         NEW text \in Seq(T), NEW c \in T, NEW short, NEW long,
         IsRun(short, S, D, b, text), IsRun(long, S, D, b, Append(text, c))
  PROVE  long[Len(text) + 1] = D[<<short[Len(text)], c>>]
<1> DEFINE n == Len(text)
           P(i) == i <= n => long[i] = short[i]
<1>1. /\ n \in Nat /\ Len(Append(text, c)) = n + 1 /\ Append(text, c)[n + 1] = c
      /\ \A i \in 1 .. n : Append(text, c)[i] = text[i]
  OBVIOUS
<1>2. P(0)
  BY DEF IsRun
<1>3. ASSUME NEW i \in Nat, P(i)  PROVE P(i + 1)
  <2> SUFFICES ASSUME i + 1 <= n  PROVE long[i + 1] = short[i + 1]
    OBVIOUS
  <2>1. i + 1 \in 1 .. n /\ i + 1 \in 1 .. n + 1 /\ (i + 1) - 1 = i /\ i <= n
    BY <1>1
  <2>2. /\ short[i + 1] = D[<<short[i], text[i + 1]>>]
        /\ long[i + 1] = D[<<long[i], Append(text, c)[i + 1]>>]
    BY <1>1, <2>1 DEF IsRun
  <2> QED BY <1>1, <1>3, <2>1, <2>2
<1>4. \A i \in Nat : P(i)
  <2> DEFINE N == {i \in Nat : P(i)}
  <2> HIDE DEF P
  <2>1. 0 \in N /\ \A i \in Nat : i \in N => i + 1 \in N  BY <1>2, <1>3
  <2>2. \A i \in Nat : i \in N
    <3> HIDE DEF N
    <3> QED BY <2>1, NatInduct
  <2> QED BY <2>2
<1>5. long[n] = short[n]
  BY <1>1, <1>4
<1>6. n + 1 \in 1 .. n + 1 /\ (n + 1) - 1 = n
  BY <1>1
<1>7. long[n + 1] = D[<<long[n], c>>]
  BY <1>1, <1>6 DEF IsRun
<1> QED BY <1>5, <1>7

-----------------------------------------------------------------------------
(* Split *)

\* What Split does with one character: begin a piece, or add to the last.
SplitStep(T, separator) ==
  [pc \in Seq(Seq(T)) \X T |->
     IF pc[2] = separator THEN Append(pc[1], <<>>)
     ELSE [pc[1] EXCEPT ![Len(pc[1])] = Append(@, pc[2])]]

\* A list of pieces stays one.
LEMMA SplitStepType ==
  ASSUME NEW T, NEW separator
  PROVE  IsStep(SplitStep(T, separator), Seq(Seq(T)), T)
<1>1. ASSUME NEW p \in Seq(Seq(T)), NEW c \in T
      PROVE  /\ Append(p, <<>>) \in Seq(Seq(T))
             /\ [p EXCEPT ![Len(p)] = Append(@, c)] \in Seq(Seq(T))
  <2>1. <<>> \in Seq(T)  OBVIOUS
  <2>2. CASE p = <<>>
    <3>1. Append(p, <<>>) \in Seq(Seq(T))  BY <2>1
    <3>2. DOMAIN p = {}  BY <2>2
    <3>3. [p EXCEPT ![Len(p)] = Append(@, c)] = p  BY <2>2, <3>2
    <3> QED BY <3>1, <3>3
  <2>3. CASE p # <<>>
    <3>1. Len(p) \in 1 .. Len(p) /\ p[Len(p)] \in Seq(T)  BY <2>3
    <3>2. Append(p[Len(p)], c) \in Seq(T)  BY <3>1
    <3> QED BY <2>1, <3>1, <3>2, ExceptSeq
  <2> QED BY <2>2, <2>3
<1> QED BY <1>1 DEF SplitStep, IsStep

\* Split goes through a text from left to right, as str::split does.
LEMMA SplitRun ==
  ASSUME NEW T, NEW text \in Seq(T), NEW separator
  PROVE  \E run : /\ IsRun(run, Seq(Seq(T)), SplitStep(T, separator), <<<<>>>>, text)
                  /\ Split(text, separator) = run[Len(text)]
<1> DEFINE n == Len(text)
           S == Seq(Seq(T))
           b == <<<<>>>>
           Step(p, c) == IF c = separator THEN Append(p, <<>>)
                         ELSE [p EXCEPT ![Len(p)] = Append(@, c)]
           D == SplitStep(T, separator)
           Solves(f) == f = [s \in SUBSET DOMAIN text |->
                               IF s = {} THEN b ELSE Step(f[s \ {Max(s)}], text[Max(s)])]
           iter == CHOOSE f : Solves(f)
<1>1. DOMAIN text = 1 .. n /\ n \in Nat /\ text \in [1 .. n -> T]
  OBVIOUS
<1>2. b \in S /\ IsStep(D, S, T)
  <2>1. b \in S  OBVIOUS
  <2> QED BY <2>1, SplitStepType
<1>3. \A p \in S, c \in T : D[<<p, c>>] = Step(p, c)
  BY DEF SplitStep
<1>4. Split(text, separator) = iter[DOMAIN text]
  BY DEF Split, FoldLeft, MapThenFoldSet
<1> HIDE DEF n, b, S, Step, D, Solves, iter
<1>5. \E f : Solves(f)
  <2>1. PICK it \in [SUBSET (1 .. n) -> S] : IsFold(it, D, b, text, n)
    BY <1>1, <1>2, FoldExists
  <2>2. ASSUME NEW s \in SUBSET (1 .. n), s # {}
        PROVE  it[s] = Step(it[s \ {Max(s)}], text[Max(s)])
    <3>1. Max(s) \in 1 .. n /\ s \ {Max(s)} \in SUBSET (1 .. n)
      BY <1>1, <2>2, MaxOfInterval
    <3>2. it[s \ {Max(s)}] \in S /\ text[Max(s)] \in T
      BY <1>1, <3>1
    <3> QED BY <1>3, <2>1, <2>2, <3>2 DEF IsFold
  <2>3. Solves(it)
    BY <1>1, <2>1, <2>2 DEF Solves, IsFold
  <2> QED BY <2>3
<1>6. Solves(iter)
  BY <1>5 DEF iter
<1>7. iter[{}] = b
  <2>1. {} \in SUBSET DOMAIN text  OBVIOUS
  <2> QED BY <1>6, <2>1 DEF Solves
<1>8. ASSUME NEW i \in 1 .. n, iter[1 .. i - 1] \in S
      PROVE  iter[1 .. i] = D[<<iter[1 .. i - 1], text[i]>>]
  <2>1. /\ 1 .. i \in SUBSET DOMAIN text /\ 1 .. i # {}
        /\ Max(1 .. i) = i /\ (1 .. i) \ {i} = 1 .. i - 1
    BY <1>1, MaxOfPrefix
  <2>2. iter[1 .. i] = Step(iter[(1 .. i) \ {Max(1 .. i)}], text[Max(1 .. i)])
    BY <1>6, <2>1 DEF Solves
  <2> QED BY <1>1, <1>3, <1>8, <2>1, <2>2
<1>9. \E run : IsRun(run, S, D, b, text) /\ run[Len(text)] = iter[DOMAIN text]
  <2>1. IsIteration(iter, S, D, b, text)
    BY <1>7, <1>8 DEF n, IsIteration
  <2> QED BY <1>2, <2>1, RunOfFold
<1> QED BY <1>4, <1>9 DEF S, D, b

\* Split, one character at a time.
LEMMA SplitAppend ==
  ASSUME NEW T, NEW text \in Seq(T), NEW c \in T, NEW separator
  PROVE  /\ Split(<<>>, separator) = <<<<>>>>
         /\ Split(text, separator) \in Seq(Seq(T))
         /\ Split(Add(text, c), separator) =
              SplitStep(T, separator)[<<Split(text, separator), c>>]
<1> DEFINE S == Seq(Seq(T))
           D == SplitStep(T, separator)
           b == <<<<>>>>
<1>1. IsStep(D, S, T) /\ b \in S
  <2>1. b \in S  OBVIOUS
  <2> QED BY <2>1, SplitStepType
<1>2. Append(text, c) \in Seq(T) /\ <<>> \in Seq(T)
      /\ Len(Append(text, c)) = Len(text) + 1 /\ Len(<<>>) = 0 /\ Len(text) \in Nat
  OBVIOUS
<1>3. PICK short : IsRun(short, S, D, b, text) /\ Split(text, separator) = short[Len(text)]
  BY SplitRun
<1>4. PICK long : /\ IsRun(long, S, D, b, Append(text, c))
                  /\ Split(Append(text, c), separator) = long[Len(text) + 1]
  BY <1>2, SplitRun
<1>5. PICK none : IsRun(none, S, D, b, <<>>) /\ Split(<<>>, separator) = none[0]
  BY <1>2, SplitRun
<1>6. short[Len(text)] \in S
  <2> HIDE DEF S, D, b
  <2> QED BY <1>2, <1>3 DEF IsRun
<1>7. long[Len(text) + 1] = D[<<short[Len(text)], c>>]
  <2> HIDE DEF S, D, b
  <2> QED BY <1>3, <1>4, RunsAgree
<1>8. none[0] = b
  BY <1>5 DEF IsRun
<1> HIDE DEF D
<1>9. Split(Append(text, c), separator) = D[<<Split(text, separator), c>>]
  BY <1>3, <1>4, <1>7
<1> QED BY <1>3, <1>5, <1>6, <1>8, <1>9 DEF D, Add

-----------------------------------------------------------------------------
(* FlattenSeq *)

\* The values that FlattenSeq goes through.
IsFlattening(f, seqs, n) ==
  /\ f[1] = seqs[1]
  /\ \A i \in 2 .. n : f[i] = f[i - 1] \o seqs[i]

\* They exist.
LEMMA FlatteningExists ==
  ASSUME NEW T, NEW seqs \in Seq(Seq(T)), NEW n \in 1 .. Len(seqs)
  PROVE  \E f \in [1 .. n -> Seq(T)] : IsFlattening(f, seqs, n)
<1> DEFINE P(m) == m \in 1 .. Len(seqs) =>
                     \E f \in [1 .. m -> Seq(T)] : IsFlattening(f, seqs, m)
<1>1. P(0)  OBVIOUS
<1>2. ASSUME NEW m \in Nat, P(m)  PROVE P(m + 1)
  <2> SUFFICES ASSUME m + 1 \in 1 .. Len(seqs)
               PROVE  \E f \in [1 .. m + 1 -> Seq(T)] : IsFlattening(f, seqs, m + 1)
    OBVIOUS
  <2>1. CASE m = 0
    <3>1. seqs[1] \in Seq(T)  BY <2>1
    <3>2. IsFlattening([i \in 1 .. 1 |-> seqs[i]], seqs, 1)  BY DEF IsFlattening
    <3> QED BY <2>1, <3>1, <3>2
  <2>2. CASE m # 0
    <3>1. PICK f \in [1 .. m -> Seq(T)] : IsFlattening(f, seqs, m)
      BY <1>2, <2>2
    <3> DEFINE g == [i \in 1 .. m + 1 |-> IF i = m + 1 THEN f[m] \o seqs[i] ELSE f[i]]
    <3>2. f[m] \in Seq(T) /\ seqs[m + 1] \in Seq(T)  BY <2>2
    <3>3. g \in [1 .. m + 1 -> Seq(T)]  BY <3>2
    <3>4. IsFlattening(g, seqs, m + 1)
      <4>1. /\ m + 1 \in 1 .. m + 1 /\ g[m + 1] = f[m] \o seqs[m + 1]
            /\ \A i \in 1 .. m : g[i] = f[i]
        <5>1. m + 1 \in 1 .. m + 1 /\ \A i \in 1 .. m : i \in 1 .. m + 1 /\ i # m + 1
          OBVIOUS
        <5>2. g[m + 1] = f[m] \o seqs[m + 1]  BY <5>1
        <5> QED BY <5>1, <5>2
      <4>2. g[1] = seqs[1]  BY <2>2, <3>1, <4>1 DEF IsFlattening
      <4>3. ASSUME NEW i \in 2 .. m + 1  PROVE g[i] = g[i - 1] \o seqs[i]
        <5>1. CASE i = m + 1
          <6>1. i - 1 = m /\ m \in 1 .. m  BY <2>2, <5>1
          <6> HIDE DEF g
          <6> QED BY <4>1, <5>1, <6>1
        <5>2. CASE i # m + 1
          <6>1. i \in 2 .. m /\ i \in 1 .. m /\ i - 1 \in 1 .. m  BY <5>2
          <6> HIDE DEF g
          <6> QED BY <3>1, <4>1, <6>1 DEF IsFlattening
        <5> QED BY <5>1, <5>2
      <4> HIDE DEF g
      <4> QED BY <4>2, <4>3 DEF IsFlattening
    <3> HIDE DEF g
    <3> QED BY <3>3, <3>4
  <2> QED BY <2>1, <2>2
<1>3. \A m \in Nat : P(m)
  <2> DEFINE N == {m \in Nat : P(m)}
  <2> HIDE DEF P
  <2>1. 0 \in N /\ \A m \in Nat : m \in N => m + 1 \in N  BY <1>1, <1>2
  <2>2. \A m \in Nat : m \in N
    <3> HIDE DEF N
    <3> QED BY <2>1, NatInduct
  <2> QED BY <2>2
<1>4. n \in Nat  OBVIOUS
<1> QED BY <1>3, <1>4

\* FlattenSeq is the last of them.
LEMMA FlattenRun ==
  ASSUME NEW T, NEW seqs \in Seq(Seq(T)), seqs # <<>>
  PROVE  \E f \in [1 .. Len(seqs) -> Seq(T)] :
           IsFlattening(f, seqs, Len(seqs)) /\ FlattenSeq(seqs) = f[Len(seqs)]
<1> DEFINE n == Len(seqs)
           Solves(f) == f = [i \in 1 .. n |-> IF i = 1 THEN seqs[i] ELSE f[i - 1] \o seqs[i]]
           flatten == CHOOSE f : Solves(f)
<1>1. n \in Nat /\ n # 0 /\ n \in 1 .. n
  OBVIOUS
<1>2. FlattenSeq(seqs) = flatten[n]
  BY <1>1 DEF FlattenSeq
<1>3. PICK f \in [1 .. n -> Seq(T)] : IsFlattening(f, seqs, n)
  BY <1>1, FlatteningExists
<1>4. Solves(f)
  <2>1. ASSUME NEW i \in 1 .. n
        PROVE  f[i] = IF i = 1 THEN seqs[i] ELSE f[i - 1] \o seqs[i]
    <3>1. i # 1 => i \in 2 .. n  BY <1>1
    <3> QED BY <1>3, <3>1 DEF IsFlattening
  <2>2. f = [i \in 1 .. n |-> f[i]]  OBVIOUS
  <2> HIDE DEF n
  <2> QED BY <2>1, <2>2
<1>5. Solves(flatten)
  <2> HIDE DEF Solves
  <2> QED BY <1>4
<1> HIDE DEF flatten
<1>6. IsFlattening(flatten, seqs, n) /\ flatten \in [1 .. n -> Seq(T)]
  <2>0. \A i \in 1 .. n :
          flatten[i] = IF i = 1 THEN seqs[i] ELSE flatten[i - 1] \o seqs[i]
    <3> HIDE DEF n
    <3> QED BY <1>5
  <2>1. flatten[1] = seqs[1] /\ \A i \in 2 .. n : flatten[i] = flatten[i - 1] \o seqs[i]
    <3>1. 1 \in 1 .. n /\ \A i \in 2 .. n : i \in 1 .. n /\ i # 1  BY <1>1
    <3> HIDE DEF n
    <3> QED BY <2>0, <3>1
  <2> DEFINE P(i) == i \in 1 .. n => flatten[i] \in Seq(T)
  <2>2. P(0)  OBVIOUS
  <2>3. ASSUME NEW i \in Nat, P(i)  PROVE P(i + 1)
    <3>1. i + 1 \in 1 .. n => seqs[i + 1] \in Seq(T)  OBVIOUS
    <3>2. CASE i = 0  BY <2>1, <3>1, <3>2
    <3>3. CASE i # 0
      <4>1. i + 1 \in 1 .. n => i + 1 \in 2 .. n /\ i \in 1 .. n /\ (i + 1) - 1 = i
        BY <3>3
      <4> SUFFICES ASSUME i + 1 \in 1 .. n  PROVE flatten[i + 1] \in Seq(T)
        OBVIOUS
      <4>2. flatten[i + 1] = flatten[i] \o seqs[i + 1]  BY <2>1, <4>1
      <4>3. flatten[i] \in Seq(T) /\ seqs[i + 1] \in Seq(T)  BY <2>3, <3>1, <4>1
      <4> QED BY <4>2, <4>3
    <3> QED BY <3>2, <3>3
  <2>4. \A i \in Nat : P(i)
    <3> DEFINE N == {i \in Nat : P(i)}
    <3> HIDE DEF P
    <3>1. 0 \in N /\ \A i \in Nat : i \in N => i + 1 \in N  BY <2>2, <2>3
    <3>2. \A i \in Nat : i \in N
      <4> HIDE DEF N
      <4> QED BY <3>1, NatInduct
    <3> QED BY <3>2
  <2>5. flatten = [i \in 1 .. n |-> flatten[i]]
    <3> HIDE DEF n
    <3> QED BY <1>5, Zenon
  <2>6. \A i \in 1 .. n : flatten[i] \in Seq(T)  BY <2>4
  <2> QED BY <2>1, <2>5, <2>6 DEF IsFlattening
<1> QED BY <1>2, <1>6

\* FlattenSeq, one sequence at a time.
LEMMA FlattenAppend ==
  ASSUME NEW T, NEW seqs \in Seq(Seq(T)), NEW last \in Seq(T)
  PROVE  /\ FlattenSeq(<<>>) = <<>>
         /\ FlattenSeq(seqs) \in Seq(T)
         /\ FlattenSeq(Append(seqs, last)) = FlattenSeq(seqs) \o last
<1> DEFINE n == Len(seqs)
           longer == Append(seqs, last)
<1>1. FlattenSeq(<<>>) = <<>>
  BY DEF FlattenSeq
<1>2. /\ longer \in Seq(Seq(T)) /\ longer # <<>> /\ Len(longer) = n + 1 /\ n \in Nat
      /\ longer[n + 1] = last /\ \A i \in 1 .. n : longer[i] = seqs[i]
  <2>1. longer \in Seq(Seq(T)) /\ Len(longer) = n + 1 /\ n \in Nat  OBVIOUS
  <2>2. longer[n + 1] = last /\ \A i \in 1 .. n : longer[i] = seqs[i]  OBVIOUS
  <2>3. longer # <<>>  BY <2>1
  <2> QED BY <2>1, <2>2, <2>3
<1>3. PICK long \in [1 .. n + 1 -> Seq(T)] :
        IsFlattening(long, longer, n + 1) /\ FlattenSeq(longer) = long[n + 1]
  <2> HIDE DEF longer
  <2> QED BY <1>2, FlattenRun
<1> HIDE DEF longer
<1>4. CASE seqs = <<>>
  <2>1. n = 0 /\ FlattenSeq(seqs) = <<>>  BY <1>1, <1>4
  <2>2. FlattenSeq(longer) = last  BY <1>2, <1>3, <2>1 DEF IsFlattening
  <2> QED BY <1>1, <2>1, <2>2 DEF longer
<1>5. CASE seqs # <<>>
  <2>1. PICK short \in [1 .. n -> Seq(T)] :
          IsFlattening(short, seqs, n) /\ FlattenSeq(seqs) = short[n]
    BY <1>5, FlattenRun
  <2>2. n # 0  BY <1>5
  <2> DEFINE P(i) == i \in 1 .. n => long[i] = short[i]
  <2>3. P(0)  OBVIOUS
  <2>4. ASSUME NEW i \in Nat, P(i)  PROVE P(i + 1)
    <3>1. CASE i = 0  BY <1>2, <1>3, <2>1, <3>1 DEF IsFlattening
    <3>2. CASE i # 0
      <4> SUFFICES ASSUME i + 1 \in 1 .. n  PROVE long[i + 1] = short[i + 1]
        OBVIOUS
      <4>1. i + 1 \in 2 .. n /\ i + 1 \in 2 .. n + 1 /\ i \in 1 .. n /\ (i + 1) - 1 = i
        BY <3>2
      <4>2. long[i + 1] = long[i] \o longer[i + 1] /\ short[i + 1] = short[i] \o seqs[i + 1]
        BY <1>3, <2>1, <4>1 DEF IsFlattening
      <4> QED BY <1>2, <2>4, <4>1, <4>2
    <3> QED BY <3>1, <3>2
  <2>5. \A i \in Nat : P(i)
    <3> DEFINE N == {i \in Nat : P(i)}
    <3> HIDE DEF P
    <3>1. 0 \in N /\ \A i \in Nat : i \in N => i + 1 \in N  BY <2>3, <2>4
    <3>2. \A i \in Nat : i \in N
      <4> HIDE DEF N
      <4> QED BY <3>1, NatInduct
    <3> QED BY <3>2
  <2>6. long[n] = short[n]  BY <1>2, <2>2, <2>5
  <2>7. n + 1 \in 2 .. n + 1 /\ (n + 1) - 1 = n  BY <1>2, <2>2
  <2>8. long[n + 1] = long[n] \o last  BY <1>2, <1>3, <2>7 DEF IsFlattening
  <2>9. short[n] \in Seq(T)
    <3>1. n \in 1 .. n  BY <1>2, <2>2
    <3> HIDE DEF n
    <3> QED BY <3>1
  <2> QED BY <1>1, <1>3, <2>1, <2>6, <2>8, <2>9 DEF longer
<1> QED BY <1>4, <1>5

-----------------------------------------------------------------------------
(* Numbers *)

\* A digit and its value determine each other.
LEMMA DigitsHaveValues ==
  /\ \A c \in Digits : DigitValue[c] \in 0 .. 9
  /\ \A d \in 0 .. 9 : DigitChars[d + 1] \in Digits /\ DigitValue[DigitChars[d + 1]] = d
<1>1. \A d \in 0 .. 9 : d = 0 \/ d = 1 \/ d = 2 \/ d = 3 \/ d = 4 \/ d = 5 \/ d = 6 \/ d = 7 \/ d = 8 \/ d = 9
  OBVIOUS
<1>2. \A d \in 0 .. 9 : DigitChars[d + 1] \in Digits
  BY <1>1 DEF DigitChars, Digits
<1>3. \A d, e \in 0 .. 9 : DigitChars[d + 1] = DigitChars[e + 1] => d = e
  BY <1>1 DEF DigitChars
<1>4. \A c \in Digits : \E d \in 0 .. 9 : DigitChars[d + 1] = c
  <2> SUFFICES ASSUME NEW c \in Digits  PROVE \E d \in 0 .. 9 : DigitChars[d + 1] = c
    OBVIOUS
  <2>1. /\ DigitChars[0 + 1] = "0" /\ DigitChars[1 + 1] = "1" /\ DigitChars[2 + 1] = "2"
        /\ DigitChars[3 + 1] = "3" /\ DigitChars[4 + 1] = "4" /\ DigitChars[5 + 1] = "5"
        /\ DigitChars[6 + 1] = "6" /\ DigitChars[7 + 1] = "7" /\ DigitChars[8 + 1] = "8"
        /\ DigitChars[9 + 1] = "9"
    BY DEF DigitChars
  <2>2. /\ 0 \in 0 .. 9 /\ 1 \in 0 .. 9 /\ 2 \in 0 .. 9 /\ 3 \in 0 .. 9 /\ 4 \in 0 .. 9
        /\ 5 \in 0 .. 9 /\ 6 \in 0 .. 9 /\ 7 \in 0 .. 9 /\ 8 \in 0 .. 9 /\ 9 \in 0 .. 9
    OBVIOUS
  <2> QED BY <2>1, <2>2, Zenon DEF Digits
<1>5. \A c \in Digits : DigitValue[c] = CHOOSE d \in 0 .. 9 : DigitChars[d + 1] = c
  BY DEF DigitValue
<1>6. \A c \in Digits : DigitValue[c] \in 0 .. 9 /\ DigitChars[DigitValue[c] + 1] = c
  BY <1>4, <1>5
<1> QED BY <1>2, <1>3, <1>6

\* What Number does with one digit.
NumberStep == [pc \in Nat \X Digits |-> 10 * pc[1] + DigitValue[pc[2]]]

\* A number stays one.
LEMMA NumberStepType == IsStep(NumberStep, Nat, Digits)
<1>1. ASSUME NEW p \in Nat, NEW c \in Digits  PROVE 10 * p + DigitValue[c] \in Nat
  BY DigitsHaveValues
<1> QED BY <1>1 DEF NumberStep, IsStep

\* Number goes through a text from left to right, as str::parse does.
LEMMA NumberRun ==
  ASSUME NEW text \in Seq(Digits)
  PROVE  \E run : /\ IsRun(run, Nat, NumberStep, 0, text)
                  /\ Number(text) = run[Len(text)]
<1> DEFINE n == Len(text)
           S == Nat
           T == Digits
           b == 0
           Step(p, c) == 10 * p + DigitValue[c]
           D == NumberStep
           Solves(f) == f = [s \in SUBSET DOMAIN text |->
                               IF s = {} THEN b ELSE Step(f[s \ {Max(s)}], text[Max(s)])]
           iter == CHOOSE f : Solves(f)
<1>1. DOMAIN text = 1 .. n /\ n \in Nat /\ text \in [1 .. n -> T]
  BY DEF Digits
<1>2. b \in S /\ IsStep(D, S, T)
  BY NumberStepType
<1>3. \A p \in S, c \in T : D[<<p, c>>] = Step(p, c)
  BY DEF NumberStep
<1>4. Number(text) = iter[DOMAIN text]
  BY DEF Number, FoldLeft, MapThenFoldSet
<1> HIDE DEF n, b, S, T, Step, D, Solves, iter
<1>5. \E f : Solves(f)
  <2>1. PICK it \in [SUBSET (1 .. n) -> S] : IsFold(it, D, b, text, n)
    BY <1>1, <1>2, FoldExists
  <2>2. ASSUME NEW s \in SUBSET (1 .. n), s # {}
        PROVE  it[s] = Step(it[s \ {Max(s)}], text[Max(s)])
    <3>1. Max(s) \in 1 .. n /\ s \ {Max(s)} \in SUBSET (1 .. n)
      BY <1>1, <2>2, MaxOfInterval
    <3>2. it[s \ {Max(s)}] \in S /\ text[Max(s)] \in T
      BY <1>1, <3>1
    <3> QED BY <1>3, <2>1, <2>2, <3>2 DEF IsFold
  <2>3. Solves(it)
    BY <1>1, <2>1, <2>2 DEF Solves, IsFold
  <2> QED BY <2>3
<1>6. Solves(iter)
  BY <1>5 DEF iter
<1>7. iter[{}] = b
  <2>1. {} \in SUBSET DOMAIN text  OBVIOUS
  <2> QED BY <1>6, <2>1 DEF Solves
<1>8. ASSUME NEW i \in 1 .. n, iter[1 .. i - 1] \in S
      PROVE  iter[1 .. i] = D[<<iter[1 .. i - 1], text[i]>>]
  <2>1. /\ 1 .. i \in SUBSET DOMAIN text /\ 1 .. i # {}
        /\ Max(1 .. i) = i /\ (1 .. i) \ {i} = 1 .. i - 1
    BY <1>1, MaxOfPrefix
  <2>2. iter[1 .. i] = Step(iter[(1 .. i) \ {Max(1 .. i)}], text[Max(1 .. i)])
    BY <1>6, <2>1 DEF Solves
  <2> QED BY <1>1, <1>3, <1>8, <2>1, <2>2
<1>9. \E run : IsRun(run, S, D, b, text) /\ run[Len(text)] = iter[DOMAIN text]
  <2>1. IsIteration(iter, S, D, b, text)
    BY <1>7, <1>8 DEF n, IsIteration
  <2>2. text \in Seq(T)
    BY DEF T
  <2> QED BY <1>2, <2>1, <2>2, RunOfFold
<1> QED BY <1>4, <1>9 DEF S, D, b


\* Number, one digit at a time.
LEMMA NumberAppend ==
  ASSUME NEW text \in Seq(Digits), NEW c \in Digits
  PROVE  /\ Number(<<>>) = 0
         /\ Number(text) \in Nat
         /\ Number(Append(text, c)) = 10 * Number(text) + DigitValue[c]
<1> DEFINE S == Nat
           T == Digits
           D == NumberStep
           b == 0
<1>1. IsStep(D, S, T) /\ b \in S
  BY NumberStepType
<1>2. Append(text, c) \in Seq(T) /\ <<>> \in Seq(T)
      /\ Len(Append(text, c)) = Len(text) + 1 /\ Len(<<>>) = 0 /\ Len(text) \in Nat
  <2> HIDE DEF T
  <2>1. text \in Seq(T) /\ c \in T  BY DEF T
  <2> QED BY <2>1
<1>3. PICK short : IsRun(short, S, D, b, text) /\ Number(text) = short[Len(text)]
  BY NumberRun
<1>4. PICK long : /\ IsRun(long, S, D, b, Append(text, c))
                  /\ Number(Append(text, c)) = long[Len(text) + 1]
  BY <1>2, NumberRun
<1>5. PICK none : IsRun(none, S, D, b, <<>>) /\ Number(<<>>) = none[0]
  BY <1>2, NumberRun
<1>6. short[Len(text)] \in S
  <2> HIDE DEF S, D, b
  <2> QED BY <1>2, <1>3 DEF IsRun
<1>7. long[Len(text) + 1] = D[<<short[Len(text)], c>>]
  <2> HIDE DEF S, D, b, T
  <2>1. text \in Seq(T) /\ c \in T  BY DEF T
  <2> QED BY <1>3, <1>4, <2>1, RunsAgree
<1>8. none[0] = b
  BY <1>5 DEF IsRun
<1> QED BY <1>3, <1>4, <1>5, <1>6, <1>7, <1>8 DEF NumberStep

\* The parts of DecimalDigits.
OneDigit(n)       == <<DigitChars[n + 1]>>
MoreDigits(tens, n) == Append(tens, DigitChars[(n % 10) + 1])
Tens(n)           == n \div 10

\* The numbers up to m, written in digits.
IsWriting(g, m) ==
  /\ g \in [0 .. m -> Seq(Digits)]
  /\ \A n \in 0 .. m : g[n] = IF n < 10 THEN OneDigit(n) ELSE MoreDigits(g[Tens(n)], n)

\* A number is its last digit and the tens before it.
LEMMA LastDigit ==
  ASSUME NEW n \in Nat
  PROVE  /\ Tens(n) \in Nat /\ Tens(n) <= n /\ n % 10 \in 0 .. 9
         /\ n = 10 * Tens(n) + (n % 10)
         /\ ~ (n < 10) => Tens(n) < n
BY DEF Tens

\* Its characters are digits.
LEMMA WritingType ==
  ASSUME NEW n \in Nat
  PROVE  /\ n < 10 => OneDigit(n) \in Seq(Digits)
         /\ \A tens \in Seq(Digits) : MoreDigits(tens, n) \in Seq(Digits)
<1>1. n < 10 => DigitChars[n + 1] \in Digits
  BY DigitsHaveValues
<1>2. DigitChars[(n % 10) + 1] \in Digits
  BY LastDigit, DigitsHaveValues
<1> QED BY <1>1, <1>2 DEF OneDigit, MoreDigits

\* A number of at most m can be written digit by digit.
LEMMA WritingExists ==
  ASSUME NEW m \in Nat
  PROVE  \E g : IsWriting(g, m)
<1> DEFINE P(k) == \E g : IsWriting(g, k)
<1>1. P(0)
  <2> DEFINE g == [n \in 0 .. 0 |-> OneDigit(n)]
  <2>1. g \in [0 .. 0 -> Seq(Digits)]  BY WritingType
  <2>2. \A n \in 0 .. 0 : n < 10 /\ g[n] = OneDigit(n)  OBVIOUS
  <2> HIDE DEF g
  <2> QED BY <2>1, <2>2 DEF IsWriting
<1>2. ASSUME NEW k \in Nat, P(k)  PROVE P(k + 1)
  <2>1. PICK g : IsWriting(g, k)  BY <1>2
  <2> DEFINE last == IF k + 1 < 10 THEN OneDigit(k + 1) ELSE MoreDigits(g[Tens(k + 1)], k + 1)
             h == [n \in 0 .. k + 1 |-> IF n = k + 1 THEN last ELSE g[n]]
  <2>2. last \in Seq(Digits)
    <3>1. CASE k + 1 < 10  BY <3>1, WritingType, k + 1 \in Nat
    <3>2. CASE ~ (k + 1 < 10)
      <4>1. Tens(k + 1) \in 0 .. k  BY <3>2, LastDigit, k + 1 \in Nat
      <4>2. g[Tens(k + 1)] \in Seq(Digits)  BY <2>1, <4>1 DEF IsWriting
      <4> QED BY <3>2, <4>2, WritingType, k + 1 \in Nat
    <3> QED BY <3>1, <3>2
  <2>3. h \in [0 .. k + 1 -> Seq(Digits)]
    <3> HIDE DEF last
    <3>1. \A n \in 0 .. k + 1 : n # k + 1 => n \in 0 .. k  OBVIOUS
    <3>2. \A n \in 0 .. k : g[n] \in Seq(Digits)  BY <2>1 DEF IsWriting
    <3> QED BY <2>2, <3>1, <3>2
  <2>4. h[k + 1] = last /\ \A n \in 0 .. k : h[n] = g[n]
    <3> HIDE DEF last
    <3>1. k + 1 \in 0 .. k + 1 /\ \A n \in 0 .. k : n \in 0 .. k + 1 /\ n # k + 1
      OBVIOUS
    <3>2. h[k + 1] = last  BY <3>1
    <3> QED BY <3>1, <3>2
  <2>5. ASSUME NEW n \in 0 .. k + 1
        PROVE  h[n] = IF n < 10 THEN OneDigit(n) ELSE MoreDigits(h[Tens(n)], n)
    <3> HIDE DEF h
    <3>1. ~ (n < 10) => Tens(n) \in 0 .. k
      <4>1. n \in Nat  OBVIOUS
      <4> QED BY <4>1, LastDigit
    <3>2. CASE n = k + 1  BY <2>4, <3>1, <3>2
    <3>3. CASE n # k + 1
      <4>1. n \in 0 .. k  BY <3>3
      <4>2. g[n] = IF n < 10 THEN OneDigit(n) ELSE MoreDigits(g[Tens(n)], n)
        BY <2>1, <4>1 DEF IsWriting
      <4> QED BY <2>4, <3>1, <4>1, <4>2
    <3> QED BY <3>2, <3>3
  <2> HIDE DEF h
  <2> QED BY <2>3, <2>5 DEF IsWriting
<1>3. \A k \in Nat : P(k)
  <2> DEFINE N == {k \in Nat : P(k)}
  <2> HIDE DEF P
  <2>1. 0 \in N /\ \A k \in Nat : k \in N => k + 1 \in N  BY <1>1, <1>2
  <2>2. \A k \in Nat : k \in N
    <3> HIDE DEF N
    <3> QED BY <2>1, NatInduct
  <2> QED BY <2>2
<1> QED BY <1>3

\* There is one way to write a number.
LEMMA WritingsAgree ==
  ASSUME NEW m \in Nat, NEW k \in Nat, NEW g, NEW h,
         IsWriting(g, m), IsWriting(h, k), NEW n \in Nat, n <= m, n <= k
  PROVE  g[n] = h[n]
<1> DEFINE P(i) == \A j \in 0 .. i : j <= m /\ j <= k => g[j] = h[j]
<1>1. P(0)
  <2>1. 0 \in 0 .. m /\ 0 \in 0 .. k  OBVIOUS
  <2>2. g[0] = OneDigit(0) /\ h[0] = OneDigit(0)  BY <2>1 DEF IsWriting
  <2> QED BY <2>2
<1>2. ASSUME NEW i \in Nat, P(i)  PROVE P(i + 1)
  <2> SUFFICES ASSUME i + 1 <= m, i + 1 <= k  PROVE g[i + 1] = h[i + 1]
    BY <1>2
  <2>1. i + 1 \in 0 .. m /\ i + 1 \in 0 .. k  OBVIOUS
  <2>2. CASE i + 1 < 10  BY <2>1, <2>2 DEF IsWriting
  <2>3. CASE ~ (i + 1 < 10)
    <3>1. Tens(i + 1) \in 0 .. i
      <4>1. Tens(i + 1) \in Nat /\ Tens(i + 1) < i + 1
        BY <2>3, LastDigit, i + 1 \in Nat, Zenon
      <4> QED BY <4>1
    <3>2. g[Tens(i + 1)] = h[Tens(i + 1)]  BY <1>2, <3>1
    <3> QED BY <2>1, <2>3, <3>2 DEF IsWriting
  <2> QED BY <2>2, <2>3
<1>3. \A i \in Nat : P(i)
  <2> DEFINE N == {i \in Nat : P(i)}
  <2> HIDE DEF P
  <2>1. 0 \in N /\ \A i \in Nat : i \in N => i + 1 \in N  BY <1>1, <1>2
  <2>2. \A i \in Nat : i \in N
    <3> HIDE DEF N
    <3> QED BY <2>1, NatInduct
  <2> QED BY <2>2
<1>4. n \in 0 .. n  OBVIOUS
<1> QED BY <1>3, <1>4

\* DecimalDigits writes a number digit by digit, as Display does.
LEMMA DecimalUnfolds ==
  ASSUME NEW n \in Nat
  PROVE  /\ DecimalDigits[n] \in Seq(Digits)
         /\ DecimalDigits[n] = IF n < 10 THEN OneDigit(n) ELSE MoreDigits(DecimalDigits[Tens(n)], n)
<1> DEFINE Writes(f) == f = [k \in Nat |-> IF k < 10 THEN OneDigit(k) ELSE MoreDigits(f[Tens(k)], k)]
           g(k) == CHOOSE w : IsWriting(w, k)
           f == [k \in Nat |-> g(k)[k]]
<1>1. \A k \in Nat : IsWriting(g(k), k)
  BY WritingExists
<1> HIDE DEF g
<1>2. \A k \in Nat : f[k] \in Seq(Digits) /\ f[k] = g(k)[k]
  <2>1. \A k \in Nat : g(k)[k] \in Seq(Digits)  BY <1>1 DEF IsWriting
  <2> QED BY <2>1
<1>3. ASSUME NEW k \in Nat
      PROVE  f[k] = IF k < 10 THEN OneDigit(k) ELSE MoreDigits(f[Tens(k)], k)
  <2> HIDE DEF f
  <2>1. k \in 0 .. k /\ k <= k  OBVIOUS
  <2>2. g(k)[k] = IF k < 10 THEN OneDigit(k) ELSE MoreDigits(g(k)[Tens(k)], k)
    BY <1>1, <2>1 DEF IsWriting
  <2>3. Tens(k) \in Nat /\ Tens(k) <= k /\ Tens(k) <= Tens(k)
    BY LastDigit
  <2>4. g(k)[Tens(k)] = g(Tens(k))[Tens(k)]
    BY <1>1, <2>3, WritingsAgree
  <2> QED BY <1>2, <2>2, <2>3, <2>4
<1>4. Writes(f)
  <2>1. f = [k \in Nat |-> f[k]]  OBVIOUS
  <2> HIDE DEF f
  <2> QED BY <1>3, <2>1
<1>5. DecimalDigits = CHOOSE w : Writes(w)
  BY DEF DecimalDigits, OneDigit, MoreDigits, Tens
<1>6. Writes(DecimalDigits)
  <2> HIDE DEF Writes, f
  <2> QED BY <1>4, <1>5
<1>7. \A k \in Nat : DecimalDigits[k] =
         IF k < 10 THEN OneDigit(k) ELSE MoreDigits(DecimalDigits[Tens(k)], k)
  BY <1>6
<1> DEFINE P(k) == \A j \in 0 .. k : DecimalDigits[j] \in Seq(Digits)
<1>8. P(0)
  <2>1. DecimalDigits[0] = OneDigit(0) /\ OneDigit(0) \in Seq(Digits)  BY <1>7, WritingType
  <2> QED BY <2>1
<1>9. ASSUME NEW k \in Nat, P(k)  PROVE P(k + 1)
  <2> SUFFICES DecimalDigits[k + 1] \in Seq(Digits)  BY <1>9
  <2>0. k + 1 \in Nat  OBVIOUS
  <2>1. CASE k + 1 < 10
    BY <1>7, <2>0, <2>1, WritingType
  <2>2. CASE ~ (k + 1 < 10)
    <3>1. Tens(k + 1) \in 0 .. k
      BY <2>2, LastDigit, <2>0
    <3>2. DecimalDigits[Tens(k + 1)] \in Seq(Digits)  BY <1>9, <3>1
    <3> QED BY <1>7, <2>0, <2>2, <3>2, WritingType
  <2> QED BY <2>1, <2>2
<1>10. \A k \in Nat : P(k)
  <2> DEFINE N == {k \in Nat : P(k)}
  <2> HIDE DEF P
  <2>1. 0 \in N /\ \A k \in Nat : k \in N => k + 1 \in N  BY <1>8, <1>9
  <2>2. \A k \in Nat : k \in N
    <3> HIDE DEF N
    <3> QED BY <2>1, NatInduct
  <2> QED BY <2>2
<1>11. n \in 0 .. n  OBVIOUS
<1> QED BY <1>7, <1>10, <1>11

\* Display and parse of a natural number.
LEMMA DecimalReadBack ==
  ASSUME NEW n \in Nat
  PROVE  /\ DecimalDigits[n] \in Seq(Digits) \ {<<>>}
         /\ Number(DecimalDigits[n]) = n
<1> DEFINE P(k) == \A j \in 0 .. k : DecimalDigits[j] # <<>> /\ Number(DecimalDigits[j]) = j
<1>1. ASSUME NEW j \in 0 .. 9
      PROVE  DecimalDigits[j] # <<>> /\ Number(DecimalDigits[j]) = j
  <2>1. DecimalDigits[j] = <<DigitChars[j + 1]>>
    <3>1. j \in Nat /\ j < 10  OBVIOUS
    <3> QED BY <3>1, DecimalUnfolds DEF OneDigit
  <2>2. DigitChars[j + 1] \in Digits /\ DigitValue[DigitChars[j + 1]] = j
    BY DigitsHaveValues
  <2>3. <<DigitChars[j + 1]>> = Append(<<>>, DigitChars[j + 1]) /\ <<>> \in Seq(Digits)
    OBVIOUS
  <2>4. Number(<<DigitChars[j + 1]>>) = 10 * 0 + j
    BY <2>2, <2>3, NumberAppend
  <2> QED BY <2>1, <2>4
<1>2. P(0)
  BY <1>1
<1>3. ASSUME NEW k \in Nat, P(k)  PROVE P(k + 1)
  <2> SUFFICES DecimalDigits[k + 1] # <<>> /\ Number(DecimalDigits[k + 1]) = k + 1
    BY <1>3
  <2>1. CASE k + 1 < 10
    BY <1>1, <2>1
  <2>2. CASE ~ (k + 1 < 10)
    <3> DEFINE q == Tens(k + 1)
               d == (k + 1) % 10
    <3>1. q \in 0 .. k /\ d \in 0 .. 9 /\ k + 1 = 10 * q + d
      BY <2>2, LastDigit, k + 1 \in Nat
    <3>2. DecimalDigits[k + 1] = Append(DecimalDigits[q], DigitChars[d + 1])
      BY <2>2, DecimalUnfolds, k + 1 \in Nat DEF MoreDigits
    <3> HIDE DEF q, d
    <3>3. DecimalDigits[q] \in Seq(Digits) /\ Number(DecimalDigits[q]) = q
      <4>1. q \in Nat  BY <3>1
      <4> QED BY <1>3, <3>1, <4>1, DecimalUnfolds
    <3>4. DigitChars[d + 1] \in Digits /\ DigitValue[DigitChars[d + 1]] = d
      BY <3>1, DigitsHaveValues
    <3>5. Number(DecimalDigits[k + 1]) = 10 * q + d
      BY <3>2, <3>3, <3>4, NumberAppend
    <3>6. Append(DecimalDigits[q], DigitChars[d + 1]) # <<>>
      BY <3>3, <3>4
    <3> QED BY <3>1, <3>2, <3>5, <3>6
  <2> QED BY <2>1, <2>2
<1>4. \A k \in Nat : P(k)
  <2> DEFINE N == {k \in Nat : P(k)}
  <2> HIDE DEF P
  <2>1. 0 \in N /\ \A k \in Nat : k \in N => k + 1 \in N  BY <1>2, <1>3
  <2>2. \A k \in Nat : k \in N
    <3> HIDE DEF N
    <3> QED BY <2>1, NatInduct
  <2> QED BY <2>2
<1>5. n \in 0 .. n  OBVIOUS
<1> QED BY <1>4, <1>5, DecimalUnfolds

-----------------------------------------------------------------------------
(* Join and Split *)

\* The characters of a text.  Every one of them is a string; but of a given
\* character no prover can tell that it is in STRING, so those that the
\* parsers look for are named.
Char == STRING \cup Digits \cup {".", "_", "-"}

\* Texts of any characters, and lists of texts.
Words == Seq(Char)
Lists == Seq(Words)

\* Words, for steps that must not expand it.
LEMMA WordsOfChars == Words = Seq(Char)
BY DEF Words

\* The texts that programs are given are words.
LEMMA TextsAreWords ==
  Texts \subseteq Words /\ Seq(Digits) \subseteq Words /\ {".", "_", "-"} \subseteq Char
<1>1. Digits \subseteq Char /\ {".", "_", "-"} \subseteq Char /\ STRING \subseteq Char
  BY Zenon DEF Char
<1>2. \A S, T : S \subseteq T => Seq(S) \subseteq Seq(T)
  OBVIOUS
<1> QED  BY <1>1, <1>2, Zenon DEF Words, Texts

\* A text, a separator and one more piece.
Longer(text, separator, piece) == text \o (<<separator>> \o piece)

\* Characters, texts and lists under the operators used here.
LEMMA TextFacts ==
  /\ <<>> \in Words /\ <<>> \in Lists
  /\ \A t \in Words, c \in Char : Add(t, c) \in Words
  /\ \A t \in Words, u \in Words : t \o u \in Words
  /\ \A p \in Lists, t \in Words : Add(p, t) \in Lists
  /\ \A p \in Lists, t \in Words : Add(p, t) # <<>>
  /\ \A p, q \in Lists : p \o q \in Lists
  /\ \A c \in Char : <<c>> \in Words
  /\ \A t \in Words : <<t>> \in Lists /\ <<t>> = Add(<<>>, t)
<1> USE DEF Add
<1>1. <<>> \in Words /\ <<>> \in Lists
  BY DEF Words, Lists
<1>2. /\ \A t \in Words, c \in Char : Add(t, c) \in Words
      /\ \A t \in Words, u \in Words : t \o u \in Words
      /\ \A c \in Char : <<c>> \in Words
  BY WordsOfChars
<1>3. \A p \in Lists, t \in Words : Add(p, t) \in Lists
  BY DEF Lists
<1>4. \A p \in Lists, t \in Words : Add(p, t) # <<>>
  BY AppendProperties DEF Lists
<1>5. \A p, q \in Lists : p \o q \in Lists
  BY DEF Lists
<1>6. \A t \in Words : <<t>> \in Lists /\ <<t>> = Add(<<>>, t)
  BY DEF Lists
<1> QED BY <1>1, <1>2, <1>3, <1>4, <1>5, <1>6

\* A sequence with another last element.
WithLast(whole, new) == [whole EXCEPT ![Len(whole)] = new]

\* The last element, replaced.
LEMMA LastReplaced ==
  ASSUME NEW S, NEW front \in Seq(S), NEW old \in S, NEW new \in S
  PROVE  WithLast(Add(front, old), new) = Add(front, new)
<1> USE DEF Add
<1> USE DEF WithLast
<1> DEFINE n == Len(front)
           whole == Add(front, old)
           a == [whole EXCEPT ![Len(whole)] = new]
           b == Add(front, new)
<1>1. /\ n \in Nat /\ Len(whole) = n + 1 /\ whole \in Seq(S) /\ n + 1 \in 1 .. n + 1
      /\ \A i \in 1 .. n : whole[i] = front[i]
  <2>1. n \in Nat  OBVIOUS
  <2>2. whole \in Seq(S) /\ Len(whole) = n + 1 /\ \A i \in 1 .. n : whole[i] = front[i]
    BY AppendProperties
  <2> QED BY <2>1, <2>2
<1>2. /\ a \in Seq(S) /\ Len(a) = n + 1
      /\ \A i \in 1 .. n + 1 : a[i] = IF i = n + 1 THEN new ELSE whole[i]
  <2>1. Len(whole) \in 1 .. Len(whole) /\ Len(whole) = n + 1  BY <1>1
  <2> HIDE DEF whole, n
  <2>2. /\ a \in Seq(S) /\ Len(a) = Len(whole)
        /\ \A j \in 1 .. Len(whole) : a[j] = IF j = Len(whole) THEN new ELSE whole[j]
    BY <1>1, <2>1, ExceptSeq
  <2> QED BY <2>1, <2>2
<1>3. /\ b \in Seq(S) /\ Len(b) = n + 1 /\ b[n + 1] = new
      /\ \A i \in 1 .. n : b[i] = front[i]
  BY AppendProperties
<1> HIDE DEF a, b, n, whole
<1>4. \A i \in 1 .. n + 1 : a[i] = b[i]
  <2> SUFFICES ASSUME NEW i \in 1 .. n + 1  PROVE a[i] = b[i]
    OBVIOUS
  <2>1. CASE i = n + 1  BY <1>2, <1>3, <2>1
  <2>2. CASE i # n + 1
    <3>1. i \in 1 .. n  BY <1>1, <2>2
    <3> QED BY <1>1, <1>2, <1>3, <2>2, <3>1
  <2> QED BY <2>1, <2>2
<1>5. a = b
  BY <1>2, <1>3, <1>4, SeqEqual
<1> QED BY <1>5 DEF a, b, whole

\* Split, by the last character of a text.
LEMMA SplitSteps ==
  ASSUME NEW text \in Words, NEW separator \in Char
  PROVE  /\ Split(<<>>, separator) = <<<<>>>>
         /\ Split(text, separator) \in Lists
         /\ Split(Add(text, separator), separator) = Add(Split(text, separator), <<>>)
         /\ \A c \in Char, front \in Lists, last \in Words :
              c # separator /\ Split(text, separator) = Add(front, last) =>
                Split(Add(text, c), separator) = Add(front, Add(last, c))
<1> USE DEF Add
<1>1. text \in Seq(Char)
  BY WordsOfChars
<1>2. Split(<<>>, separator) = <<<<>>>> /\ Split(text, separator) \in Lists
  BY <1>1, SplitAppend, WordsOfChars DEF Lists
<1>3. \A c \in Char : Split(Add(text, c), separator) =
                        SplitStep(Char, separator)[<<Split(text, separator), c>>]
  <2> HIDE DEF Add
  <2> QED BY <1>1, SplitAppend
<1>4. \A p \in Lists, c \in Char :
        SplitStep(Char, separator)[<<p, c>>] =
          IF c = separator THEN Add(p, <<>>) ELSE WithLast(p, Add(p[Len(p)], c))
  BY WordsOfChars DEF SplitStep, WithLast, Lists
<1>5. Split(Add(text, separator), separator) = Add(Split(text, separator), <<>>)
  BY <1>2, <1>3, <1>4
<1>6. ASSUME NEW c \in Char, NEW front \in Lists, NEW last \in Words,
             c # separator, Split(text, separator) = Add(front, last)
      PROVE  Split(Add(text, c), separator) = Add(front, Add(last, c))
  <2> DEFINE p == Add(front, last)
  <2>1. p \in Lists /\ Add(last, c) \in Words  BY TextFacts
  <2>2. p[Len(p)] = last  BY DEF Lists
  <2> HIDE DEF p
  <2>3. Split(Add(text, c), separator) = WithLast(p, Add(p[Len(p)], c))
    BY <1>3, <1>4, <1>6, <2>1 DEF p
  <2>4. WithLast(Add(front, last), Add(last, c)) = Add(front, Add(last, c))
    BY <2>1, LastReplaced DEF Lists
  <2> QED BY <2>2, <2>3, <2>4 DEF p
<1> QED BY <1>2, <1>5, <1>6

\* The pieces as they follow each other in the joined text.
Marked(pieces, separator) ==
  [i \in DOMAIN pieces |-> IF i = 1 THEN pieces[i] ELSE <<separator>> \o pieces[i]]

\* Marked, one piece at a time.
LEMMA MarkedAppend ==
  ASSUME NEW separator \in Char, NEW pieces \in Lists, NEW piece \in Words
  PROVE  /\ Marked(<<>>, separator) = <<>>
         /\ Marked(pieces, separator) \in Lists
         /\ Marked(Add(<<>>, piece), separator) = Add(<<>>, piece)
         /\ pieces # <<>> => Marked(Add(pieces, piece), separator) =
                               Add(Marked(pieces, separator), <<separator>> \o piece)
<1> USE DEF Add
<1> DEFINE n == Len(pieces)
           last == <<separator>> \o piece
           long == Add(pieces, piece)
           short == Marked(pieces, separator)
           marked == Marked(long, separator)
<1>1. /\ n \in Nat /\ DOMAIN pieces = 1 .. n /\ DOMAIN long = 1 .. n + 1
      /\ pieces = <<>> <=> n = 0
  BY DEF Lists
<1>2. long[n + 1] = piece /\ \A i \in 1 .. n : long[i] = pieces[i]
  BY AppendProperties DEF Lists
<1>3. \A q \in Words : <<separator>> \o q \in Words
  BY WordsOfChars
<1>4. \A i \in 1 .. n : pieces[i] \in Words
  BY DEF Lists
<1>5. short \in [1 .. n -> Words]
  <2> HIDE DEF n
  <2> QED BY <1>1, <1>3, <1>4 DEF Marked
<1>6. short \in Lists /\ Len(short) = n
  <2> HIDE DEF n, short
  <2> QED BY <1>1, <1>5 DEF Lists
<1>7. last \in Words
  BY <1>3
<1>8. ASSUME n # 0  PROVE marked = Add(short, last)
  <2> DEFINE b == Add(short, last)
  <2>1. /\ b \in Lists /\ Len(b) = n + 1 /\ b[n + 1] = last
        /\ \A i \in 1 .. n : b[i] = short[i]
    <3> HIDE DEF n, short, last
    <3> QED BY <1>6, <1>7, AppendProperties DEF Lists
  <2>2. ASSUME NEW i \in 1 .. n + 1  PROVE marked[i] = b[i]
    <3>1. marked[i] = IF i = 1 THEN long[i] ELSE <<separator>> \o long[i]
      <4> HIDE DEF n, long
      <4> QED BY <1>1 DEF Marked
    <3> HIDE DEF b, long, marked, n
    <3>2. CASE i = n + 1
      <4>1. i # 1  BY <1>1, <1>8, <3>2
      <4> QED BY <1>2, <2>1, <3>1, <3>2, <4>1
    <3>3. CASE i # n + 1
      <4>1. i \in 1 .. n  BY <1>1, <3>3
      <4>2. short[i] = IF i = 1 THEN pieces[i] ELSE <<separator>> \o pieces[i]
        BY <1>1, <4>1 DEF Marked
      <4> HIDE DEF short
      <4> QED BY <1>2, <2>1, <3>1, <4>1, <4>2
    <3> QED BY <3>2, <3>3
  <2>3. marked = [i \in 1 .. n + 1 |-> marked[i]]
    <3> HIDE DEF n, long
    <3> QED BY <1>1 DEF Marked
  <2>4. b = [i \in 1 .. n + 1 |-> b[i]]
    <3> HIDE DEF b, n
    <3> QED BY <2>1 DEF Lists
  <2> HIDE DEF b, marked, n
  <2>5. marked = b
    BY <2>2, <2>3, <2>4
  <2> QED BY <2>5 DEF b
<1>9. Marked(Add(<<>>, piece), separator) = Add(<<>>, piece)
  <2>1. Add(<<>>, piece) = <<piece>>  OBVIOUS
  <2>2. Marked(<<piece>>, separator) = <<piece>>  BY DEF Marked
  <2> QED BY <2>1, <2>2
<1>10. Marked(<<>>, separator) = <<>>
  BY DEF Marked
<1> QED BY <1>1, <1>6, <1>8, <1>9, <1>10

\* Join, by the last of its pieces.
LEMMA JoinSteps ==
  ASSUME NEW separator \in Char, NEW pieces \in Lists, NEW piece \in Words
  PROVE  /\ Join(pieces, separator) \in Words
         /\ Join(<<piece>>, separator) = piece
         /\ Join(Add(<<>>, piece), separator) = piece
         /\ pieces # <<>> => Join(Add(pieces, piece), separator) =
                               Longer(Join(pieces, separator), separator, piece)
<1> USE DEF Add
<1>1. \A q : Join(q, separator) = FlattenSeq(Marked(q, separator))
  BY DEF Join, Marked
<1>2. /\ FlattenSeq(<<>>) = <<>>
      /\ \A q \in Lists, last \in Words :
           FlattenSeq(q) \in Words /\ FlattenSeq(Add(q, last)) = FlattenSeq(q) \o last
  <2>1. FlattenSeq(<<>>) = <<>>
    BY <<>> \in Seq(Seq(Char)), <<>> \in Seq(Char), FlattenAppend
  <2>2. ASSUME NEW q \in Lists, NEW last \in Words
        PROVE  FlattenSeq(q) \in Words /\ FlattenSeq(Add(q, last)) = FlattenSeq(q) \o last
    <3>1. q \in Seq(Seq(Char)) /\ last \in Seq(Char)  BY WordsOfChars DEF Lists
    <3> QED BY <3>1, FlattenAppend, WordsOfChars, Zenon
  <2> QED BY <2>1, <2>2
<1>3. Join(pieces, separator) \in Words
  <2>1. Marked(pieces, separator) \in Lists  BY MarkedAppend
  <2> QED BY <1>1, <1>2, <2>1
<1>4. Join(Add(<<>>, piece), separator) = piece
  <2>1. Join(Add(<<>>, piece), separator) = FlattenSeq(Add(<<>>, piece))
    <3>1. Marked(Add(<<>>, piece), separator) = Add(<<>>, piece)
      BY MarkedAppend
    <3> QED BY <1>1, <3>1
  <2>2. FlattenSeq(Add(<<>>, piece)) = <<>> \o piece
    BY <1>2, TextFacts
  <2>3. <<>> \o piece = piece  BY WordsOfChars
  <2> QED BY <2>1, <2>2, <2>3
<1>5. ASSUME pieces # <<>>
      PROVE  Join(Add(pieces, piece), separator) =
               Longer(Join(pieces, separator), separator, piece)
  <2> DEFINE last == <<separator>> \o piece
             m == Marked(pieces, separator)
  <2>1. last \in Words  BY TextFacts
  <2>2. m \in Lists /\ Marked(Add(pieces, piece), separator) = Add(m, last)
    BY <1>5, MarkedAppend
  <2>3. Join(Add(pieces, piece), separator) = FlattenSeq(Add(m, last))
    BY <1>1, <2>2
  <2>4. Longer(Join(pieces, separator), separator, piece) = FlattenSeq(m) \o last
    BY <1>1 DEF Longer
  <2> HIDE DEF m, last
  <2> QED BY <1>2, <2>1, <2>2, <2>3, <2>4
<1>6. <<piece>> = Add(<<>>, piece)
  OBVIOUS
<1> QED BY <1>3, <1>4, <1>5, <1>6

\* Longer, one character at a time, and associative.
LEMMA LongerFacts ==
  ASSUME NEW t \in Words, NEW c \in Char, NEW u \in Words
  PROVE  /\ Longer(t, c, u) \in Words
         /\ Longer(t, c, <<>>) = Add(t, c)
         /\ \A d \in Char : Longer(t, c, Add(u, d)) = Add(Longer(t, c, u), d)
         /\ \A d \in Char, v \in Words :
              Longer(Longer(t, c, u), d, v) = Longer(t, c, Longer(u, d, v))
<1> USE DEF Add
<1> USE DEF Longer
<1>1. Longer(t, c, u) \in Words
  BY WordsOfChars
<1>2. Longer(t, c, <<>>) = Add(t, c)
  BY WordsOfChars
<1>3. \A d \in Char : Longer(t, c, Add(u, d)) = Add(Longer(t, c, u), d)
  <2> SUFFICES ASSUME NEW d \in Char  PROVE Longer(t, c, Add(u, d)) = Add(Longer(t, c, u), d)
    OBVIOUS
  <2>0. /\ t \in Seq(Char) /\ u \in Seq(Char) /\ <<c>> \in Seq(Char)
        /\ <<d>> \in Seq(Char) /\ <<c>> \o u \in Seq(Char)
        /\ t \o (<<c>> \o u) \in Seq(Char)
    BY WordsOfChars
  <2>1. Add(u, d) = u \o <<d>>  BY <2>0, AppendIsConcat
  <2>2. <<c>> \o (u \o <<d>>) = (<<c>> \o u) \o <<d>>  BY <2>0, ConcatAssociative
  <2>3. t \o ((<<c>> \o u) \o <<d>>) = (t \o (<<c>> \o u)) \o <<d>>  BY <2>0, ConcatAssociative
  <2>4. Add(t \o (<<c>> \o u), d) = (t \o (<<c>> \o u)) \o <<d>>  BY <2>0, AppendIsConcat
  <2> QED BY <2>1, <2>2, <2>3, <2>4
<1>4. \A d \in Char, v \in Words : Longer(Longer(t, c, u), d, v) = Longer(t, c, Longer(u, d, v))
  <2> SUFFICES ASSUME NEW d \in Char, NEW v \in Words
               PROVE  Longer(Longer(t, c, u), d, v) = Longer(t, c, Longer(u, d, v))
    OBVIOUS
  <2> DEFINE w == <<d>> \o v
             x == <<c>> \o u
  <2>0. /\ t \in Seq(Char) /\ u \in Seq(Char) /\ <<c>> \in Seq(Char)
        /\ w \in Seq(Char) /\ x \in Seq(Char)
    BY WordsOfChars
  <2> HIDE DEF w
  <2>1. (t \o x) \o w = t \o (x \o w)
    <3> HIDE DEF x
    <3> QED BY <2>0, ConcatAssociative
  <2>2. x \o w = <<c>> \o (u \o w)
    BY <2>0, ConcatAssociative
  <2>3. Longer(Longer(t, c, u), d, v) = (t \o x) \o w  BY DEF w
  <2>4. Longer(t, c, Longer(u, d, v)) = t \o (<<c>> \o (u \o w))  BY DEF w
  <2> QED BY <2>1, <2>2, <2>3, <2>4
<1> QED BY <1>1, <1>2, <1>3, <1>4

\* Two joined texts, joined, are the join of all their pieces.
LEMMA JoinConcat ==
  ASSUME NEW separator \in Char,
         NEW front \in Lists, front # <<>>, NEW back \in Lists, back # <<>>
  PROVE  Join(front \o back, separator) =
           Longer(Join(front, separator), separator, Join(back, separator))
<1> DEFINE Holds(b) == b # <<>> =>
             Join(front \o b, separator) =
               Longer(Join(front, separator), separator, Join(b, separator))
           Q == {b \in Lists : Holds(b)}
<1>1. <<>> \in Q
  BY TextFacts
<1>2. ASSUME NEW b \in Lists, NEW p \in Words, Holds(b)
      PROVE  Holds(Add(b, p))
  <2>1. front \o Add(b, p) = Add(front \o b, p) /\ front \o b \in Lists /\ front \o b # <<>>
    <3> USE DEF Add
    <3>1. front \in Seq(Words) /\ b \in Seq(Words) /\ <<p>> \in Seq(Words) /\ front \o b \in Seq(Words)
      BY DEF Lists
    <3>2. Append(b, p) = b \o <<p>>  BY <3>1, AppendIsConcat
    <3>3. front \o (b \o <<p>>) = (front \o b) \o <<p>>  BY <3>1, ConcatAssociative
    <3>4. Append(front \o b, p) = (front \o b) \o <<p>>  BY <3>1, AppendIsConcat
    <3>5. front \o b # <<>>  BY <3>1, ConcatEqualIffEmpty
    <3> QED BY <3>1, <3>2, <3>3, <3>4, <3>5 DEF Lists
  <2>2. Join(front \o Add(b, p), separator) = Longer(Join(front \o b, separator), separator, p)
    <3> DEFINE whole == front \o b
    <3> HIDE DEF whole
    <3>1. whole \in Lists /\ whole # <<>>  BY <2>1 DEF whole
    <3>2. Join(Add(whole, p), separator) = Longer(Join(whole, separator), separator, p)
      BY <3>1, JoinSteps
    <3> QED BY <2>1, <3>2 DEF whole
  <2>3. Join(front, separator) \in Words /\ Join(b, separator) \in Words
    BY JoinSteps
  <2>4. CASE b = <<>>
    <3>1. front \o b = front  BY <2>4 DEF Lists
    <3>2. Join(Add(b, p), separator) = p  BY <2>4, JoinSteps
    <3> QED BY <2>2, <3>1, <3>2
  <2>5. CASE b # <<>>
    <3>1. Join(front \o b, separator) =
            Longer(Join(front, separator), separator, Join(b, separator))
      BY <1>2, <2>5
    <3>2. Join(Add(b, p), separator) = Longer(Join(b, separator), separator, p)
      BY <2>5, JoinSteps
    <3> QED BY <2>2, <2>3, <3>1, <3>2, LongerFacts
  <2> QED BY <2>4, <2>5
<1>3. \A b \in Lists, p \in Words : b \in Q => Add(b, p) \in Q
  <2> HIDE DEF Holds
  <2> QED BY <1>2, TextFacts
<1>4. \A b \in Lists : b \in Q
  <2> HIDE DEF Q
  <2> QED BY <1>1, <1>3, AddInduct DEF Lists
<1> QED BY <1>4

\* A piece of a text between two separators.
IsPiece(piece, separator) == \A i \in DOMAIN piece : piece[i] # separator

\* No text of a list has the separator.
ArePieces(pieces, separator) == \A i \in DOMAIN pieces : IsPiece(pieces[i], separator)

\* IsPiece and ArePieces, one element at a time.
LEMMA PieceSteps ==
  ASSUME NEW separator \in Char
  PROVE  /\ IsPiece(<<>>, separator)
         /\ ArePieces(<<<<>>>>, separator)
         /\ \A t \in Words, c \in Char :
              IsPiece(Add(t, c), separator) <=> IsPiece(t, separator) /\ c # separator
         /\ \A p \in Lists, t \in Words :
              ArePieces(Add(p, t), separator) <=> ArePieces(p, separator) /\ IsPiece(t, separator)
<1> USE DEF Add
<1>1. IsPiece(<<>>, separator) /\ ArePieces(<<<<>>>>, separator)
  BY DEF IsPiece, ArePieces
<1>2. ASSUME NEW S, NEW front \in Seq(S), NEW c \in S
      PROVE  /\ DOMAIN Add(front, c) = (DOMAIN front) \cup {Len(front) + 1}
             /\ Add(front, c)[Len(front) + 1] = c
             /\ \A i \in DOMAIN front : Add(front, c)[i] = front[i]
  OBVIOUS
<1>3. ASSUME NEW t \in Words, NEW c \in Char
      PROVE  IsPiece(Add(t, c), separator) <=> IsPiece(t, separator) /\ c # separator
  <2>1. /\ DOMAIN Add(t, c) = (DOMAIN t) \cup {Len(t) + 1}
        /\ Add(t, c)[Len(t) + 1] = c
        /\ \A i \in DOMAIN t : Add(t, c)[i] = t[i]
    BY <1>2, WordsOfChars
  <2> QED BY <2>1 DEF IsPiece
<1>4. ASSUME NEW p \in Lists, NEW t \in Words
      PROVE  ArePieces(Add(p, t), separator) <=> ArePieces(p, separator) /\ IsPiece(t, separator)
  <2>1. /\ DOMAIN Add(p, t) = (DOMAIN p) \cup {Len(p) + 1}
        /\ Add(p, t)[Len(p) + 1] = t
        /\ \A i \in DOMAIN p : Add(p, t)[i] = p[i]
    BY <1>2 DEF Lists
  <2> QED BY <2>1 DEF ArePieces
<1> QED BY <1>1, <1>3, <1>4

\* A list that is not empty has a last element.
LEMMA ListEmptyOrAppend ==
  ASSUME NEW p \in Lists, p # <<>>
  PROVE  \E front \in Lists, last \in Words : p = Add(front, last)
BY SequenceEmptyOrAppend DEF Lists, Add

\* What Split returns are pieces, and they join to the text.
LEMMA SplitPieces ==
  ASSUME NEW separator \in Char, NEW text \in Words
  PROVE  /\ Split(text, separator) \in Lists \ {<<>>}
         /\ ArePieces(Split(text, separator), separator)
         /\ Join(Split(text, separator), separator) = text
<1> DEFINE Holds(t) == /\ Split(t, separator) # <<>>
                       /\ ArePieces(Split(t, separator), separator)
                       /\ Join(Split(t, separator), separator) = t
           Q == {t \in Words : Holds(t)}
<1>1. Holds(<<>>)
  <2>1. Split(<<>>, separator) = <<<<>>>>  BY SplitSteps
  <2>2. Join(<<<<>>>>, separator) = <<>>  BY JoinSteps, TextFacts
  <2>3. ArePieces(<<<<>>>>, separator)  BY PieceSteps
  <2> QED BY <2>1, <2>2, <2>3
<1>2. ASSUME NEW t \in Words, NEW c \in Char, Holds(t)  PROVE Holds(Add(t, c))
  <2> DEFINE p == Split(t, separator)
             p2 == Split(Add(t, c), separator)
  <2>1. p \in Lists /\ p # <<>> /\ ArePieces(p, separator) /\ Join(p, separator) = t
    BY <1>2, SplitSteps
  <2>2. CASE c = separator
    <3>1. p2 = Add(p, <<>>)  BY <2>2, SplitSteps
    <3> HIDE DEF p, p2
    <3>2. p2 # <<>>  BY <2>1, <3>1, TextFacts
    <3>3. ArePieces(p2, separator)  BY <2>1, <3>1, PieceSteps, TextFacts
    <3>4. Join(p2, separator) = Longer(t, separator, <<>>)
      BY <2>1, <3>1, JoinSteps, TextFacts
    <3>5. Join(p2, separator) = Add(t, c)  BY <2>2, <3>4, LongerFacts, TextFacts
    <3> QED BY <3>2, <3>3, <3>5 DEF p2
  <2>3. CASE c # separator
    <3>1. PICK front \in Lists, last \in Words : p = Add(front, last)
      BY <2>1, ListEmptyOrAppend
    <3>2. p2 = Add(front, Add(last, c))  BY <2>3, <3>1, SplitSteps
    <3>3. Add(last, c) \in Words  BY TextFacts
    <3> HIDE DEF p, p2
    <3>4. p2 # <<>>  BY <3>2, <3>3, TextFacts
    <3>5. ArePieces(p2, separator)
      <4>1. ArePieces(front, separator) /\ IsPiece(last, separator)  BY <2>1, <3>1, PieceSteps
      <4>2. IsPiece(Add(last, c), separator)  BY <2>3, <4>1, PieceSteps
      <4> QED BY <3>2, <3>3, <4>1, <4>2, PieceSteps
    <3>6. Join(p2, separator) = Add(t, c)
      <4>1. CASE front = <<>>
        <5>1. Join(p, separator) = last  BY <3>1, <4>1, JoinSteps
        <5>2. Join(p2, separator) = Add(last, c)  BY <3>2, <3>3, <4>1, JoinSteps
        <5> QED BY <2>1, <5>1, <5>2
      <4>2. CASE front # <<>>
        <5> DEFINE f == Join(front, separator)
        <5>0. f \in Words  BY JoinSteps
        <5>1. t = Longer(f, separator, last)  BY <2>1, <3>1, <4>2, JoinSteps
        <5>2. Join(p2, separator) = Longer(f, separator, Add(last, c))
          BY <3>2, <3>3, <4>2, JoinSteps
        <5> HIDE DEF f
        <5> QED BY <5>0, <5>1, <5>2, LongerFacts
      <4> QED BY <4>1, <4>2
    <3> QED BY <3>4, <3>5, <3>6 DEF p2
  <2> QED BY <2>2, <2>3
<1>3. <<>> \in Q /\ \A t \in Words, c \in Char : t \in Q => Add(t, c) \in Q
  <2> HIDE DEF Holds
  <2> QED BY <1>1, <1>2, TextFacts
<1>4. \A t \in Words : t \in Q
  <2> HIDE DEF Q
  <2> QED BY <1>3, AddInduct, WordsOfChars
<1> QED BY <1>4, SplitSteps

\* Split of a piece, and of a text that goes on with a separator and a piece.
LEMMA SplitOfPiece ==
  ASSUME NEW separator \in Char, NEW text \in Words, NEW piece \in Words,
         IsPiece(piece, separator)
  PROVE  /\ Split(piece, separator) = <<piece>>
         /\ Split(Longer(text, separator, piece), separator) = Add(Split(text, separator), piece)
<1> DEFINE Long(p) == Longer(text, separator, p)
           Holds(p) == IsPiece(p, separator) =>
                         /\ Split(p, separator) = <<p>>
                         /\ Split(Long(p), separator) = Add(Split(text, separator), p)
           Q == {p \in Words : Holds(p)}
<1>1. Holds(<<>>)
  BY SplitSteps, LongerFacts, TextFacts
<1>2. ASSUME NEW p \in Words, NEW c \in Char, Holds(p)  PROVE Holds(Add(p, c))
  <2> SUFFICES ASSUME IsPiece(Add(p, c), separator)
               PROVE  /\ Split(Add(p, c), separator) = <<Add(p, c)>>
                      /\ Split(Long(Add(p, c)), separator) = Add(Split(text, separator), Add(p, c))
    OBVIOUS
  <2>1. IsPiece(p, separator) /\ c # separator
    BY PieceSteps
  <2>2. Split(p, separator) = <<p>> /\ Split(Long(p), separator) = Add(Split(text, separator), p)
    BY <1>2, <2>1
  <2>3. Long(Add(p, c)) = Add(Long(p), c) /\ Long(p) \in Words /\ Add(p, c) \in Words
    <3>1. Long(Add(p, c)) = Add(Long(p), c)  BY LongerFacts
    <3>2. Long(p) \in Words  BY LongerFacts
    <3> QED BY <3>1, <3>2, TextFacts
  <2>4. Split(Add(p, c), separator) = <<Add(p, c)>>
    <3>1. Split(p, separator) = Add(<<>>, p)  BY <2>2, TextFacts
    <3>2. Split(Add(p, c), separator) = Add(<<>>, Add(p, c))
      BY <2>1, <3>1, SplitSteps, TextFacts
    <3> QED BY <2>3, <3>2, TextFacts
  <2>5. Split(Long(Add(p, c)), separator) = Add(Split(text, separator), Add(p, c))
    <3>1. Split(text, separator) \in Lists  BY SplitSteps
    <3> HIDE DEF Long
    <3> QED BY <2>1, <2>2, <2>3, <3>1, SplitSteps
  <2> QED BY <2>4, <2>5
<1>3. <<>> \in Q /\ \A p \in Words, c \in Char : p \in Q => Add(p, c) \in Q
  <2> HIDE DEF Holds
  <2> QED BY <1>1, <1>2, TextFacts
<1>4. \A p \in Words : p \in Q
  <2> HIDE DEF Q
  <2> QED BY <1>3, AddInduct, WordsOfChars
<1> QED BY <1>4

\* Pieces that are joined are found again.
LEMMA SplitOfJoin ==
  ASSUME NEW separator \in Char, NEW pieces \in Lists, pieces # <<>>,
         ArePieces(pieces, separator)
  PROVE  Split(Join(pieces, separator), separator) = pieces
<1> DEFINE Holds(ps) == ps # <<>> /\ ArePieces(ps, separator) =>
                          Split(Join(ps, separator), separator) = ps
           Q == {ps \in Lists : Holds(ps)}
<1>1. <<>> \in Q
  BY TextFacts
<1>2. ASSUME NEW ps \in Lists, NEW p \in Words, Holds(ps)  PROVE Holds(Add(ps, p))
  <2> SUFFICES ASSUME ArePieces(Add(ps, p), separator)
               PROVE  Split(Join(Add(ps, p), separator), separator) = Add(ps, p)
    OBVIOUS
  <2>1. ArePieces(ps, separator) /\ IsPiece(p, separator)
    BY PieceSteps
  <2>2. CASE ps = <<>>
    <3>1. Join(Add(ps, p), separator) = p  BY <2>2, JoinSteps
    <3>2. Split(p, separator) = Add(<<>>, p)  BY <2>1, SplitOfPiece, TextFacts
    <3> QED BY <2>2, <3>1, <3>2
  <2>3. CASE ps # <<>>
    <3>1. Join(Add(ps, p), separator) = Longer(Join(ps, separator), separator, p)
      BY <2>3, JoinSteps
    <3>2. Join(ps, separator) \in Words  BY JoinSteps
    <3>3. Split(Join(ps, separator), separator) = ps  BY <1>2, <2>1, <2>3
    <3> QED BY <2>1, <3>1, <3>2, <3>3, SplitOfPiece
  <2> QED BY <2>2, <2>3
<1>3. \A ps \in Lists, p \in Words : ps \in Q => Add(ps, p) \in Q
  <2> HIDE DEF Holds
  <2> QED BY <1>2, TextFacts
<1>4. \A ps \in Lists : ps \in Q
  <2> HIDE DEF Q
  <2> QED BY <1>1, <1>3, AddInduct DEF Lists
<1> QED BY <1>4

-----------------------------------------------------------------------------
(* The common name *)

\* Nine pieces are four and five.
LEMMA FirstAndLast ==
  ASSUME NEW S, NEW p \in Seq(S), Len(p) = 9
  PROVE  /\ SubSeq(p, 1, 4) \in Seq(S) /\ Len(SubSeq(p, 1, 4)) = 4
         /\ SubSeq(p, 5, 9) \in Seq(S) /\ Len(SubSeq(p, 5, 9)) = 5
         /\ p = SubSeq(p, 1, 4) \o SubSeq(p, 5, 9)
         /\ SubSeq(p, 1, 4) = <<p[1], p[2], p[3], p[4]>>
<1>1. /\ SubSeq(p, 1, 4) \in Seq(S) /\ Len(SubSeq(p, 1, 4)) = 4
      /\ SubSeq(p, 5, 9) \in Seq(S) /\ Len(SubSeq(p, 5, 9)) = 5
  <2>1. /\ \A i \in 1 .. 4 : p[i] \in S
        /\ \A i \in 5 .. 9 : p[i] \in S
    <3>1. \A i \in 1 .. Len(p) : p[i] \in S
      BY ElementOfSeq
    <3>2. 1 .. Len(p) = 1 .. 9
      OBVIOUS
    <3>3. \A i \in 1 .. 9 : p[i] \in S
      BY <3>1, <3>2, Zenon
    <3>4. (\A i \in 1 .. 4 : i \in 1 .. 9) /\ (\A i \in 5 .. 9 : i \in 1 .. 9)
      OBVIOUS
    <3> QED BY <3>3, <3>4, Zenon
  <2>2. SubSeq(p, 1, 4) \in Seq(S) /\ SubSeq(p, 5, 9) \in Seq(S)
    BY <2>1, SubSeqProperties
  <2>3. Len(SubSeq(p, 1, 4)) = 4 /\ Len(SubSeq(p, 5, 9)) = 5
    <3>1. /\ Len(SubSeq(p, 1, 4)) = IF 1 <= 4 THEN 4 - 1 + 1 ELSE 0
          /\ Len(SubSeq(p, 5, 9)) = IF 5 <= 9 THEN 9 - 5 + 1 ELSE 0
      BY <2>1, SubSeqProperties
    <3> QED BY <3>1
  <2> QED BY <2>1, <2>2, <2>3
<1>2. p = SubSeq(p, 1, 4) \o SubSeq(p, 5, 9)
  OBVIOUS
<1>3. /\ SubSeq(p, 1, 4)[1] = p[1] /\ SubSeq(p, 1, 4)[2] = p[2]
      /\ SubSeq(p, 1, 4)[3] = p[3] /\ SubSeq(p, 1, 4)[4] = p[4]
  OBVIOUS
<1>4. \A q \in Seq(S) : Len(q) = 4 => q = <<q[1], q[2], q[3], q[4]>>
  OBVIOUS
<1>5. SubSeq(p, 1, 4) = <<p[1], p[2], p[3], p[4]>>
  BY <1>1, <1>3, <1>4, Zenon
<1> QED BY <1>1, <1>2, <1>5

\* One and four are five.
LEMMA FiveInARow ==
  ASSUME NEW S, NEW f \in S, NEW a \in S, NEW b \in S, NEW c \in S, NEW d \in S
  PROVE  <<f>> \o <<a, b, c, d>> = <<f, a, b, c, d>>
<1> DEFINE g == <<a, b, c, d>>
           h == <<f>> \o g
<1>1. g \in Seq(S) /\ Len(g) = 4 /\ g[1] = a /\ g[2] = b /\ g[3] = c /\ g[4] = d
  OBVIOUS
<1> HIDE DEF g
<1>2. /\ h \in Seq(S) /\ Len(h) = 5 /\ h[1] = f
      /\ h[2] = g[1] /\ h[3] = g[2] /\ h[4] = g[3] /\ h[5] = g[4]
  <2> DEFINE e == <<f>>
  <2>1. e \in Seq(S) /\ Len(e) = 1 /\ e[1] = f
    OBVIOUS
  <2>2. h = e \o g
    OBVIOUS
  <2> HIDE DEF e, h
  <2>3. /\ e \o g \in Seq(S) /\ Len(e \o g) = Len(e) + Len(g)
        /\ \A i \in 1 .. Len(e) + Len(g) :
             (e \o g)[i] = IF i <= Len(e) THEN e[i] ELSE g[i - Len(e)]
    BY <1>1, <2>1, ConcatProperties
  <2>4. Len(e) + Len(g) = 5
    BY <1>1, <2>1
  <2>5. /\ (e \o g)[1] = f /\ (e \o g)[2] = g[1] /\ (e \o g)[3] = g[2]
        /\ (e \o g)[4] = g[3] /\ (e \o g)[5] = g[4]
    BY <2>1, <2>3, <2>4
  <2> QED BY <2>2, <2>3, <2>4, <2>5
<1> HIDE DEF h
<1>3. h = <<h[1], h[2], h[3], h[4], h[5]>>
  BY <1>2
<1>4. h = <<f, a, b, c, d>>
  BY <1>1, <1>2, <1>3, Zenon
<1> QED BY <1>4 DEF g, h

\* Joining the last five of nine pieces first changes nothing: the uuid of
\* from_str.
LEMMA RejoinNine ==
  ASSUME NEW separator \in Char, NEW parts \in Lists, Len(parts) = 9
  PROVE  Join(<<parts[1], parts[2], parts[3], parts[4],
                Join(SubSeq(parts, 5, 9), separator)>>, separator) = Join(parts, separator)
<1> DEFINE front == SubSeq(parts, 1, 4)
           back  == SubSeq(parts, 5, 9)
           last  == Join(back, separator)
<1>1. front \in Lists /\ back \in Lists /\ Len(front) = 4 /\ Len(back) = 5 /\ parts = front \o back
  BY FirstAndLast DEF Lists
<1>3. front = <<parts[1], parts[2], parts[3], parts[4]>>
  BY FirstAndLast DEF Lists
<1> HIDE DEF front, back
<1>4. front # <<>> /\ back # <<>>
  <2>1. \A q \in Lists : q # <<>> <=> Len(q) # 0
    BY DEF Lists
  <2>2. Len(front) # 0 /\ Len(back) # 0
    BY <1>1
  <2> QED BY <1>1, <2>1, <2>2, Zenon
<1>5. last \in Words /\ <<last>> \in Lists /\ <<last>> # <<>> /\ Join(<<last>>, separator) = last
  BY <1>1, JoinSteps, TextFacts
<1> HIDE DEF last
<1>6. <<parts[1], parts[2], parts[3], parts[4], last>> = front \o <<last>>
  BY <1>3
<1>7. Join(front \o <<last>>, separator) = Longer(Join(front, separator), separator, last)
  BY <1>1, <1>4, <1>5, JoinConcat
<1>8. Join(front \o back, separator) = Longer(Join(front, separator), separator, last)
  BY <1>1, <1>4, JoinConcat DEF last
<1> QED BY <1>1, <1>6, <1>7, <1>8 DEF last, back

\* A common name that could be parsed is rendered as it was.
LEMMA CommonNameRendered ==
  ASSUME NEW text \in Words
  PROVE  CommonNameError(text) = "Ok" => RenderCommonName(CommonName(text)) = text
<1>1. "-" \in Char
  BY TextsAreWords
<1>2. Split(text, "-") \in Lists /\ Join(Split(text, "-"), "-") = text
  BY <1>1, SplitPieces
<1>3. CommonNameError(text) = "Ok" => Len(Split(text, "-")) = 9
  <2>1. Len(SegmentLengths) = 9
    BY DEF SegmentLengths
  <2> QED BY <2>1, Zenon DEF CommonNameError
<1> QED BY <1>1, <1>2, <1>3, RejoinNine, Zenon DEF RenderCommonName, CommonName

-----------------------------------------------------------------------------
(* The name of a pack: a source and four pieces *)

\* A text, and four more with a separator before each.
FourMore(f, bar, a, b, c, d) ==
  Longer(Longer(Longer(Longer(f, bar, a), bar, b), bar, c), bar, d)

\* A list, and four more elements.
AddFour(p, a, b, c, d) == Add(Add(Add(Add(p, a), b), c), d)

\* Joining a list joins its last four elements to the others.
LEMMA JoinFour ==
  ASSUME NEW bar \in Char, NEW p \in Lists, p # <<>>,
         NEW a \in Words, NEW b \in Words, NEW c \in Words, NEW d \in Words
  PROVE  /\ AddFour(p, a, b, c, d) \in Lists
         /\ Join(AddFour(p, a, b, c, d), bar) = FourMore(Join(p, bar), bar, a, b, c, d)
<1>1. Add(p, a) \in Lists /\ Add(p, a) # <<>>
  BY TextFacts
<1>2. Add(Add(p, a), b) \in Lists /\ Add(Add(p, a), b) # <<>>
  BY <1>1, TextFacts
<1>3. Add(Add(Add(p, a), b), c) \in Lists /\ Add(Add(Add(p, a), b), c) # <<>>
  BY <1>2, TextFacts
<1>4. AddFour(p, a, b, c, d) \in Lists
  BY <1>3, TextFacts DEF AddFour
<1>5. Join(Add(p, a), bar) = Longer(Join(p, bar), bar, a)
  BY JoinSteps
<1>6. Join(Add(Add(p, a), b), bar) = Longer(Join(Add(p, a), bar), bar, b)
  BY <1>1, JoinSteps
<1>7. Join(Add(Add(Add(p, a), b), c), bar) = Longer(Join(Add(Add(p, a), b), bar), bar, c)
  BY <1>2, JoinSteps
<1>8. Join(Add(Add(Add(Add(p, a), b), c), d), bar) = Longer(Join(Add(Add(Add(p, a), b), c), bar), bar, d)
  BY <1>3, JoinSteps
<1> QED BY <1>4, <1>5, <1>6, <1>7, <1>8, Zenon DEF FourMore, AddFour

\* A list without its last four elements, and these.
Before(p) == SubSeq(p, 1, Len(p) - 4)
Behind(p) == SubSeq(p, Len(p) - 3, Len(p))

\* The last four elements of a list that four were added to.
LEMMA LastFour ==
  ASSUME NEW front \in Lists, front # <<>>,
         NEW a \in Words, NEW b \in Words, NEW c \in Words, NEW d \in Words
  PROVE  /\ Len(AddFour(front, a, b, c, d)) \in Nat
         /\ ~ (Len(AddFour(front, a, b, c, d)) < 5)
         /\ Before(AddFour(front, a, b, c, d)) = front
         /\ Behind(AddFour(front, a, b, c, d)) = <<a, b, c, d>>
<1> DEFINE pieces == AddFour(front, a, b, c, d)
           n == Len(pieces)
           m == Len(front)
<1>1. m \in Nat /\ m # 0
  BY DEF Lists
<1>2. /\ pieces \in Seq(Words) /\ n = m + 4
      /\ pieces[m + 1] = a /\ pieces[m + 2] = b /\ pieces[m + 3] = c /\ pieces[m + 4] = d
      /\ \A i \in 1 .. m : pieces[i] = front[i]
  <2> DEFINE p1 == Add(front, a)  p2 == Add(p1, b)  p3 == Add(p2, c)
  <2>1. \A p \in Seq(Words), w \in Words :
          /\ Add(p, w) \in Seq(Words) /\ Len(Add(p, w)) = Len(p) + 1 /\ Add(p, w)[Len(p) + 1] = w
          /\ \A i \in 1 .. Len(p) : Add(p, w)[i] = p[i]
    BY AppendProperties DEF Add
  <2>2. front \in Seq(Words)
    BY DEF Lists
  <2>3. /\ p1 \in Seq(Words) /\ Len(p1) = Len(front) + 1 /\ p1[Len(front) + 1] = a
        /\ \A i \in 1 .. Len(front) : p1[i] = front[i]
    BY <2>1, <2>2
  <2> HIDE DEF p1
  <2>4. /\ p2 \in Seq(Words) /\ Len(p2) = Len(p1) + 1 /\ p2[Len(p1) + 1] = b
        /\ \A i \in 1 .. Len(p1) : p2[i] = p1[i]
    BY <2>1, <2>3
  <2> HIDE DEF p2
  <2>5. /\ p3 \in Seq(Words) /\ Len(p3) = Len(p2) + 1 /\ p3[Len(p2) + 1] = c
        /\ \A i \in 1 .. Len(p2) : p3[i] = p2[i]
    BY <2>1, <2>4
  <2> HIDE DEF p3
  <2>6. /\ pieces \in Seq(Words) /\ Len(pieces) = Len(p3) + 1 /\ pieces[Len(p3) + 1] = d
        /\ \A i \in 1 .. Len(p3) : pieces[i] = p3[i]
    <3>1. pieces = Add(p3, d)  BY DEF p1, p2, p3, AddFour
    <3> HIDE DEF pieces
    <3> QED BY <2>1, <2>5, <3>1
  <2>0. n = Len(pieces) /\ m = Len(front)
    OBVIOUS
  <2> HIDE DEF pieces, m, n
  <2>7. Len(p1) = m + 1 /\ Len(p2) = m + 2 /\ Len(p3) = m + 3 /\ n = m + 4
    <3>1. Len(p1) = m + 1  BY <2>0, <2>3
    <3>2. Len(p2) = m + 2  BY <1>1, <2>4, <3>1
    <3>3. Len(p3) = m + 3  BY <1>1, <2>5, <3>2
    <3> QED BY <1>1, <2>0, <2>6, <3>1, <3>2, <3>3
  <2>8. /\ m + 1 \in 1 .. m + 1 /\ m + 1 \in 1 .. m + 2 /\ m + 1 \in 1 .. m + 3
        /\ m + 2 \in 1 .. m + 2 /\ m + 2 \in 1 .. m + 3 /\ m + 3 \in 1 .. m + 3
        /\ \A i \in 1 .. m : i \in 1 .. m + 1 /\ i \in 1 .. m + 2 /\ i \in 1 .. m + 3
        /\ (m + 1) + 1 = m + 2 /\ (m + 2) + 1 = m + 3 /\ (m + 3) + 1 = m + 4
    BY <1>1
  <2>9. pieces[m + 1] = a /\ pieces[m + 2] = b /\ pieces[m + 3] = c /\ pieces[m + 4] = d
    <3>1. p1[m + 1] = a /\ p2[m + 2] = b /\ p3[m + 3] = c /\ pieces[m + 4] = d
      BY <2>0, <2>3, <2>4, <2>5, <2>6, <2>7, <2>8
    <3>2. pieces[m + 3] = c  BY <2>6, <2>7, <2>8, <3>1
    <3>3. pieces[m + 2] = b  BY <2>5, <2>6, <2>7, <2>8, <3>1
    <3>4. pieces[m + 1] = a  BY <2>4, <2>5, <2>6, <2>7, <2>8, <3>1
    <3> QED BY <3>1, <3>2, <3>3, <3>4
  <2>10. \A i \in 1 .. m : pieces[i] = front[i]
    BY <2>0, <2>3, <2>4, <2>5, <2>6, <2>7, <2>8
  <2> QED BY <2>6, <2>7, <2>9, <2>10
<1>0. n = Len(pieces) /\ m = Len(front) /\ front \in Seq(Words)
  BY DEF Lists
<1> HIDE DEF pieces, m, n
<1>3. SubSeq(pieces, 1, n - 4) = front
  <2>1. n - 4 = m  BY <1>1, <1>2
  <2>2. Len(SubSeq(pieces, 1, m)) = m /\ SubSeq(pieces, 1, m) \in Seq(Words)
    BY <1>0, <1>1, <1>2, SubSeqProperties
  <2>3. \A i \in 1 .. m : SubSeq(pieces, 1, m)[i] = front[i]
    BY <1>0, <1>1, <1>2
  <2> QED BY <1>0, <2>1, <2>2, <2>3, SeqEqual
<1>4. SubSeq(pieces, n - 3, n) = <<a, b, c, d>>
  <2>1. n - 3 = m + 1 /\ n = m + 4  BY <1>1, <1>2
  <2>2. /\ Len(SubSeq(pieces, m + 1, m + 4)) = 4
        /\ SubSeq(pieces, m + 1, m + 4) \in Seq(Words)
        /\ SubSeq(pieces, m + 1, m + 4)[1] = a /\ SubSeq(pieces, m + 1, m + 4)[2] = b
        /\ SubSeq(pieces, m + 1, m + 4)[3] = c /\ SubSeq(pieces, m + 1, m + 4)[4] = d
    BY <1>0, <1>1, <1>2
  <2>3. \A q \in Seq(Words) : Len(q) = 4 => q = <<q[1], q[2], q[3], q[4]>>
    OBVIOUS
  <2> QED BY <2>1, <2>2, <2>3, Zenon
<1>5. n \in Nat /\ ~ (n < 5)
  BY <1>1, <1>2
<1> QED BY <1>3, <1>4, <1>5, Zenon DEF pieces, n, Before, Behind

\* The separators of the code, out of the provers' sight.
AtBars(text)     == Split(text, "_")
WithBars(pieces) == Join(pieces, "_")

\* RightPieces keeps four pieces and joins the others again, as rsplitn does.
LEMMA RightPiecesOf ==
  ASSUME NEW text, NEW front \in Lists, front # <<>>,
         NEW a \in Words, NEW b \in Words, NEW c \in Words, NEW d \in Words,
         AtBars(text) = AddFour(front, a, b, c, d)
  PROVE  RightPieces(text) = <<WithBars(front), a, b, c, d>>
<1> DEFINE pieces == AddFour(front, a, b, c, d)
           n == Len(pieces)
<1>1. n \in Nat /\ ~ (n < 5)
  BY LastFour
<1>2. Before(pieces) = front /\ Behind(pieces) = <<a, b, c, d>>
  BY LastFour
<1>3. "_" \in Char
  BY TextsAreWords
<1>4. WithBars(front) \in Words
  BY <1>3, JoinSteps DEF WithBars
<1>5. <<WithBars(front)>> \o <<a, b, c, d>> = <<WithBars(front), a, b, c, d>>
  BY <1>4, FiveInARow
<1>6. (n < 5) = FALSE
  BY <1>1
<1>7. Split(text, "_") = pieces
  BY Zenon DEF AtBars
<1> QED BY <1>2, <1>5, <1>6, <1>7, Zenon DEF RightPieces, Before, Behind, WithBars

\* A list with one more element.
LEMMA AddedLength ==
  ASSUME NEW p \in Lists, NEW t \in Words
  PROVE  Len(p) \in Nat /\ Len(Add(p, t)) = Len(p) + 1
BY DEF Lists, Add

\* A list of five elements or more ends in four of its elements.
LEMMA FourAtTheEnd ==
  ASSUME NEW p \in Lists, ~ (Len(p) < 5)
  PROVE  \E front \in Lists : front # <<>> /\
           \E a, b, c, d \in Words : p = AddFour(front, a, b, c, d)
<1>1. \A q \in Lists : Len(q) \in Nat /\ (q # <<>> <=> Len(q) # 0)
  BY DEF Lists
<1>2. ASSUME NEW q \in Lists, NEW k \in Nat, ~ (Len(q) < k + 1)
      PROVE  \E r \in Lists, w \in Words : q = Add(r, w) /\ ~ (Len(r) < k)
  <2>1. Len(q) \in Nat /\ Len(q) # 0
    BY <1>1, <1>2
  <2>2. PICK r \in Lists, w \in Words : q = Add(r, w)
    BY <1>1, <2>1, ListEmptyOrAppend
  <2>3. Len(r) \in Nat /\ Len(Add(r, w)) = Len(r) + 1
    BY AddedLength
  <2> QED BY <1>2, <2>1, <2>2, <2>3
<1>3. PICK p3 \in Lists, d \in Words : p = Add(p3, d) /\ ~ (Len(p3) < 4)
  <2>1. ~ (Len(p) < 4 + 1)  OBVIOUS
  <2> QED BY <1>2, <2>1
<1>4. PICK p2 \in Lists, c \in Words : p3 = Add(p2, c) /\ ~ (Len(p2) < 3)
  <2>1. ~ (Len(p3) < 3 + 1)  BY <1>3
  <2> QED BY <1>2, <2>1
<1>5. PICK p1 \in Lists, b \in Words : p2 = Add(p1, b) /\ ~ (Len(p1) < 2)
  <2>1. ~ (Len(p2) < 2 + 1)  BY <1>4
  <2> QED BY <1>2, <2>1
<1>6. PICK front \in Lists, a \in Words : p1 = Add(front, a) /\ ~ (Len(front) < 1)
  <2>1. ~ (Len(p1) < 1 + 1)  BY <1>5
  <2> QED BY <1>2, <2>1
<1>7. front # <<>>
  BY <1>1, <1>6
<1> QED BY <1>3, <1>4, <1>5, <1>6, <1>7 DEF AddFour

\* A text is a source and four pieces.
NameParts(text, f, a, b, c, d) ==
  /\ f \in Words /\ a \in Words /\ b \in Words /\ c \in Words /\ d \in Words
  /\ IsPiece(a, "_") /\ IsPiece(b, "_") /\ IsPiece(c, "_") /\ IsPiece(d, "_")
  /\ text = FourMore(f, "_", a, b, c, d)

\* The last four elements of a list of pieces are pieces.
LEMMA ArePiecesOfFour ==
  ASSUME NEW bar \in Char, NEW p \in Lists,
         NEW a \in Words, NEW b \in Words, NEW c \in Words, NEW d \in Words,
         ArePieces(AddFour(p, a, b, c, d), bar)
  PROVE  IsPiece(a, bar) /\ IsPiece(b, bar) /\ IsPiece(c, bar) /\ IsPiece(d, bar)
<1>1. Add(p, a) \in Lists /\ Add(Add(p, a), b) \in Lists /\ Add(Add(Add(p, a), b), c) \in Lists
  BY TextFacts
<1>2. \A q \in Lists, t \in Words : ArePieces(Add(q, t), bar) <=> ArePieces(q, bar) /\ IsPiece(t, bar)
  BY PieceSteps
<1>3. ArePieces(Add(Add(Add(Add(p, a), b), c), d), bar)
  BY DEF AddFour
<1> QED BY <1>1, <1>2, <1>3, Zenon

\* Splitting a text that four pieces were added to gives these four last.
LEMMA SplitOfFour ==
  ASSUME NEW bar \in Char, NEW f \in Words,
         NEW a \in Words, NEW b \in Words, NEW c \in Words, NEW d \in Words,
         IsPiece(a, bar), IsPiece(b, bar), IsPiece(c, bar), IsPiece(d, bar)
  PROVE  Split(FourMore(f, bar, a, b, c, d), bar) = AddFour(Split(f, bar), a, b, c, d)
<1> DEFINE t1 == Longer(f, bar, a)
           t2 == Longer(t1, bar, b)
           t3 == Longer(t2, bar, c)
           t4 == Longer(t3, bar, d)
<1>1. t1 \in Words /\ Split(t1, bar) = Add(Split(f, bar), a)
  BY LongerFacts, SplitOfPiece
<1> HIDE DEF t1
<1>2. t2 \in Words /\ Split(t2, bar) = Add(Split(t1, bar), b)
  BY <1>1, LongerFacts, SplitOfPiece
<1> HIDE DEF t2
<1>3. t3 \in Words /\ Split(t3, bar) = Add(Split(t2, bar), c)
  BY <1>2, LongerFacts, SplitOfPiece
<1> HIDE DEF t3
<1>4. Split(t4, bar) = Add(Split(t3, bar), d)
  BY <1>3, SplitOfPiece
<1> QED BY <1>1, <1>2, <1>3, <1>4, Zenon DEF t1, t2, t3, t4, FourMore, AddFour

\* A text with four bars or more is a source name and four pieces.
LEMMA PartsOfName ==
  ASSUME NEW text \in Words
  PROVE  ~ (Len(RightPieces(text)) < 5) =>
           \E f, a, b, c, d \in Words : NameParts(text, f, a, b, c, d)
<1>1. "_" \in Char
  BY TextsAreWords
<1> DEFINE pieces == Split(text, "_")
<1>2. /\ pieces \in Lists /\ ArePieces(pieces, "_") /\ Join(pieces, "_") = text
  BY <1>1, SplitPieces
<1>3. Len(pieces) < 5 => RightPieces(text) = pieces
  BY Zenon DEF RightPieces
<1> HIDE DEF pieces
<1>4. ASSUME ~ (Len(pieces) < 5)
      PROVE  \E f, a, b, c, d \in Words : NameParts(text, f, a, b, c, d)
  <2>1. PICK front \in Lists : front # <<>> /\
           \E a, b, c, d \in Words : pieces = AddFour(front, a, b, c, d)
    BY <1>2, <1>4, FourAtTheEnd
  <2>2. PICK a, b, c, d \in Words : pieces = AddFour(front, a, b, c, d)
    BY <2>1
  <2>3. IsPiece(a, "_") /\ IsPiece(b, "_") /\ IsPiece(c, "_") /\ IsPiece(d, "_")
    BY <1>1, <1>2, <2>2, ArePiecesOfFour
  <2>4. text = FourMore(Join(front, "_"), "_", a, b, c, d)
    <3>1. \A bar \in Char :
            Join(AddFour(front, a, b, c, d), bar) = FourMore(Join(front, bar), bar, a, b, c, d)
      BY <2>1, JoinFour
    <3> QED BY <1>1, <1>2, <2>2, <3>1, Zenon
  <2>5. Join(front, "_") \in Words
    BY <1>1, JoinSteps
  <2> QED BY <2>3, <2>4, <2>5 DEF NameParts
<1> QED BY <1>3, <1>4, Zenon

\* And RightPieces are these.
LEMMA PiecesOfName ==
  ASSUME NEW text, NEW f, NEW a, NEW b, NEW c, NEW d,
         NameParts(text, f, a, b, c, d)
  PROVE  RightPieces(text) = <<f, a, b, c, d>>
<1>1. "_" \in Char
  BY TextsAreWords
<1>2. f \in Words /\ a \in Words /\ b \in Words /\ c \in Words /\ d \in Words
  BY DEF NameParts
<1>3. AtBars(text) = AddFour(AtBars(f), a, b, c, d)
  <2>1. \A bar \in Char :
          IsPiece(a, bar) /\ IsPiece(b, bar) /\ IsPiece(c, bar) /\ IsPiece(d, bar)
            => Split(FourMore(f, bar, a, b, c, d), bar) = AddFour(Split(f, bar), a, b, c, d)
    BY <1>2, SplitOfFour
  <2>2. IsPiece(a, "_") /\ IsPiece(b, "_") /\ IsPiece(c, "_") /\ IsPiece(d, "_")
    BY DEF NameParts
  <2>3. Split(FourMore(f, "_", a, b, c, d), "_") = AddFour(Split(f, "_"), a, b, c, d)
    BY <1>1, <2>1, <2>2, Zenon
  <2>4. text = FourMore(f, "_", a, b, c, d)
    BY Zenon DEF NameParts
  <2> QED BY <2>3, <2>4, Zenon DEF AtBars
<1>4. AtBars(f) \in Lists /\ AtBars(f) # <<>> /\ WithBars(AtBars(f)) = f
  BY <1>1, <1>2, SplitPieces DEF AtBars, WithBars
<1>5. RightPieces(text) = <<WithBars(AtBars(f)), a, b, c, d>>
  BY <1>2, <1>3, <1>4, RightPiecesOf
<1> QED BY <1>4, <1>5, Zenon

\* A number that is rendered without a sign and parsed again.
LEMMA CountReadBack ==
  ASSUME NEW n \in Nat, n \in Int32
  PROVE  /\ Decimal(n) \in Words /\ IsPiece(Decimal(n), "_")
         /\ IsI32(Decimal(n)) /\ I32Value(Decimal(n)) = n
<1> DEFINE t == DecimalDigits[n]
<1>1. t \in Seq(Digits) /\ t # <<>> /\ Number(t) = n
  BY DecimalReadBack
<1>2. Decimal(n) = t
  BY DEF Decimal
<1> HIDE DEF t
<1>3. \A i \in DOMAIN t : t[i] \in Digits
  BY <1>1, ElementOfSeq
<1>4. t[1] \in Digits
  <2>1. 1 \in DOMAIN t
    BY <1>1
  <2> QED BY <1>3, <2>1
<1>5. "_" \notin Digits /\ "-" \notin Digits /\ "+" \notin Digits
  BY DEF Digits
<1>6. \A i \in DOMAIN t : t[i] # "_"
  BY <1>3, <1>5, Zenon
<1>7. t[1] # "-" /\ t[1] # "+"
  BY <1>4, <1>5, Zenon
<1>8. Unsigned(t) = t
  BY <1>7, Zenon DEF Unsigned
<1>9. I32Value(t) = n
  BY <1>1, <1>7, <1>8, Zenon DEF I32Value
<1>10. AllDigits(t)
  BY <1>3 DEF AllDigits, ToSet
<1>11. IsI32(t)
  BY <1>1, <1>8, <1>9, <1>10, Zenon DEF IsI32
<1>12. t \in Words
  BY <1>1, TextsAreWords
<1>13. IsPiece(t, "_")
  BY <1>6, Zenon DEF IsPiece
<1> QED BY <1>2, <1>9, <1>11, <1>12, <1>13, Zenon

\* Five pieces are one and four.
LEMMA FourAfterOne ==
  ASSUME NEW f \in Words, NEW a \in Words, NEW b \in Words, NEW c \in Words, NEW d \in Words
  PROVE  /\ <<f, a, b, c, d>> = AddFour(<<f>>, a, b, c, d)
         /\ <<f>> \in Lists /\ <<f>> # <<>>
<1>1. <<f, a, b, c, d>> = AddFour(<<f>>, a, b, c, d)
  BY DEF AddFour, Add
<1> QED BY <1>1, TextFacts

\* The errors of a name in its five pieces, and its parts.
LEMMA PackOfPieces ==
  ASSUME NEW text, NEW f, NEW a, NEW b, NEW c, NEW d,
         RightPieces(text) = <<f, a, b, c, d>>
  PROVE  /\ PackFilenameError(text) = IF f = <<>> THEN "InvalidPackFilename"
                                      ELSE IF ~ IsI32(d) THEN "InvalidPackCount"
                                      ELSE CommonNameError(c)
         /\ PackFilename(text) =
              [source_name |-> f, from_party |-> a, to_party |-> b,
               common_name |-> CommonName(c), pack_count |-> I32Value(d)]
<1> DEFINE p == <<f, a, b, c, d>>
<1>1. /\ p[1] = f /\ p[2] = a /\ p[3] = b /\ p[4] = c /\ p[5] = d
      /\ (Len(p) < 5) = FALSE
  OBVIOUS
<1> HIDE DEF p
<1>2. RightPieces(text) = p
  BY DEF p
<1> QED BY <1>1, <1>2, Zenon DEF PackFilenameError, PackFilename

\* The rendered name, out of the provers' sight.
FourBars(f, a, b, c, d) == FourMore(f, "_", a, b, c, d)

\* What is parsed of a name, rendered.
LEMMA NameRendered ==
  ASSUME NEW name, NEW f \in Words, NEW a \in Words, NEW b \in Words, NEW c \in Words,
         NEW n, Decimal(n) \in Words,
         name = [source_name |-> f, from_party |-> a, to_party |-> b,
                 common_name |-> CommonName(c), pack_count |-> n],
         RenderCommonName(CommonName(c)) = c
  PROVE  RenderPackFilename(name) = FourBars(f, a, b, c, Decimal(n))
<1> DEFINE d == Decimal(n)
<1>1. "_" \in Char
  BY TextsAreWords
<1>2. WithBars(<<f>>) = f /\ <<f>> \in Lists /\ <<f>> # <<>>
  BY <1>1, JoinSteps, TextFacts DEF WithBars
<1>3. WithBars(AddFour(<<f>>, a, b, c, d)) = FourBars(WithBars(<<f>>), a, b, c, d)
  <2>1. \A bar \in Char :
          Join(AddFour(<<f>>, a, b, c, d), bar) = FourMore(Join(<<f>>, bar), bar, a, b, c, d)
    BY <1>2, JoinFour
  <2> QED BY <1>1, <2>1, Zenon DEF WithBars, FourBars
<1>4. <<f, a, b, c, d>> = AddFour(<<f>>, a, b, c, d)
  BY FourAfterOne
<1>5. /\ name.source_name = f /\ name.from_party = a /\ name.to_party = b
      /\ name.common_name = CommonName(c) /\ name.pack_count = n
  OBVIOUS
<1>6. RenderPackFilename(name) = WithBars(<<f, a, b, c, d>>)
  BY <1>5, Zenon DEF RenderPackFilename, WithBars
<1> QED BY <1>2, <1>3, <1>4, <1>6, Zenon

\* A name whose count is positive survives the rendering.
LEMMA NameReadBack ==
  ASSUME NEW text \in Words, NEW f, NEW a, NEW b, NEW c, NEW d,
         NameParts(text, f, a, b, c, d),
         PackFilenameError(text) = "Ok", PackFilename(text).pack_count > 0
  PROVE  LET rendered == RenderPackFilename(PackFilename(text))
         IN  /\ PackFilenameError(rendered) = "Ok"
             /\ PackFilename(rendered) = PackFilename(text)
             /\ RenderCommonName(CommonName(c)) = c
<1> DEFINE n == I32Value(d)
           name == PackFilename(text)
           rendered == RenderPackFilename(name)
<1>1. f \in Words /\ a \in Words /\ b \in Words /\ c \in Words /\ d \in Words
  BY DEF NameParts
<1>2. RightPieces(text) = <<f, a, b, c, d>>
  BY PiecesOfName
<1>3. f # <<>> /\ IsI32(d) /\ CommonNameError(c) = "Ok"
  <2>1. PackFilenameError(text) = IF f = <<>> THEN "InvalidPackFilename"
                                  ELSE IF ~ IsI32(d) THEN "InvalidPackCount"
                                  ELSE CommonNameError(c)
    BY <1>2, PackOfPieces
  <2> QED BY <2>1
<1>4. name = [source_name |-> f, from_party |-> a, to_party |-> b,
              common_name |-> CommonName(c), pack_count |-> n]
  BY <1>2, PackOfPieces
<1>5. n \in Int32 /\ n \in Nat
  <2>1. n \in Int32
    BY <1>3, Zenon DEF IsI32
  <2>2. name.pack_count = n
    BY <1>4
  <2> HIDE DEF n, name
  <2>3. n > 0  BY <2>2 DEF name
  <2> QED BY <2>1, <2>3 DEF Int32
<1> HIDE DEF n, name
<1>6. RenderCommonName(CommonName(c)) = c
  BY <1>1, <1>3, CommonNameRendered
<1>7. /\ Decimal(n) \in Words /\ IsI32(Decimal(n)) /\ I32Value(Decimal(n)) = n
      /\ IsPiece(Decimal(n), "_")
  BY <1>5, CountReadBack, Zenon
<1>8. rendered = FourBars(f, a, b, c, Decimal(n))
  <2>1. Decimal(n) \in Words
    BY <1>7, Zenon
  <2> QED BY <1>1, <1>4, <1>6, <2>1, NameRendered
<1> HIDE DEF rendered
<1>9. NameParts(rendered, f, a, b, c, Decimal(n))
  BY <1>1, <1>7, <1>8, Zenon DEF NameParts, FourBars
<1>10. RightPieces(rendered) = <<f, a, b, c, Decimal(n)>>
  BY <1>9, PiecesOfName
<1>11. /\ PackFilenameError(rendered) = IF f = <<>> THEN "InvalidPackFilename"
                                         ELSE IF ~ IsI32(Decimal(n)) THEN "InvalidPackCount"
                                         ELSE CommonNameError(c)
       /\ PackFilename(rendered) =
            [source_name |-> f, from_party |-> a, to_party |-> b,
             common_name |-> CommonName(c), pack_count |-> I32Value(Decimal(n))]
  BY <1>10, PackOfPieces
<1>12. PackFilenameError(rendered) = "Ok"
  BY <1>3, <1>7, <1>11, Zenon
<1>13. PackFilename(rendered) = name
  BY <1>4, <1>7, <1>11, Zenon
<1> QED BY <1>6, <1>12, <1>13, Zenon DEF rendered, name

\* Where the characters of a longer text come from.
LEMMA LongerAt ==
  ASSUME NEW t \in Words, NEW c \in Char, NEW u \in Words
  PROVE  /\ Longer(t, c, u) \in Words /\ Len(t) \in Nat /\ Len(u) \in Nat
         /\ Len(Longer(t, c, u)) = Len(t) + 1 + Len(u)
         /\ \A i \in 1 .. Len(t) : Longer(t, c, u)[i] = t[i]
         /\ Longer(t, c, u)[Len(t) + 1] = c
         /\ \A i \in 1 .. Len(u) : Longer(t, c, u)[Len(t) + 1 + i] = u[i]
<1> DEFINE e == <<c>>
           v == e \o u
           x == t \o v
           m == Len(t)
           n == Len(u)
<1>1. /\ t \in Seq(Char) /\ u \in Seq(Char) /\ e \in Seq(Char) /\ Len(e) = 1 /\ e[1] = c
      /\ m \in Nat /\ n \in Nat
  BY WordsOfChars
<1>2. Longer(t, c, u) = x
  BY DEF Longer
<1>0. m = Len(t) /\ n = Len(u) /\ v = e \o u /\ x = t \o v
  OBVIOUS
<1> HIDE DEF e, v, x, m, n
<1>3. /\ v \in Seq(Char) /\ Len(v) = n + 1
      /\ \A i \in 1 .. Len(e) + Len(u) : v[i] = IF i <= Len(e) THEN e[i] ELSE u[i - Len(e)]
  <2>1. /\ e \o u \in Seq(Char) /\ Len(e \o u) = Len(e) + Len(u)
        /\ \A i \in 1 .. Len(e) + Len(u) :
             (e \o u)[i] = IF i <= Len(e) THEN e[i] ELSE u[i - Len(e)]
    BY <1>1, ConcatProperties
  <2>2. Len(e) + Len(u) = n + 1
    BY <1>0, <1>1
  <2> QED BY <1>0, <2>1, <2>2, Zenon
<1>4. v[1] = c /\ \A i \in 1 .. n : v[1 + i] = u[i]
  BY <1>0, <1>1, <1>3
<1>5. /\ x \in Seq(Char) /\ Len(x) = m + (n + 1)
      /\ \A i \in 1 .. Len(t) + Len(v) : x[i] = IF i <= Len(t) THEN t[i] ELSE v[i - Len(t)]
  <2>1. /\ t \o v \in Seq(Char) /\ Len(t \o v) = Len(t) + Len(v)
        /\ \A i \in 1 .. Len(t) + Len(v) :
             (t \o v)[i] = IF i <= Len(t) THEN t[i] ELSE v[i - Len(t)]
    <3>1. t \in Seq(Char) /\ v \in Seq(Char)
      BY <1>1, <1>3
    <3> QED BY <3>1, ConcatProperties
  <2>2. Len(t) + Len(v) = m + (n + 1)
    BY <1>0, <1>1, <1>3
  <2> QED BY <1>0, <2>1, <2>2, Zenon
<1>6. \A i \in 1 .. m : x[i] = t[i]
  BY <1>0, <1>1, <1>3, <1>5
<1>7. \A k \in 1 .. n + 1 : x[m + k] = v[k]
  BY <1>0, <1>1, <1>3, <1>5
<1>8. x[m + 1] = c
  BY <1>1, <1>4, <1>7
<1>9. \A i \in 1 .. n : x[m + 1 + i] = u[i]
  <2> SUFFICES ASSUME NEW i \in 1 .. n  PROVE x[m + 1 + i] = u[i]
    OBVIOUS
  <2>1. m + 1 + i = m + (1 + i) /\ 1 + i \in 1 .. n + 1
    BY <1>1
  <2> QED BY <1>4, <1>7, <2>1
<1>10. Len(x) = m + 1 + n /\ x \in Words
  BY <1>1, <1>5, WordsOfChars
<1> QED BY <1>0, <1>1, <1>2, <1>6, <1>8, <1>9, <1>10

\* SubSeq, as an operator that the provers need not look into.
Part(text, i, j) == SubSeq(text, i, j)

\* The front of a longer text, and what was added to it.
LEMMA LongerParts ==
  ASSUME NEW t \in Words, NEW c \in Char, NEW u \in Words
  PROVE  /\ \A i, j \in Nat : i > 0 /\ j <= Len(t) =>
              Part(Longer(t, c, u), i, j) = Part(t, i, j)
         /\ Part(Longer(t, c, u), Len(t) + 2, Len(t) + 1 + Len(u)) = u
<1> DEFINE x == Longer(t, c, u)
           m == Len(t)
           n == Len(u)
<1>1. /\ x \in Words /\ m \in Nat /\ n \in Nat /\ Len(x) = m + 1 + n
      /\ \A i \in 1 .. m : x[i] = t[i]
      /\ \A i \in 1 .. n : x[m + 1 + i] = u[i]
  BY LongerAt
<1>0. m = Len(t) /\ n = Len(u) /\ x \in Seq(Char) /\ t \in Seq(Char) /\ u \in Seq(Char)
  BY <1>1, WordsOfChars
<1> HIDE DEF x, m, n
<1>2. ASSUME NEW i \in Nat, NEW j \in Nat, i > 0, j <= m
      PROVE  SubSeq(x, i, j) = SubSeq(t, i, j)
  <2>1. CASE i <= j
    <3>0. \A k \in i .. j : x[k] \in Char /\ t[k] \in Char
      <4>1. \A k \in i .. j : k \in 1 .. m /\ k \in 1 .. Len(x)
        BY <1>1, <1>2, <2>1
      <4> QED BY <1>0, <4>1, ElementOfSeq
    <3>1. /\ SubSeq(x, i, j) \in Seq(Char) /\ Len(SubSeq(x, i, j)) = j - i + 1
          /\ SubSeq(t, i, j) \in Seq(Char) /\ Len(SubSeq(t, i, j)) = j - i + 1
      BY <1>0, <1>1, <1>2, <2>1, <3>0, SubSeqProperties
    <3>2. \A k \in 1 .. j - i + 1 : SubSeq(x, i, j)[k] = x[i + k - 1] /\ SubSeq(t, i, j)[k] = t[i + k - 1]
      BY <1>0, <1>1, <1>2, <2>1
    <3>3. \A k \in 1 .. j - i + 1 : x[i + k - 1] = t[i + k - 1]
      BY <1>1, <1>2, <2>1
    <3> QED BY <3>1, <3>2, <3>3, SeqEqual
  <2>2. CASE i > j
    BY <1>0, <1>2, <2>2
  <2> QED BY <1>2, <2>1, <2>2
<1>3. SubSeq(x, m + 2, m + 1 + n) = u
  <2>1. CASE n = 0
    <3>1. u = <<>>
      <4>1. \A q \in Seq(Char) : Len(q) = 0 => q = <<>>
        OBVIOUS
      <4> QED BY <1>0, <2>1, <4>1, Zenon
    <3>2. m + 2 > m + 1 + n  BY <1>1, <2>1
    <3> QED BY <1>0, <1>1, <3>1, <3>2
  <2>2. CASE n # 0
    <3>0. \A k \in m + 2 .. m + 1 + n : x[k] \in Char
      <4>1. \A k \in m + 2 .. m + 1 + n : k \in 1 .. Len(x)
        BY <1>1
      <4> QED BY <1>0, <4>1, ElementOfSeq
    <3>1. /\ SubSeq(x, m + 2, m + 1 + n) \in Seq(Char)
          /\ Len(SubSeq(x, m + 2, m + 1 + n)) = n
      BY <1>0, <1>1, <2>2, <3>0, SubSeqProperties
    <3>2. \A k \in 1 .. n : SubSeq(x, m + 2, m + 1 + n)[k] = x[m + 1 + k]
      BY <1>0, <1>1, <2>2
    <3>3. \A k \in 1 .. n : SubSeq(x, m + 2, m + 1 + n)[k] = u[k]
      BY <1>1, <3>2, Zenon
    <3> DEFINE s == SubSeq(x, m + 2, m + 1 + n)
    <3>4. s \in Seq(Char) /\ Len(s) = n /\ \A k \in 1 .. n : s[k] = u[k]
      BY <3>1, <3>3
    <3> HIDE DEF s
    <3>5. Len(s) = Len(u) /\ \A k \in 1 .. Len(s) : s[k] = u[k]
      BY <1>0, <3>4, Zenon
    <3>6. s = u
      BY <1>0, <3>4, <3>5, SeqEqual
    <3> QED BY <3>6 DEF s
  <2> QED BY <1>1, <2>1, <2>2
<1> QED BY <1>0, <1>2, <1>3 DEF x, m, n, Part

\* Where a separator is.
Marks(text, bar) == {i \in DOMAIN text : text[i] = bar}

\* A separator and a piece add one place.
LEMMA MarksOfLonger ==
  ASSUME NEW t \in Words, NEW bar \in Char, NEW u \in Words, IsPiece(u, bar)
  PROVE  Marks(Longer(t, bar, u), bar) = Marks(t, bar) \cup {Len(t) + 1}
<1> DEFINE x == Longer(t, bar, u)
           m == Len(t)
           n == Len(u)
<1>1. /\ x \in Words /\ m \in Nat /\ n \in Nat /\ Len(x) = m + 1 + n
      /\ \A i \in 1 .. m : x[i] = t[i]
      /\ x[m + 1] = bar
      /\ \A i \in 1 .. n : x[m + 1 + i] = u[i]
  BY LongerAt
<1>2. DOMAIN t = 1 .. m /\ DOMAIN u = 1 .. n
  BY WordsOfChars
<1>0. m = Len(t)
  OBVIOUS
<1> HIDE DEF x, m, n
<1>3. DOMAIN x = 1 .. m + 1 + n
  BY <1>1, WordsOfChars
<1>4. \A i \in 1 .. n : u[i] # bar
  BY <1>2 DEF IsPiece
<1>5. ASSUME NEW i \in 1 .. m + 1 + n
      PROVE  x[i] = bar <=> i = m + 1 \/ (i \in 1 .. m /\ t[i] = bar)
  <2>1. CASE i \in 1 .. m
    BY <1>1, <2>1
  <2>2. CASE i = m + 1
    BY <1>1, <2>2
  <2>3. CASE i > m + 1
    <3>1. i - (m + 1) \in 1 .. n /\ i = m + 1 + (i - (m + 1))
      BY <1>1, <2>3
    <3>2. x[i] # bar
      BY <1>1, <1>4, <3>1
    <3> QED BY <1>1, <2>3, <3>2
  <2> QED BY <1>1, <2>1, <2>2, <2>3
<1>6. \A i : i \in Marks(x, bar) <=> i = m + 1 \/ i \in Marks(t, bar)
  BY <1>1, <1>2, <1>3, <1>5 DEF Marks
<1> QED BY <1>0, <1>6 DEF x

\* The k-th from the right of a set of positions.
FromRight(bars, k) == CHOOSE i \in bars : Cardinality({j \in bars : j >= i}) = k

\* Four places behind m, from left to right.
InOrder(m, q4, q3, q2, q1) ==
  /\ m \in Nat /\ q4 \in Nat /\ q3 \in Nat /\ q2 \in Nat /\ q1 \in Nat
  /\ m < q4 /\ q4 < q3 /\ q3 < q2 /\ q2 < q1

\* The last four of the places.
LastFourAre(bars, q4, q3, q2, q1) ==
  /\ FromRight(bars, 1) = q1 /\ FromRight(bars, 2) = q2
  /\ FromRight(bars, 3) = q3 /\ FromRight(bars, 4) = q4

\* The last four of a set of positions.
LEMMA LastOfMarks ==
  ASSUME NEW m, NEW q4, NEW q3, NEW q2, NEW q1, InOrder(m, q4, q3, q2, q1),
         NEW M \in SUBSET (1 .. m)
  PROVE  LastFourAre(M \cup {q4, q3, q2, q1}, q4, q3, q2, q1)
<1> USE DEF InOrder
<1> DEFINE bars == M \cup {q4, q3, q2, q1}
           At(i) == {j \in bars : j >= i}
           A1 == {q1}
           A2 == A1 \cup {q2}
           A3 == A2 \cup {q3}
           A4 == A3 \cup {q4}
<1>0. \A j \in M : j \in Nat /\ j < q4
  OBVIOUS
<1>1. At(q1) = A1 /\ At(q2) = A2 /\ At(q3) = A3 /\ At(q4) = A4
  <2>1. ASSUME NEW j \in bars
        PROVE  /\ j >= q1 <=> j = q1
               /\ j >= q2 <=> j = q1 \/ j = q2
               /\ j >= q3 <=> j = q1 \/ j = q2 \/ j = q3
               /\ j >= q4 <=> j = q1 \/ j = q2 \/ j = q3 \/ j = q4
    <3>1. CASE j \in M
      <4>1. j \in Nat /\ j < q4  BY <1>0, <3>1
      <4> QED BY <4>1
    <3>2. CASE j \in {q1, q2, q3, q4}
      BY <3>2
    <3> QED BY <3>1, <3>2
  <2>2. {q1, q2, q3, q4} \subseteq bars
    OBVIOUS
  <2> HIDE DEF bars
  <2>5. At(q1) = {j \in bars : j = q1}
    BY <2>1
  <2>6. At(q2) = {j \in bars : j = q1 \/ j = q2}
    BY <2>1
  <2>7. At(q3) = {j \in bars : j = q1 \/ j = q2 \/ j = q3}
    BY <2>1
  <2>8. At(q4) = {j \in bars : j = q1 \/ j = q2 \/ j = q3 \/ j = q4}
    BY <2>1
  <2> HIDE DEF At
  <2>9. At(q1) = A1  BY <2>2, <2>5
  <2>10. At(q2) = A2  BY <2>2, <2>6
  <2>11. At(q3) = A3  BY <2>2, <2>7
  <2>12. At(q4) = A4  BY <2>2, <2>8
  <2> QED BY <2>9, <2>10, <2>11, <2>12
<1>2. IsFiniteSet(M)
  BY FS_Interval, FS_Subset, 1 \in Int, m \in Int
<1>3. IsFiniteSet(A1) /\ Cardinality(A1) = 1
  BY FS_Singleton
<1>4. IsFiniteSet(A2) /\ Cardinality(A2) = 2
  <2>1. q2 \notin A1
    OBVIOUS
  <2> HIDE DEF A1
  <2> QED BY <1>3, <2>1, FS_AddElement
<1>5. IsFiniteSet(A3) /\ Cardinality(A3) = 3
  <2>1. q3 \notin A2
    OBVIOUS
  <2> HIDE DEF A2
  <2> QED BY <1>4, <2>1, FS_AddElement
<1>6. IsFiniteSet(A4) /\ Cardinality(A4) = 4
  <2>1. q4 \notin A3
    OBVIOUS
  <2> HIDE DEF A3
  <2> QED BY <1>5, <2>1, FS_AddElement
<1>7. ASSUME NEW i \in M
      PROVE  Cardinality(At(i)) \in Nat /\ Cardinality(At(i)) > 4
  <2> DEFINE A5 == A4 \cup {i}
  <2>1. i \notin A4
    OBVIOUS
  <2>2. IsFiniteSet(A5) /\ Cardinality(A5) = 5
    <3> HIDE DEF A4
    <3> QED BY <1>6, <2>1, FS_AddElement
  <2>3. A5 \subseteq At(i)
    BY <1>0
  <2>4. IsFiniteSet(At(i))
    <3>1. At(i) \subseteq M \cup A4
      OBVIOUS
    <3> HIDE DEF At, A4
    <3>2. IsFiniteSet(M \cup A4)
      BY <1>2, <1>6, FS_Union
    <3> QED BY <3>1, <3>2, FS_Subset
  <2> HIDE DEF At, A5
  <2>5. Cardinality(At(i)) \in Nat
    BY <2>4, FS_CardinalityType
  <2>6. Cardinality(A5) <= Cardinality(At(i))
    BY <2>3, <2>4, FS_Subset
  <2> QED BY <2>2, <2>5, <2>6
<1> DEFINE Is(i, k) == Cardinality(At(i)) = k
<1>8. /\ Is(q1, 1) /\ Is(q2, 2) /\ Is(q3, 3) /\ Is(q4, 4)
  <2> HIDE DEF At, A1, A2, A3, A4
  <2> QED BY <1>1, <1>3, <1>4, <1>5, <1>6
<1>9. \A i \in bars : \/ i = q1 \/ i = q2 \/ i = q3 \/ i = q4
                      \/ ~ Is(i, 1) /\ ~ Is(i, 2) /\ ~ Is(i, 3) /\ ~ Is(i, 4)
  <2> SUFFICES ASSUME NEW i \in M
               PROVE  ~ Is(i, 1) /\ ~ Is(i, 2) /\ ~ Is(i, 3) /\ ~ Is(i, 4)
    OBVIOUS
  <2> HIDE DEF At
  <2> QED BY <1>7
<1>10. q1 \in bars /\ q2 \in bars /\ q3 \in bars /\ q4 \in bars
  OBVIOUS
<1>11. \A k : /\ Is(q1, k) => k = 1
              /\ Is(q2, k) => k = 2
              /\ Is(q3, k) => k = 3
              /\ Is(q4, k) => k = 4
  <2> HIDE DEF At
  <2> QED BY <1>8
<1> DEFINE From(k) == CHOOSE i \in bars : Is(i, k)
<1>12. \A k : \A q \in bars : Is(q, k) => From(k) \in bars /\ Is(From(k), k)
  <2> HIDE DEF bars, Is
  <2> QED OBVIOUS
<1> HIDE DEF bars, Is, From
<1>13. /\ From(1) \in bars /\ Is(From(1), 1) /\ From(2) \in bars /\ Is(From(2), 2)
       /\ From(3) \in bars /\ Is(From(3), 3) /\ From(4) \in bars /\ Is(From(4), 4)
  BY <1>8, <1>10, <1>12
<1>14. From(1) = q1 /\ From(2) = q2 /\ From(3) = q3 /\ From(4) = q4
  BY <1>9, <1>11, <1>13
<1>15. \A k : FromRight(bars, k) = From(k)
  BY DEF From, Is, FromRight
<1> QED BY <1>14, <1>15 DEF bars, LastFourAre

\* The source name and the first three pieces are what is between the last four
\* bars: the places from the right that Anchored speaks of.
LEMMA PartsAtMarks ==
  ASSUME NEW bar \in Char, NEW f \in Words,
         NEW a \in Words, NEW b \in Words, NEW c \in Words, NEW d \in Words,
         IsPiece(a, bar), IsPiece(b, bar), IsPiece(c, bar), IsPiece(d, bar)
  PROVE  LET text == FourMore(f, bar, a, b, c, d)
             From(k) == FromRight(Marks(text, bar), k)
         IN  /\ f = Part(text, 1, From(4) - 1)
             /\ a = Part(text, From(4) + 1, From(3) - 1)
             /\ b = Part(text, From(3) + 1, From(2) - 1)
             /\ c = Part(text, From(2) + 1, From(1) - 1)
<1> DEFINE t1 == Longer(f, bar, a)
           t2 == Longer(t1, bar, b)
           t3 == Longer(t2, bar, c)
           t4 == Longer(t3, bar, d)
           q4 == Len(f) + 1
           q3 == Len(t1) + 1
           q2 == Len(t2) + 1
           q1 == Len(t3) + 1
<1>1. /\ t1 \in Words /\ Len(f) \in Nat /\ Len(a) \in Nat /\ Len(t1) = Len(f) + 1 + Len(a)
      /\ Marks(t1, bar) = Marks(f, bar) \cup {q4}
  BY LongerAt, MarksOfLonger
<1>2. /\ \A i, j \in Nat : i > 0 /\ j <= Len(f) => Part(t1, i, j) = Part(f, i, j)
      /\ Part(t1, Len(f) + 2, Len(f) + 1 + Len(a)) = a
  BY LongerParts
<1> HIDE DEF t1
<1>3. /\ t2 \in Words /\ Len(b) \in Nat /\ Len(t2) = Len(t1) + 1 + Len(b)
      /\ Marks(t2, bar) = Marks(t1, bar) \cup {q3}
  BY <1>1, LongerAt, MarksOfLonger
<1>4. /\ \A i, j \in Nat : i > 0 /\ j <= Len(t1) => Part(t2, i, j) = Part(t1, i, j)
      /\ Part(t2, Len(t1) + 2, Len(t1) + 1 + Len(b)) = b
  BY <1>1, LongerParts
<1> HIDE DEF t2
<1>5. /\ t3 \in Words /\ Len(c) \in Nat /\ Len(t3) = Len(t2) + 1 + Len(c)
      /\ Marks(t3, bar) = Marks(t2, bar) \cup {q2}
  BY <1>3, LongerAt, MarksOfLonger
<1>6. /\ \A i, j \in Nat : i > 0 /\ j <= Len(t2) => Part(t3, i, j) = Part(t2, i, j)
      /\ Part(t3, Len(t2) + 2, Len(t2) + 1 + Len(c)) = c
  BY <1>3, LongerParts
<1> HIDE DEF t3
<1>7. Marks(t4, bar) = Marks(t3, bar) \cup {q1}
  BY <1>5, MarksOfLonger
<1>9. t4 = FourMore(f, bar, a, b, c, d)
  BY Zenon DEF FourMore, t1, t2, t3
<1>0. t4 = Longer(t3, bar, d)
  OBVIOUS
<1> HIDE DEF t4
<1>21. /\ \A i, j \in Nat : i > 0 /\ j <= Len(t3) => Part(Longer(t3, bar, d), i, j) = Part(t3, i, j)
       /\ Part(Longer(t3, bar, d), Len(t3) + 2, Len(t3) + 1 + Len(d)) = d
  BY <1>5, LongerParts
<1>8. \A i, j \in Nat : i > 0 /\ j <= Len(t3) => Part(t4, i, j) = Part(t3, i, j)
  BY <1>0, <1>21
<1>10. Part(f, 1, Len(f)) = f
  BY WordsOfChars DEF Part
<1> DEFINE m == Len(f)
<1>11. /\ q4 = m + 1 /\ m \in Nat /\ q4 \in Nat /\ q3 \in Nat /\ q2 \in Nat /\ q1 \in Nat
       /\ m < q4 /\ q4 < q3 /\ q3 < q2 /\ q2 < q1
  BY <1>1, <1>3, <1>5
<1>12. Marks(f, bar) \in SUBSET (1 .. m)
  <2>1. DOMAIN f = 1 .. m
    BY WordsOfChars
  <2> HIDE DEF m
  <2> QED BY <2>1 DEF Marks
<1>17. Len(f) <= Len(t1) /\ Len(t1) <= Len(t2) /\ Len(t2) <= Len(t3)
       /\ Len(f) \in Nat /\ Len(t1) \in Nat /\ Len(t2) \in Nat /\ Len(t3) \in Nat
  BY <1>1, <1>3, <1>5
<1>18. \A i, j \in Nat : i > 0 /\ j <= Len(t2) => Part(t4, i, j) = Part(t2, i, j)
  <2> SUFFICES ASSUME NEW i \in Nat, NEW j \in Nat, i > 0, j <= Len(t2)
               PROVE  Part(t4, i, j) = Part(t2, i, j)
    OBVIOUS
  <2>1. j <= Len(t3)  BY <1>17
  <2> QED BY <1>6, <1>8, <2>1
<1>19. \A i, j \in Nat : i > 0 /\ j <= Len(t1) => Part(t4, i, j) = Part(t1, i, j)
  <2> SUFFICES ASSUME NEW i \in Nat, NEW j \in Nat, i > 0, j <= Len(t1)
               PROVE  Part(t4, i, j) = Part(t1, i, j)
    OBVIOUS
  <2>1. j <= Len(t2)  BY <1>17
  <2> QED BY <1>4, <1>18, <2>1
<1>20. \A i, j \in Nat : i > 0 /\ j <= Len(f) => Part(t4, i, j) = Part(f, i, j)
  <2> SUFFICES ASSUME NEW i \in Nat, NEW j \in Nat, i > 0, j <= Len(f)
               PROVE  Part(t4, i, j) = Part(f, i, j)
    OBVIOUS
  <2>1. j <= Len(t1)  BY <1>17
  <2> QED BY <1>2, <1>19, <2>1
<1>13. /\ Part(t4, 1, q4 - 1) = f
       /\ Part(t4, q4 + 1, q3 - 1) = a
       /\ Part(t4, q3 + 1, q2 - 1) = b
       /\ Part(t4, q2 + 1, q1 - 1) = c
  <2>1. Part(t4, 1, q4 - 1) = f
    <3>1. q4 - 1 = Len(f) /\ 1 \in Nat /\ 1 > 0 /\ Len(f) <= Len(f)  BY <1>1
    <3> QED BY <1>10, <1>17, <1>20, <3>1
  <2>2. Part(t4, q4 + 1, q3 - 1) = a
    <3>1. /\ q4 + 1 = Len(f) + 2 /\ q3 - 1 = Len(f) + 1 + Len(a) /\ q4 + 1 \in Nat /\ q4 + 1 > 0
          /\ q3 - 1 \in Nat /\ q3 - 1 <= Len(t1)
      BY <1>1
    <3> QED BY <1>2, <1>19, <3>1
  <2>3. Part(t4, q3 + 1, q2 - 1) = b
    <3>1. /\ q3 + 1 = Len(t1) + 2 /\ q2 - 1 = Len(t1) + 1 + Len(b) /\ q3 + 1 \in Nat /\ q3 + 1 > 0
          /\ q2 - 1 \in Nat /\ q2 - 1 <= Len(t2)
      BY <1>1, <1>3
    <3> QED BY <1>4, <1>18, <3>1
  <2>4. Part(t4, q2 + 1, q1 - 1) = c
    <3>1. /\ q2 + 1 = Len(t2) + 2 /\ q1 - 1 = Len(t2) + 1 + Len(c) /\ q2 + 1 \in Nat /\ q2 + 1 > 0
          /\ q1 - 1 \in Nat /\ q1 - 1 <= Len(t3)
      BY <1>17, <1>5
    <3> QED BY <1>6, <1>8, <3>1
  <2> QED BY <2>1, <2>2, <2>3, <2>4
<1> DEFINE bars == Marks(f, bar) \cup {q4, q3, q2, q1}
<1>14. Marks(t4, bar) = bars
  BY <1>1, <1>3, <1>5, <1>7
<1> HIDE DEF q4, q3, q2, q1, m
<1>15. LastFourAre(bars, q4, q3, q2, q1)
  <2>1. InOrder(m, q4, q3, q2, q1)
    BY <1>11 DEF InOrder
  <2> QED BY <1>12, <2>1, LastOfMarks
<1> HIDE DEF bars
<1> QED BY <1>9, <1>13, <1>14, <1>15 DEF LastFourAre
==============================================================================

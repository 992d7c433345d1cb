--------------------------- MODULE ReadBackProofs ----------------------------
(***************************************************************************)
(* What is written can be read back, for any content: XML by any parser,   *)
(* and the deserializers of the result messages on what the platform       *)
(* writes.                                                                 *)
(***************************************************************************)
EXTENDS PlatformReader, TextProofs

-----------------------------------------------------------------------------
(* Reading, token by token *)

\* The open elements after each of the first n tokens.
IsReading(f, open, tokens, n) ==
  f = [i \in 0 .. n |-> IF i = 0 THEN open ELSE ReadToken(f[i - 1], tokens[i])]

\* They exist.
LEMMA ReadingExists ==
  ASSUME NEW open, NEW tokens, NEW n \in Nat
  PROVE  \E f : IsReading(f, open, tokens, n)
<1> DEFINE P(m) == \E f : IsReading(f, open, tokens, m)
<1>1. P(0)
  <2> DEFINE f == [i \in 0 .. 0 |-> open]
  <2>1. f = [i \in 0 .. 0 |-> IF i = 0 THEN open ELSE ReadToken(f[i - 1], tokens[i])]
    OBVIOUS
  <2> QED BY <2>1 DEF IsReading
<1>2. ASSUME NEW m \in Nat, P(m)  PROVE P(m + 1)
  <2>1. PICK f : IsReading(f, open, tokens, m)  BY <1>2
  <2> DEFINE last == ReadToken(f[m], tokens[m + 1])
             g == [i \in 0 .. m + 1 |-> IF i = m + 1 THEN last ELSE f[i]]
  <2>2. \A i \in 0 .. m : g[i] = f[i]  OBVIOUS
  <2>3. g[m + 1] = last  OBVIOUS
  <2>4. ASSUME NEW i \in 0 .. m + 1
        PROVE  g[i] = IF i = 0 THEN open ELSE ReadToken(g[i - 1], tokens[i])
    <3> HIDE DEF g
    <3>1. CASE i = m + 1
      <4>1. i - 1 \in 0 .. m /\ i - 1 = m /\ i # 0  BY <3>1
      <4> QED BY <2>2, <2>3, <3>1, <4>1
    <3>2. CASE i # m + 1
      <4>1. i \in 0 .. m /\ (i # 0 => i - 1 \in 0 .. m)  BY <3>2
      <4>2. f[i] = IF i = 0 THEN open ELSE ReadToken(f[i - 1], tokens[i])
        BY <2>1, <4>1 DEF IsReading
      <4> QED BY <2>2, <4>1, <4>2
    <3> QED BY <3>1, <3>2
  <2>5. g = [i \in 0 .. m + 1 |-> g[i]]  OBVIOUS
  <2>6. g = [i \in 0 .. m + 1 |->
               IF i = 0 THEN open ELSE ReadToken(g[i - 1], tokens[i])]
    <3> HIDE DEF g
    <3> QED BY <2>4, <2>5
  <2> HIDE DEF g
  <2> QED BY <2>6 DEF IsReading
<1>3. \A m \in Nat : P(m)
  <2> DEFINE N == {m \in Nat : P(m)}
  <2> HIDE DEF P
  <2>1. 0 \in N /\ \A m \in Nat : m \in N => m + 1 \in N  BY <1>1, <1>2
  <2>2. \A m \in Nat : m \in N
    <3> HIDE DEF N
    <3> QED BY <2>1, NatInduct
  <2> QED BY <2>2
<1> QED BY <1>3

\* There is one such run, and a longer one begins with it.
LEMMA ReadingsAgree ==
  ASSUME NEW open, NEW s, NEW t, NEW n \in Nat, NEW m \in Nat, n <= m,
         \A i \in 1 .. n : s[i] = t[i],
         NEW f, IsReading(f, open, s, n), NEW g, IsReading(g, open, t, m)
  PROVE  f[n] = g[n]
<1> DEFINE P(i) == i <= n => f[i] = g[i]
<1>0. /\ \A i \in 0 .. n : f[i] = IF i = 0 THEN open ELSE ReadToken(f[i - 1], s[i])
      /\ \A i \in 0 .. m : g[i] = IF i = 0 THEN open ELSE ReadToken(g[i - 1], t[i])
  BY DEF IsReading
<1>1. P(0)  BY <1>0
<1>2. ASSUME NEW i \in Nat, P(i)  PROVE P(i + 1)
  <2> SUFFICES ASSUME i + 1 <= n  PROVE f[i + 1] = g[i + 1]  OBVIOUS
  <2>1. i + 1 \in 0 .. n /\ i + 1 \in 0 .. m /\ i + 1 \in 1 .. n /\ i + 1 # 0
        /\ (i + 1) - 1 = i
    OBVIOUS
  <2> QED BY <1>0, <1>2, <2>1
<1>3. \A i \in Nat : P(i)
  <2> DEFINE N == {i \in Nat : P(i)}
  <2> HIDE DEF P
  <2>1. 0 \in N /\ \A i \in Nat : i \in N => i + 1 \in N  BY <1>1, <1>2
  <2>2. \A i \in Nat : i \in N
    <3> HIDE DEF N
    <3> QED BY <2>1, NatInduct
  <2> QED BY <2>2
<1> QED BY <1>3

\* Reading ends with the last of them.
LEMMA ReadingRun ==
  ASSUME NEW open, open # <<>>, NEW tokens, Len(tokens) \in Nat
  PROVE  \E f : IsReading(f, open, tokens, Len(tokens)) /\ Reading(open, tokens) = f[Len(tokens)]
<1> DEFINE after == CHOOSE f : IsReading(f, open, tokens, Len(tokens))
<1>1. Reading(open, tokens) = after[Len(tokens)]
  BY DEF Reading, IsReading
<1>2. IsReading(after, open, tokens, Len(tokens))
  BY ReadingExists
<1> HIDE DEF after
<1> QED BY <1>1, <1>2

\* Reading, one token at a time.
LEMMA ReadingAppend ==
  ASSUME NEW open, NEW T, NEW tokens \in Seq(T), NEW t \in T
  PROVE  /\ Reading(open, <<>>) = open
         /\ Reading(open, Add(tokens, t)) = ReadToken(Reading(open, tokens), t)
<1> DEFINE n == Len(tokens)
           longer == Add(tokens, t)
<1>1. CASE open = <<>>
  <2>1. ReadToken(<<>>, t) = <<>>  BY DEF ReadToken
  <2>2. \A s : Reading(<<>>, s) = <<>>  BY DEF Reading
  <2> QED BY <1>1, <2>1, <2>2
<1>2. CASE open # <<>>
  <2>1. /\ Len(longer) = n + 1 /\ n \in Nat /\ longer[n + 1] = t
        /\ \A i \in 1 .. n : longer[i] = tokens[i]
    BY DEF Add
  <2>2. Reading(open, <<>>) = open
    <3>1. PICK f : IsReading(f, open, <<>>, 0) /\ Reading(open, <<>>) = f[0]
      BY <1>2, ReadingRun, Len(<<>>) = 0
    <3> QED BY <3>1 DEF IsReading
  <2>3. PICK f : IsReading(f, open, tokens, n) /\ Reading(open, tokens) = f[n]
    BY <1>2, <2>1, ReadingRun
  <2>4. PICK g : IsReading(g, open, longer, n + 1) /\ Reading(open, longer) = g[n + 1]
    <3> HIDE DEF longer
    <3>1. n + 1 \in Nat  BY <2>1
    <3> QED BY <1>2, <2>1, <3>1, ReadingRun
  <2> HIDE DEF longer, n
  <2>5. f[n] = g[n]
    <3>1. n + 1 \in Nat /\ n <= n + 1 /\ \A i \in 1 .. n : tokens[i] = longer[i]  BY <2>1
    <3> QED BY <2>1, <2>3, <2>4, <3>1, ReadingsAgree
  <2>6. g[n + 1] = ReadToken(g[n], longer[n + 1])
    <3>1. n + 1 \in 0 .. n + 1 /\ n + 1 # 0 /\ (n + 1) - 1 = n  BY <2>1
    <3> QED BY <2>4, <3>1 DEF IsReading
  <2> QED BY <2>1, <2>2, <2>3, <2>4, <2>5, <2>6 DEF longer
<1> QED BY <1>1, <1>2

\* What comes after, and what comes before.
LEMMA ReadingConcat ==
  ASSUME NEW open, NEW T, NEW s \in Seq(T), NEW t \in Seq(T)
  PROVE  Reading(open, s \o t) = Reading(Reading(open, s), t)
<1> DEFINE Q == {u \in Seq(T) : Reading(open, s \o u) = Reading(Reading(open, s), u)}
<1>1. <<>> \in Q
  <2>1. s \o <<>> = s  OBVIOUS
  <2>2. Reading(Reading(open, s), <<>>) = Reading(open, s)
    <3>1. CASE T = {}
      <4>1. s = <<>>  BY <3>1
      <4>2. \A o : Reading(o, <<>>) = o
        <5>1. \A o : Reading(o, <<>>) = o
          BY ReadingAppend, <<>> \in Seq({0})
        <5> QED BY <5>1
      <4> QED BY <4>2
    <3>2. CASE T # {}  BY <3>2, ReadingAppend
    <3> QED BY <3>1, <3>2
  <2> QED BY <2>1, <2>2
<1>2. ASSUME NEW u \in Seq(T), NEW e \in T, u \in Q  PROVE Add(u, e) \in Q
  <2>1. s \o Add(u, e) = Add(s \o u, e) /\ s \o u \in Seq(T) /\ Add(u, e) \in Seq(T)
    BY DEF Add
  <2>2. Reading(open, Add(s \o u, e)) = ReadToken(Reading(open, s \o u), e)
    <3>1. PICK w \in Seq(T) : w = s \o u  BY <2>1
    <3>2. Reading(open, Add(w, e)) = ReadToken(Reading(open, w), e)
      BY ReadingAppend
    <3> QED BY <3>1, <3>2
  <2>3. Reading(Reading(open, s), Add(u, e)) = ReadToken(Reading(Reading(open, s), u), e)
    BY ReadingAppend
  <2> QED BY <1>2, <2>1, <2>2, <2>3
<1>3. \A u \in Seq(T) : u \in Q
  <2> HIDE DEF Q
  <2> QED BY <1>1, <1>2, AddInduct
<1> QED BY <1>3

-----------------------------------------------------------------------------
(* The open elements *)

IsSeq(s) == \E K : s \in Seq(K)

\* Concatenation of sequences is associative, with the empty sequence on either
\* side.
LEMMA SeqsConcat ==
  ASSUME NEW a, NEW b, NEW c, IsSeq(a), IsSeq(b), IsSeq(c)
  PROVE  /\ IsSeq(a \o b) /\ (a \o b) \o c = a \o (b \o c)
         /\ a \o <<>> = a /\ <<>> \o a = a
<1>1. PICK K, L, M : a \in Seq(K) /\ b \in Seq(L) /\ c \in Seq(M)  BY DEF IsSeq
<1>2. PICK U : U = K \cup L \cup M  OBVIOUS
<1>3. a \in Seq(U)
  <2>1. \A i \in 1 .. Len(a) : a[i] \in U  BY <1>1, <1>2
  <2> QED BY <1>1, <2>1
<1>4. b \in Seq(U)
  <2>1. \A i \in 1 .. Len(b) : b[i] \in U  BY <1>1, <1>2
  <2> QED BY <1>1, <2>1
<1>5. c \in Seq(U)
  <2>1. \A i \in 1 .. Len(c) : c[i] \in U  BY <1>1, <1>2
  <2> QED BY <1>1, <2>1
<1> QED BY <1>3, <1>4, <1>5 DEF IsSeq

\* Longer by one.
LEMMA AddedLast ==
  ASSUME NEW s, IsSeq(s), NEW e
  PROVE  /\ IsSeq(Add(s, e)) /\ Add(s, e) # <<>> /\ Len(s) \in Nat
         /\ Len(Add(s, e)) = Len(s) + 1
         /\ Last(Add(s, e)) = e /\ Front(Add(s, e)) = s
         /\ Add(s, e) = s \o <<e>>
         /\ Add(s, e)[Len(s) + 1] = e
         /\ DOMAIN Add(s, e) = 1 .. Len(s) + 1
         /\ \A i \in 1 .. Len(s) : Add(s, e)[i] = s[i]
<1>1. PICK K : s \in Seq(K)  BY DEF IsSeq
<1>2. PICK U : U = K \cup {e}  OBVIOUS
<1>3. s \in Seq(U)
  <2>1. \A i \in 1 .. Len(s) : s[i] \in U  BY <1>1, <1>2
  <2> QED BY <1>1, <2>1
<1>4. e \in U  BY <1>2
<1>5. PICK w \in Seq(U) : w = Append(s, e)
  <2>1. Append(s, e) \in Seq(U)  BY <1>3, <1>4
  <2> QED BY <2>1
<1>6. /\ Len(w) = Len(s) + 1 /\ Len(s) \in Nat /\ w[Len(s) + 1] = e
      /\ \A i \in 1 .. Len(s) : w[i] = s[i]
  BY <1>3, <1>4, <1>5
<1>7. w = s \o <<e>>  BY <1>3, <1>4, <1>5
<1>8. w # <<>>  BY <1>6
<1>9. Last(w) = e  BY <1>6, <1>5 DEF Last
<1>10. Front(w) = s
  <2>1. Len(w) - 1 = Len(s)  BY <1>6
  <2>2. SubSeq(w, 1, Len(s)) = s
    BY <1>3, <1>5, <1>6
  <2> QED BY <2>1, <2>2 DEF Front
<1>11. DOMAIN w = 1 .. Len(s) + 1  BY <1>5, <1>6
<1> QED BY <1>5, <1>6, <1>7, <1>8, <1>9, <1>10, <1>11 DEF Add, IsSeq

\* Concatenation, as an operator that the provers need not look into.
Cat(a, b) == a \o b

\* The empty sequence is one.
LEMMA EmptyIsSeq == IsSeq(<<>>)
BY <<>> \in Seq({}) DEF IsSeq

\* A sequence of one element is one.
LEMMA OneIsSeq == ASSUME NEW e PROVE IsSeq(<<e>>)
BY <<e>> \in Seq({e}) DEF IsSeq

\* The laws of concatenation under a name the provers leave folded.
LEMMA CatFacts ==
  /\ \A a, b : IsSeq(a) /\ IsSeq(b) => IsSeq(Cat(a, b))
  /\ \A a, b, c : IsSeq(a) /\ IsSeq(b) /\ IsSeq(c) => Cat(Cat(a, b), c) = Cat(a, Cat(b, c))
  /\ \A a : IsSeq(a) => Cat(a, <<>>) = a /\ Cat(<<>>, a) = a
  /\ \A a, e : IsSeq(a) => Cat(a, <<e>>) = Add(a, e)
<1>1. \A a, b, c : IsSeq(a) /\ IsSeq(b) /\ IsSeq(c) =>
        IsSeq(a \o b) /\ (a \o b) \o c = a \o (b \o c)
  BY SeqsConcat
<1>2. \A a : IsSeq(a) => a \o <<>> = a /\ <<>> \o a = a
  BY SeqsConcat
<1>3. \A a, e : IsSeq(a) => Add(a, e) = a \o <<e>>
  BY AddedLast
<1> QED BY <1>1, <1>2, <1>3 DEF Cat

\* Of sequences over one set.
LEMMA CatTypes ==
  ASSUME NEW T
  PROVE  /\ \A a, b \in Seq(T) : Cat(a, b) \in Seq(T) /\ IsSeq(a)
         /\ \A a \in Seq(T), e \in T : Add(a, e) \in Seq(T)
         /\ <<>> \in Seq(T) /\ \A e \in T : <<e>> \in Seq(T)
BY DEF Cat, Add, IsSeq

\* Two sequences have elements of one set.
LEMMA OneSet ==
  ASSUME NEW a, NEW b, IsSeq(a), IsSeq(b)
  PROVE  \E T : a \in Seq(T) /\ b \in Seq(T)
<1>1. PICK K, L : a \in Seq(K) /\ b \in Seq(L)  BY DEF IsSeq
<1>2. PICK U : U = K \cup L  OBVIOUS
<1>3. a \in Seq(U)
  <2>1. \A i \in 1 .. Len(a) : a[i] \in U  BY <1>1, <1>2
  <2> QED BY <1>1, <2>1
<1>4. b \in Seq(U)
  <2>1. \A i \in 1 .. Len(b) : b[i] \in U  BY <1>1, <1>2
  <2> QED BY <1>1, <2>1
<1> QED BY <1>3, <1>4

\* Reading, of any sequence.
LEMMA ReadingCat ==
  ASSUME NEW open, NEW s, IsSeq(s), NEW t, IsSeq(t)
  PROVE  Reading(open, Cat(s, t)) = Reading(Reading(open, s), t)
<1>1. PICK T : s \in Seq(T) /\ t \in Seq(T)  BY OneSet
<1> QED BY <1>1, ReadingConcat DEF Cat

\* The parser reads a text one token at a time, the last one last.
LEMMA ReadingAdd ==
  ASSUME NEW open, NEW s, IsSeq(s), NEW e
  PROVE  Reading(open, Add(s, e)) = ReadToken(Reading(open, s), e)
<1>1. PICK one : one = <<e>>  OBVIOUS
<1>2. IsSeq(one)  BY <1>1, OneIsSeq
<1>3. PICK T : s \in Seq(T) /\ one \in Seq(T)  BY <1>2, OneSet
<1>4. e \in T
  <2>1. one[1] = e /\ Len(one) = 1  BY <1>1
  <2>2. \A i \in 1 .. Len(one) : one[i] \in T  BY <1>3
  <2> QED BY <2>1, <2>2
<1> QED BY <1>3, <1>4, ReadingAppend

\* Reading no token changes nothing.
LEMMA ReadingNothing == ASSUME NEW open PROVE Reading(open, <<>>) = open
<1>1. <<>> \in Seq({0})  OBVIOUS
<1> QED BY <1>1, ReadingAppend

\* Reading one token is one step of the parser.
LEMMA ReadingOne == ASSUME NEW open, NEW e PROVE Reading(open, <<e>>) = ReadToken(open, e)
<1>1. PICK T : T = {e}  OBVIOUS
<1>2. e \in T /\ <<>> \in Seq(T)  BY <1>1
<1>3. <<e>> = Add(<<>>, e)  BY DEF Add
<1>4. \A tokens \in Seq(T), t \in T :
        Reading(open, Add(tokens, t)) = ReadToken(Reading(open, tokens), t)
  BY ReadingAppend
<1>5. Reading(open, Add(<<>>, e)) = ReadToken(Reading(open, <<>>), e)
  BY <1>2, <1>4
<1> QED BY <1>3, <1>5, ReadingNothing

NodeOf(tag, kids, words) == [tag |-> tag, children |-> kids, text |-> words]

\* The innermost open element on top of the others.
Stack(below, tag, kids, words) == Add(below, NodeOf(tag, kids, words))

\* The innermost open element is the last of the stack, those around it the
\* rest.
LEMMA StackIsSeq ==
  ASSUME NEW below, IsSeq(below), NEW tag, NEW kids, NEW words
  PROVE  LET stack == Stack(below, tag, kids, words) IN
         /\ IsSeq(stack) /\ stack # <<>> /\ Len(stack) = Len(below) + 1
         /\ Len(below) \in Nat
         /\ stack[Len(below) + 1] = NodeOf(tag, kids, words)
         /\ DOMAIN stack = 1 .. Len(below) + 1
         /\ \A i \in 1 .. Len(below) : stack[i] = below[i]
         /\ Last(stack) = NodeOf(tag, kids, words) /\ Front(stack) = below
BY AddedLast DEF Stack

\* The innermost one is replaced.
LEMMA StackReplaced ==
  ASSUME NEW below, IsSeq(below), NEW tag, NEW kids, NEW words, NEW k, NEW w
  PROVE  LET stack == Stack(below, tag, kids, words) IN
         [stack EXCEPT ![Len(stack)] = NodeOf(tag, k, w)] = Stack(below, tag, k, w)
<1> DEFINE stack == Stack(below, tag, kids, words)
           n == Len(below)
<1>1. /\ Len(stack) = n + 1 /\ n \in Nat /\ IsSeq(stack)
      /\ DOMAIN stack = 1 .. n + 1
      /\ \A i \in 1 .. n : stack[i] = below[i]
  BY StackIsSeq
<1>2. PICK top : top = NodeOf(tag, k, w)  OBVIOUS
<1>3. PICK new : new = Add(below, top)  OBVIOUS
<1>4. /\ DOMAIN new = 1 .. n + 1 /\ new[n + 1] = top
      /\ \A i \in 1 .. n : new[i] = below[i]
  BY <1>3, AddedLast
<1>5. \E K : new \in Seq(K)  BY <1>3, AddedLast DEF IsSeq
<1>6. new = [i \in 1 .. n + 1 |-> new[i]]  BY <1>4, <1>5
<1> HIDE DEF stack, n
<1>7. [stack EXCEPT ![Len(stack)] = top]
        = [i \in 1 .. n + 1 |-> IF i = n + 1 THEN top ELSE stack[i]]
  BY <1>1
<1>8. \A i \in 1 .. n + 1 : (IF i = n + 1 THEN top ELSE stack[i]) = new[i]
  BY <1>1, <1>4
<1>9. [stack EXCEPT ![Len(stack)] = top] = new
  BY <1>6, <1>7, <1>8
<1> QED BY <1>2, <1>3, <1>9 DEF Stack, stack

\* It gets a character, or a child.
LEMMA StackGets ==
  ASSUME NEW below, IsSeq(below), NEW tag, NEW kids, IsSeq(kids), NEW words, IsSeq(words),
         NEW c
  PROVE  LET stack == Stack(below, tag, kids, words) IN
         /\ GetsChar(stack, c) = Stack(below, tag, kids, Cat(words, <<c>>))
         /\ GetsChild(stack, c) = Stack(below, tag, Cat(kids, <<c>>), words)
<1>1. PICK stack : stack = Stack(below, tag, kids, words)  OBVIOUS
<1>2. PICK top : top = stack[Len(stack)]  OBVIOUS
<1>3. top = NodeOf(tag, kids, words) /\ Len(stack) \in DOMAIN stack
  BY <1>1, <1>2, StackIsSeq, SMTT(40)
<1>4. PICK w, k : w = Append(words, c) /\ k = Append(kids, c)  OBVIOUS
<1>5. w = Cat(words, <<c>>) /\ k = Cat(kids, <<c>>)
  BY <1>4, CatFacts DEF Add
<1>6. GetsChar(stack, c) = [stack EXCEPT ![Len(stack)] = [top EXCEPT !.text = w]]
  <2>1. top.text = words  BY <1>3 DEF NodeOf
  <2> QED BY <1>2, <1>3, <1>4, <2>1 DEF GetsChar
<1>7. [top EXCEPT !.text = w] = NodeOf(tag, kids, w)  BY <1>3 DEF NodeOf
<1>8. GetsChild(stack, c) = [stack EXCEPT ![Len(stack)] = [top EXCEPT !.children = k]]
  <2>1. top.children = kids  BY <1>3 DEF NodeOf
  <2> QED BY <1>2, <1>3, <1>4, <2>1 DEF GetsChild
<1>9. [top EXCEPT !.children = k] = NodeOf(tag, k, words)  BY <1>3 DEF NodeOf
<1>10. [stack EXCEPT ![Len(stack)] = NodeOf(tag, kids, w)] = Stack(below, tag, kids, w)
  BY <1>1, StackReplaced
<1>11. [stack EXCEPT ![Len(stack)] = NodeOf(tag, k, words)] = Stack(below, tag, k, words)
  BY <1>1, StackReplaced
<1>12. GetsChar(stack, c) = Stack(below, tag, kids, w)  BY <1>6, <1>7, <1>10
<1>13. GetsChild(stack, c) = Stack(below, tag, k, words)  BY <1>8, <1>9, <1>11
<1> QED BY <1>1, <1>5, <1>12, <1>13

\* What one token does.
LEMMA TokenOfCharacter ==
  ASSUME NEW below, IsSeq(below), NEW tag, NEW kids, IsSeq(kids), NEW words, IsSeq(words),
         NEW c, c \notin {"<", "&"}
  PROVE  ReadToken(Stack(below, tag, kids, words), Character(c))
           = Stack(below, tag, kids, Cat(words, <<c>>))
<1>1. PICK stack : stack = Stack(below, tag, kids, words)  OBVIOUS
<1>2. stack # <<>>  BY <1>1, StackIsSeq
<1>3. GetsChar(stack, c) = Stack(below, tag, kids, Cat(words, <<c>>))
  BY <1>1, StackGets
<1>4. ReadToken(stack, Character(c)) = GetsChar(stack, c)
  BY <1>2 DEF ReadToken, Character
<1> QED BY <1>1, <1>3, <1>4

\* An entity reference adds the character it stands for to the text of the open
\* element.
LEMMA TokenOfEntity ==
  ASSUME NEW below, IsSeq(below), NEW tag, NEW kids, IsSeq(kids), NEW words, IsSeq(words),
         NEW e \in DOMAIN EntityText
  PROVE  ReadToken(Stack(below, tag, kids, words), <<"&", e>>)
           = Stack(below, tag, kids, Cat(words, <<EntityText[e]>>))
<1>1. PICK stack : stack = Stack(below, tag, kids, words)  OBVIOUS
<1>2. stack # <<>>  BY <1>1, StackIsSeq
<1>3. PICK c : c = EntityText[e]  OBVIOUS
<1>4. GetsChar(stack, c) = Stack(below, tag, kids, Cat(words, <<c>>))
  BY <1>1, StackGets
<1>5. ReadToken(stack, <<"&", e>>) = GetsChar(stack, c)
  BY <1>2, <1>3 DEF ReadToken
<1> QED BY <1>1, <1>3, <1>4, <1>5

Opening(tag) == <<"<", tag>>
Closing(tag) == <<"</", tag>>

\* A start tag opens an empty element.
LEMMA TokenOpens ==
  ASSUME NEW stack, stack # <<>>, NEW t
  PROVE  ReadToken(stack, Opening(t)) = Stack(stack, t, <<>>, <<>>)
BY DEF ReadToken, Node, NodeOf, Stack, Add, Opening

\* An end tag makes the innermost element the last child of the one around it.
LEMMA TokenCloses ==
  ASSUME NEW below, IsSeq(below), NEW tag, NEW kids, IsSeq(kids), NEW words, IsSeq(words),
         NEW t, NEW k, NEW w
  PROVE  ReadToken(Stack(Stack(below, tag, kids, words), t, k, w), Closing(t))
           = Stack(below, tag, Cat(kids, <<NodeOf(t, k, w)>>), words)
<1>1. PICK stack : stack = Stack(below, tag, kids, words)  OBVIOUS
<1>2. PICK child : child = NodeOf(t, k, w)  OBVIOUS
<1>3. PICK two : two = Stack(stack, t, k, w)  OBVIOUS
<1>4. IsSeq(stack) /\ Len(stack) = Len(below) + 1 /\ Len(below) \in Nat
  BY <1>1, StackIsSeq
<1>5. two # <<>> /\ Last(two) = child /\ Front(two) = stack /\ Len(two) = Len(stack) + 1
  BY <1>2, <1>3, <1>4, StackIsSeq
<1>6. Len(two) > 1  BY <1>4, <1>5
<1>7. child.tag = t  BY <1>2 DEF NodeOf
<1>8. ReadToken(two, Closing(t)) = GetsChild(Front(two), Last(two))
  BY <1>5, <1>6, <1>7 DEF ReadToken, Closing
<1>9. GetsChild(stack, child) = Stack(below, tag, Cat(kids, <<child>>), words)
  BY <1>1, StackGets
<1> QED BY <1>1, <1>2, <1>3, <1>5, <1>8, <1>9

-----------------------------------------------------------------------------
(* What is read *)

\* Whatever is open, these tokens add the children and the text to it.
Reads(tokens, kids, words) ==
  /\ IsSeq(tokens) /\ IsSeq(kids) /\ IsSeq(words)
  /\ \A below, tag, k, w :
       IsSeq(below) /\ IsSeq(k) /\ IsSeq(w) =>
         Reading(Stack(below, tag, k, w), tokens)
           = Stack(below, tag, Cat(k, kids), Cat(w, words))

\* What it says of one state of the reader.
LEMMA ReadsAt ==
  ASSUME NEW tokens, NEW kids, NEW words, Reads(tokens, kids, words),
         NEW below, NEW tag, NEW k, NEW w, IsSeq(below), IsSeq(k), IsSeq(w)
  PROVE  Reading(Stack(below, tag, k, w), tokens)
           = Stack(below, tag, Cat(k, kids), Cat(w, words))
BY DEF Reads

\* The empty text reads as no child and no text.
LEMMA ReadsNothing == Reads(<<>>, <<>>, <<>>)
<1>1. \A k : IsSeq(k) => Cat(k, <<>>) = k  BY CatFacts
<1> QED BY <1>1, EmptyIsSeq, ReadingNothing DEF Reads

\* One part after another.
LEMMA ReadsBoth ==
  ASSUME NEW a, NEW k, NEW w, Reads(a, k, w), NEW b, NEW l, NEW v, Reads(b, l, v)
  PROVE  Reads(Cat(a, b), Cat(k, l), Cat(w, v))
<1>1. /\ IsSeq(a) /\ IsSeq(b) /\ IsSeq(k) /\ IsSeq(l) /\ IsSeq(w) /\ IsSeq(v)
  BY DEF Reads
<1>2. IsSeq(Cat(a, b)) /\ IsSeq(Cat(k, l)) /\ IsSeq(Cat(w, v))  BY <1>1, CatFacts
<1>3. ASSUME NEW below, NEW tag, NEW m, NEW x, IsSeq(below), IsSeq(m), IsSeq(x)
      PROVE  Reading(Stack(below, tag, m, x), Cat(a, b))
               = Stack(below, tag, Cat(m, Cat(k, l)), Cat(x, Cat(w, v)))
  <2>1. PICK open : open = Stack(below, tag, m, x)  OBVIOUS
  <2>2. Reading(open, Cat(a, b)) = Reading(Reading(open, a), b)
    BY <1>1, ReadingCat
  <2>3. Reading(open, a) = Stack(below, tag, Cat(m, k), Cat(x, w))
    BY <1>3, <2>1, ReadsAt
  <2>4. IsSeq(Cat(m, k)) /\ Cat(Cat(m, k), l) = Cat(m, Cat(k, l))
    BY <1>1, <1>3, CatFacts
  <2>5. IsSeq(Cat(x, w)) /\ Cat(Cat(x, w), v) = Cat(x, Cat(w, v))
    BY <1>1, <1>3, CatFacts
  <2>6. Reading(Stack(below, tag, Cat(m, k), Cat(x, w)), b)
          = Stack(below, tag, Cat(Cat(m, k), l), Cat(Cat(x, w), v))
    BY <1>3, <2>4, <2>5, ReadsAt
  <2> QED BY <2>1, <2>2, <2>3, <2>4, <2>5, <2>6
<1> QED BY <1>1, <1>2, <1>3 DEF Reads

\* Two tables of entities, each of which replaces "<" and "&".
LEMMA EntitiesRead ==
  ASSUME NEW entities, entities = TextEntities \/ entities = AttributeEntities, NEW c
  PROVE  /\ c \in DOMAIN entities =>
              /\ entities[c] \in DOMAIN EntityText
              /\ EntityText[entities[c]] = c
         /\ c \notin DOMAIN entities => c \notin {"<", "&"}
<1>1. /\ DOMAIN TextEntities = {"&", "<", ">"}
      /\ DOMAIN AttributeEntities = {"&", "<", ">", "\"", "'"}
  BY DEF TextEntities, AttributeEntities
<1>2. TextEntities["&"] = "amp" /\ TextEntities["<"] = "lt" /\ TextEntities[">"] = "gt"
  BY DEF TextEntities
<1>3. /\ AttributeEntities["&"] = "amp" /\ AttributeEntities["<"] = "lt"
      /\ AttributeEntities[">"] = "gt"
      /\ AttributeEntities["\""] = "quot" /\ AttributeEntities["'"] = "apos"
  BY <1>2 DEF AttributeEntities
<1>4. /\ DOMAIN EntityText = {"amp", "lt", "gt", "quot", "apos"}
      /\ EntityText["amp"] = "&" /\ EntityText["lt"] = "<" /\ EntityText["gt"] = ">"
      /\ EntityText["quot"] = "\"" /\ EntityText["apos"] = "'"
  BY DEF EntityText
<1>5. CASE entities = TextEntities
  <2>1. c \in DOMAIN entities => c = "&" \/ c = "<" \/ c = ">"  BY <1>1, <1>5
  <2>2. c \notin DOMAIN entities => c \notin {"<", "&"}  BY <1>1, <1>5
  <2> QED BY <1>2, <1>4, <1>5, <2>1, <2>2
<1>6. CASE entities = AttributeEntities
  <2>1. c \in DOMAIN entities => c = "&" \/ c = "<" \/ c = ">" \/ c = "\"" \/ c = "'"
    BY <1>1, <1>6
  <2>2. c \notin DOMAIN entities => c \notin {"<", "&"}  BY <1>1, <1>6
  <2> QED BY <1>3, <1>4, <1>6, <2>1, <2>2
<1> QED BY <1>5, <1>6

\* One character, escaped.
TokenOf(c, entities) == IF c \in DOMAIN entities THEN <<"&", entities[c]>> ELSE Character(c)

\* A character written with either set of entities reads as itself,
\* push_text_escaped of xml_util.rs.
LEMMA TokenRead ==
  ASSUME NEW entities, entities = TextEntities \/ entities = AttributeEntities, NEW c,
         NEW below, IsSeq(below), NEW tag, NEW kids, IsSeq(kids), NEW words, IsSeq(words)
  PROVE  ReadToken(Stack(below, tag, kids, words), TokenOf(c, entities))
           = Stack(below, tag, kids, Cat(words, <<c>>))
<1>1. CASE c \in DOMAIN entities
  <2>1. PICK e : e = entities[c]  OBVIOUS
  <2>2. e \in DOMAIN EntityText /\ EntityText[e] = c  BY <1>1, <2>1, EntitiesRead
  <2>3. ReadToken(Stack(below, tag, kids, words), <<"&", e>>)
          = Stack(below, tag, kids, Cat(words, <<EntityText[e]>>))
    BY <2>2, TokenOfEntity
  <2> QED BY <1>1, <2>1, <2>2, <2>3 DEF TokenOf
<1>2. CASE c \notin DOMAIN entities
  <2>1. c \notin {"<", "&"}  BY <1>2, EntitiesRead
  <2> QED BY <1>2, <2>1, TokenOfCharacter DEF TokenOf
<1> QED BY <1>1, <1>2

\* Escaping, one character at a time.
LEMMA EscapedAdd ==
  ASSUME NEW entities, NEW u, IsSeq(u), NEW c
  PROVE  /\ Escaped(<<>>, entities) = <<>>
         /\ Escaped(Add(u, c), entities) = Add(Escaped(u, entities), TokenOf(c, entities))
<1>1. Escaped(<<>>, entities) = <<>>  BY DEF Escaped
<1>2. PICK v, e, s : v = Add(u, c) /\ e = TokenOf(c, entities) /\ s = Escaped(u, entities)
  OBVIOUS
<1>3. PICK n \in Nat : n = Len(u)  BY AddedLast
<1>4. DOMAIN v = 1 .. n + 1 /\ v[n + 1] = c /\ \A i \in 1 .. n : v[i] = u[i]
  BY <1>2, <1>3, AddedLast
<1>5. DOMAIN u = 1 .. n  BY <1>3 DEF IsSeq
<1>6. s = [i \in 1 .. n |-> TokenOf(u[i], entities)]
  BY <1>2, <1>5 DEF Escaped, TokenOf
<1>7. Escaped(v, entities) = [i \in 1 .. n + 1 |-> TokenOf(v[i], entities)]
  BY <1>4 DEF Escaped, TokenOf
<1>8. IsSeq(s) /\ Len(s) = n
  <2>1. PICK S : S = {TokenOf(u[i], entities) : i \in 1 .. n}  OBVIOUS
  <2>2. \A i \in 1 .. n : s[i] \in S  BY <1>6, <2>1
  <2>3. s \in [1 .. n -> S]  BY <1>6, <2>2
  <2>4. s \in Seq(S) /\ Len(s) = n  BY <1>3, <2>3
  <2> QED BY <2>4 DEF IsSeq
<1>9. PICK w : w = Add(s, e)  OBVIOUS
<1>10. /\ IsSeq(w) /\ DOMAIN w = 1 .. n + 1 /\ w[n + 1] = e
       /\ \A i \in 1 .. n : w[i] = s[i]
  BY <1>8, <1>9, AddedLast
<1>11. \A i \in 1 .. n + 1 : w[i] = TokenOf(v[i], entities)
  BY <1>2, <1>4, <1>6, <1>10
<1>12. w = [i \in 1 .. n + 1 |-> w[i]]  BY <1>10 DEF IsSeq
<1>13. w = [i \in 1 .. n + 1 |-> TokenOf(v[i], entities)]  BY <1>11, <1>12
<1> QED BY <1>1, <1>2, <1>7, <1>9, <1>13

\* A text that was escaped.
LEMMA ReadsText ==
  ASSUME NEW entities, entities = TextEntities \/ entities = AttributeEntities,
         NEW text, IsSeq(text)
  PROVE  Reads(Escaped(text, entities), <<>>, text)
<1>0. PICK C : text \in Seq(C)  BY DEF IsSeq
<1> DEFINE Q == {u \in Seq(C) : Reads(Escaped(u, entities), <<>>, u)}
<1>1. <<>> \in Q
  <2>1. Escaped(<<>>, entities) = <<>>  BY DEF Escaped
  <2>2. <<>> \in Seq(C)  OBVIOUS
  <2> QED BY <2>1, <2>2, ReadsNothing
<1>2. ASSUME NEW u \in Seq(C), NEW c \in C, u \in Q  PROVE Add(u, c) \in Q
  <2>1. IsSeq(u) /\ Reads(Escaped(u, entities), <<>>, u)  BY <1>2 DEF IsSeq
  <2>2. PICK s, e, v : s = Escaped(u, entities) /\ e = TokenOf(c, entities) /\ v = Add(u, c)
    OBVIOUS
  <2>3. Escaped(v, entities) = Add(s, e)  BY <2>1, <2>2, EscapedAdd
  <2>4. IsSeq(s)  BY <2>1, <2>2 DEF Reads
  <2>5. v \in Seq(C)  BY <2>2, CatTypes
  <2>6. IsSeq(Add(s, e)) /\ IsSeq(v)  BY <2>1, <2>2, <2>4, AddedLast
  <2>7. v = Cat(u, <<c>>)  BY <2>1, <2>2, CatFacts
  <2>8. ASSUME NEW below, NEW tag, NEW k, NEW w, IsSeq(below), IsSeq(k), IsSeq(w)
        PROVE  Reading(Stack(below, tag, k, w), Add(s, e))
                 = Stack(below, tag, Cat(k, <<>>), Cat(w, v))
    <3>1. PICK open : open = Stack(below, tag, k, w)  OBVIOUS
    <3>2. Reading(open, Add(s, e)) = ReadToken(Reading(open, s), e)
      BY <2>4, ReadingAdd
    <3>3. PICK wu, kn : wu = Cat(w, u) /\ kn = Cat(k, <<>>)  OBVIOUS
    <3>4. IsSeq(kn)  BY <2>8, <3>3, EmptyIsSeq, CatFacts
    <3>5. IsSeq(wu) /\ Cat(wu, <<c>>) = Cat(w, v)
      BY <2>1, <2>7, <2>8, <3>3, OneIsSeq, CatFacts
    <3>6. Reading(open, s) = Stack(below, tag, kn, wu)
      BY <2>1, <2>2, <2>8, <3>1, <3>3, ReadsAt
    <3>7. ReadToken(Stack(below, tag, kn, wu), e) = Stack(below, tag, kn, Cat(wu, <<c>>))
      BY <2>2, <2>8, <3>4, <3>5, TokenRead
    <3> QED BY <3>1, <3>2, <3>3, <3>5, <3>6, <3>7
  <2>9. Reads(Add(s, e), <<>>, v)
    BY <2>6, <2>8, EmptyIsSeq DEF Reads
  <2> QED BY <2>2, <2>3, <2>5, <2>9
<1>3. \A u \in Seq(C) : u \in Q
  <2> HIDE DEF Q
  <2> QED BY <1>1, <1>2, AddInduct
<1> QED BY <1>0, <1>3

\* An element with what is in it.
LEMMA ReadsElement ==
  ASSUME NEW tag, NEW content, NEW kids, NEW words, Reads(content, kids, words)
  PROVE  Reads(Element(tag, content), <<NodeOf(tag, kids, words)>>, <<>>)
<1>1. PICK a, z : a = Opening(tag) /\ z = Closing(tag)  OBVIOUS
<1>2. IsSeq(content) /\ IsSeq(kids) /\ IsSeq(words)  BY DEF Reads
<1>3. PICK one, b : one = <<a>> /\ b = Cat(one, content)  OBVIOUS
<1>4. IsSeq(one) /\ IsSeq(b)  BY <1>2, <1>3, OneIsSeq, CatFacts
<1>5. Element(tag, content) = Add(b, z)
  <2>1. Element(tag, content) = b \o <<z>>
    BY <1>1, <1>3 DEF Element, Opening, Closing, Cat
  <2> QED BY <1>4, <2>1, AddedLast
<1>6. IsSeq(Add(b, z))  BY <1>4, AddedLast
<1>7. PICK child, none : child = NodeOf(tag, kids, words) /\ none = <<>>  OBVIOUS
<1>8. PICK kid : kid = <<child>>  OBVIOUS
<1>9. IsSeq(none) /\ IsSeq(kid)  BY <1>7, <1>8, EmptyIsSeq, OneIsSeq
<1>10. ASSUME NEW below, NEW o, NEW k, NEW w, IsSeq(below), IsSeq(k), IsSeq(w)
       PROVE  Reading(Stack(below, o, k, w), Add(b, z))
                = Stack(below, o, Cat(k, kid), Cat(w, none))
  <2>1. PICK open : open = Stack(below, o, k, w)  OBVIOUS
  <2>2. IsSeq(open) /\ open # <<>>  BY <1>10, <2>1, StackIsSeq
  <2>3. Reading(open, one) = ReadToken(open, a)
    BY <1>3, ReadingOne
  <2>4. ReadToken(open, a) = Stack(open, tag, none, none)
    BY <1>1, <1>7, <2>2, TokenOpens
  <2>5. Reading(open, b) = Reading(Reading(open, one), content)
    BY <1>2, <1>3, <1>4, ReadingCat
  <2>6. Reading(Stack(open, tag, none, none), content)
          = Stack(open, tag, Cat(none, kids), Cat(none, words))
    BY <1>9, <2>2, ReadsAt
  <2>7. Cat(none, kids) = kids /\ Cat(none, words) = words
    BY <1>2, <1>7, CatFacts
  <2>8. Cat(w, none) = w  BY <1>7, <1>10, CatFacts
  <2>9. Reading(open, b) = Stack(open, tag, kids, words)
    BY <2>3, <2>4, <2>5, <2>6, <2>7
  <2>10. Reading(open, Add(b, z)) = ReadToken(Reading(open, b), z)
    BY <1>4, ReadingAdd
  <2>11. ReadToken(Stack(open, tag, kids, words), z) = Stack(below, o, Cat(k, kid), w)
    <3>1. \A t, l, v : ReadToken(Stack(Stack(below, o, k, w), t, l, v), Closing(t))
                         = Stack(below, o, Cat(k, <<NodeOf(t, l, v)>>), w)
      BY <1>10, TokenCloses
    <3> QED BY <1>1, <1>7, <1>8, <2>1, <3>1, Zenon
  <2> QED BY <2>1, <2>8, <2>9, <2>10, <2>11
<1>11. Reads(Add(b, z), kid, none)
  BY <1>6, <1>9, <1>10 DEF Reads
<1> QED BY <1>5, <1>7, <1>8, <1>11

\* The pieces of a document, one after another, are the document.
LEMMA PiecesAdd ==
  ASSUME NEW tokens, IsSeq(tokens), NEW k \in Nat, k # 0, k <= (Len(tokens) + 31) \div 32
  PROVE  LET n == Len(tokens)
             end == IF 32 * k < n THEN 32 * k ELSE n
             before == IF 32 * (k - 1) < n THEN 32 * (k - 1) ELSE n
         IN  /\ Cat(Part(tokens, 1, before), Piece(tokens, k)) = Part(tokens, 1, end)
             /\ IsSeq(Part(tokens, 1, before)) /\ IsSeq(Piece(tokens, k))
<1>1. PICK T : tokens \in Seq(T)  BY DEF IsSeq
<1>2. PICK n : n = Len(tokens)  OBVIOUS
<1>3. n \in Nat  BY <1>1, <1>2
<1> DEFINE end == IF 32 * k < n THEN 32 * k ELSE n
           before == IF 32 * (k - 1) < n THEN 32 * (k - 1) ELSE n
<1>4. 32 * k <= n + 31
  <2>1. PICK q \in Nat : q = (n + 31) \div 32  BY <1>3
  <2>2. 32 * q <= n + 31  BY <1>3, <2>1
  <2> QED BY <1>2, <2>1, <2>2
<1>5. before = 32 * k - 32 /\ before \in 0 .. n /\ end \in before .. n
  BY <1>3, <1>4
<1> HIDE DEF before, end
<1>6. Part(tokens, 1, before) \o SubSeq(tokens, before + 1, end) = Part(tokens, 1, end)
  <2>1. 1 \in 1 .. n + 1 /\ before \in 0 .. n /\ end \in before .. n
    BY <1>3, <1>5
  <2>2. 1 - 1 = 0  OBVIOUS
  <2> QED BY <1>1, <1>2, <2>1, <2>2, ConcatAdjacentSubSeq DEF Part
<1>7. Piece(tokens, k) = SubSeq(tokens, before + 1, end)
  <2>1. before + 1 = 32 * k - 31  BY <1>5
  <2> QED BY <1>2, <2>1 DEF Piece, end
<1>8. \A i \in 1 .. n : tokens[i] \in T  BY <1>1, <1>2
<1>9. Part(tokens, 1, before) \in Seq(T)
  <2>1. \A i \in 1 .. before : tokens[i] \in T  BY <1>3, <1>5, <1>8
  <2>2. 1 \in Int /\ before \in Int  BY <1>5
  <2> QED BY <2>1, <2>2, SubSeqProperties DEF Part
<1>10. SubSeq(tokens, before + 1, end) \in Seq(T)
  <2>1. \A i \in before + 1 .. end : tokens[i] \in T  BY <1>3, <1>5, <1>8
  <2>2. before + 1 \in Int /\ end \in Int  BY <1>3, <1>5
  <2> QED BY <2>1, <2>2, SubSeqProperties
<1> QED BY <1>2, <1>6, <1>7, <1>9, <1>10 DEF Cat, IsSeq, before, end

Outermost == <<Node("")>>

\* In pieces or not, a document is read alike.
LEMMA ReadAllIsReading ==
  ASSUME NEW tokens, IsSeq(tokens)
  PROVE  ReadAll(tokens) = Reading(Outermost, tokens)
<1>1. PICK n, pieces : n = Len(tokens) /\ pieces = (n + 31) \div 32  OBVIOUS
<1>2. n \in Nat /\ pieces \in Nat /\ n <= 32 * pieces
  <2>1. n \in Nat  BY <1>1 DEF IsSeq
  <2> QED BY <1>1, <2>1
<1>3. PICK start : start = Outermost  OBVIOUS
<1> DEFINE End(k) == IF 32 * k < n THEN 32 * k ELSE n
           Solves(f) == f = [k \in 0 .. pieces |->
                               IF k = 0 THEN start ELSE Reading(f[k - 1], Piece(tokens, k))]
           after == CHOOSE f : Solves(f)
           g == [k \in 0 .. pieces |-> Reading(start, Part(tokens, 1, End(k)))]
<1>4. ReadAll(tokens) = after[pieces]
  BY <1>1, <1>3 DEF ReadAll, Outermost
<1>5. ASSUME NEW k \in 0 .. pieces
      PROVE  g[k] = IF k = 0 THEN start ELSE Reading(g[k - 1], Piece(tokens, k))
  <2>0. g[k] = Reading(start, Part(tokens, 1, End(k)))  OBVIOUS
  <2>1. CASE k = 0
    <3>1. End(k) = 0  BY <1>2, <2>1
    <3>2. Part(tokens, 1, 0) = <<>>
      <4>1. 1 \in Int /\ 0 \in Int /\ 0 < 1  OBVIOUS
      <4> QED BY <4>1, SubSeqEmpty DEF Part
    <3> QED BY <2>0, <2>1, <3>1, <3>2, ReadingNothing
  <2>2. CASE k # 0
    <3>1. k - 1 \in 0 .. pieces /\ k \in Nat  BY <1>2, <2>2
    <3>2. g[k - 1] = Reading(start, Part(tokens, 1, End(k - 1)))  BY <3>1
    <3> HIDE DEF g
    <3>3. PICK p, q, whole : p = Part(tokens, 1, End(k - 1)) /\ q = Piece(tokens, k)
            /\ whole = Part(tokens, 1, End(k))
      OBVIOUS
    <3>4. Cat(p, q) = whole /\ IsSeq(p) /\ IsSeq(q)
      <4>1. k <= (Len(tokens) + 31) \div 32  BY <1>1
      <4> QED BY <1>1, <2>2, <3>1, <3>3, <4>1, PiecesAdd
    <3>5. Reading(start, Cat(p, q)) = Reading(Reading(start, p), q)
      BY <3>4, ReadingCat
    <3> HIDE DEF End
    <3> QED BY <2>0, <2>2, <3>2, <3>3, <3>4, <3>5
  <2> QED BY <2>1, <2>2
<1>6. Solves(g)
  <2>1. g = [k \in 0 .. pieces |-> g[k]]  OBVIOUS
  <2> HIDE DEF g
  <2> QED BY <1>5, <2>1
<1>7. Solves(after)
  <2> HIDE DEF Solves
  <2> QED BY <1>6
<1> HIDE DEF after
<1>8. \A k \in Nat : k \in 0 .. pieces => after[k] = g[k]
  <2> DEFINE N == {k \in Nat : k \in 0 .. pieces => after[k] = g[k]}
  <2>0. \A k \in 0 .. pieces :
          after[k] = IF k = 0 THEN start ELSE Reading(after[k - 1], Piece(tokens, k))
    <3> HIDE DEF g
    <3> QED BY <1>7, Zenon
  <2> HIDE DEF g, Solves
  <2>1. 0 \in N  BY <1>2, <1>5, <2>0
  <2>2. ASSUME NEW k \in Nat, k \in N  PROVE k + 1 \in N
    <3> SUFFICES ASSUME k + 1 \in 0 .. pieces  PROVE after[k + 1] = g[k + 1]
      OBVIOUS
    <3>1. k \in 0 .. pieces /\ k + 1 # 0 /\ (k + 1) - 1 = k  BY <1>2
    <3> QED BY <1>5, <2>0, <2>2, <3>1
  <2>3. \A k \in Nat : k \in N
    <3> HIDE DEF N
    <3> QED BY <2>1, <2>2, NatInduct
  <2> QED BY <2>3
<1>9. g[pieces] = Reading(start, tokens)
  <2>1. End(pieces) = n  BY <1>2
  <2>2. Part(tokens, 1, n) = tokens
    <3>1. PICK T : tokens \in Seq(T)  BY DEF IsSeq
    <3> QED BY <1>1, <3>1, SubSeqFull DEF Part
  <2>3. pieces \in 0 .. pieces  BY <1>2
  <2> QED BY <2>1, <2>2, <2>3
<1>10. after[pieces] = g[pieces]
  <2>1. pieces \in 0 .. pieces  BY <1>2
  <2> HIDE DEF g
  <2> QED BY <1>2, <1>8, <2>1
<1> HIDE DEF g
<1> QED BY <1>3, <1>4, <1>9, <1>10

\* A document that reads as elements has these.
LEMMA XmlRead ==
  ASSUME NEW tokens, NEW kids, NEW words, Reads(tokens, kids, words)
  PROVE  ReadXml(tokens) = kids
<1>1. IsSeq(tokens) /\ IsSeq(kids) /\ IsSeq(words)  BY DEF Reads
<1>2. PICK none, name : none = <<>> /\ name = ""  OBVIOUS
<1>3. IsSeq(none)  BY <1>2, EmptyIsSeq
<1>0. ASSUME NEW e  PROVE Add(none, e) = <<e>>
  <2>1. Append(<<>>, e) = <<e>>  OBVIOUS
  <2> QED BY <1>2, <2>1 DEF Add
<1>4. Outermost = Stack(none, name, none, none)
  <2>1. Node("") = NodeOf(name, none, none)  BY <1>2 DEF Node, NodeOf
  <2> QED BY <1>0, <2>1, Zenon DEF Outermost, Stack
<1>5. Reading(Stack(none, name, none, none), tokens)
        = Stack(none, name, Cat(none, kids), Cat(none, words))
  BY <1>3, ReadsAt
<1>6. Cat(none, kids) = kids /\ Cat(none, words) = words  BY <1>1, <1>2, CatFacts
<1>7. PICK open : open = ReadAll(tokens)  OBVIOUS
<1>8. open = Stack(none, name, kids, words)
  BY <1>1, <1>4, <1>5, <1>6, <1>7, ReadAllIsReading
<1>9. open = <<NodeOf(name, kids, words)>>
  BY <1>0, <1>8, Zenon DEF Stack
<1>10. Len(open) = 1 /\ open[1].children = kids  BY <1>9 DEF NodeOf
<1> QED BY <1>7, <1>10 DEF ReadXml

\* It has nothing that no document should have.
LEMMA ReadHasNoBytes ==
  ASSUME NEW tokens, NEW kids, NEW words, Reads(tokens, kids, words),
         NEW i \in DOMAIN tokens
  PROVE  tokens[i][1] # "byte"
<1>1. PICK T : tokens \in Seq(T)  BY DEF Reads, IsSeq
<1>2. PICK start : start = Stack(<<>>, "", <<>>, <<>>)  OBVIOUS
<1> DEFINE Q == {u \in Seq(T) : Reading(start, u) # <<>> =>
                   \A j \in 1 .. Len(u) : u[j][1] # "byte"}
<1>3. <<>> \in Q  OBVIOUS
<1>4. ASSUME NEW u \in Seq(T), NEW e \in T, u \in Q  PROVE Add(u, e) \in Q
  <2>1. IsSeq(u)  BY DEF IsSeq
  <2>2. PICK v : v = Add(u, e)  OBVIOUS
  <2>3. /\ v \in Seq(T) /\ Len(u) \in Nat /\ Len(v) = Len(u) + 1 /\ v[Len(u) + 1] = e
        /\ \A j \in 1 .. Len(u) : v[j] = u[j]
    BY <2>1, <2>2, AddedLast, CatTypes
  <2>4. Reading(start, v) = ReadToken(Reading(start, u), e)
    BY <2>1, <2>2, ReadingAdd
  <2>5. Reading(start, v) # <<>> => Reading(start, u) # <<>> /\ e[1] # "byte"
    <3>1. ReadToken(<<>>, e) = <<>>  BY DEF ReadToken
    <3>2. ASSUME NEW open, e[1] = "byte"  PROVE ReadToken(open, e) = <<>>
      BY <3>2 DEF ReadToken
    <3> QED BY <2>4, <3>1, <3>2
  <2>6. \A j \in 1 .. Len(v) : j \in 1 .. Len(u) \/ j = Len(u) + 1  BY <2>3
  <2> QED BY <1>4, <2>2, <2>3, <2>5, <2>6
<1>5. \A u \in Seq(T) : u \in Q
  <2> HIDE DEF Q
  <2> QED BY <1>3, <1>4, AddInduct
<1>6. Reading(start, tokens) # <<>>
  <2>1. PICK none, name : none = <<>> /\ name = ""  OBVIOUS
  <2>2. IsSeq(none)  BY <2>1, EmptyIsSeq
  <2>3. Reading(Stack(none, name, none, none), tokens)
          = Stack(none, name, Cat(none, kids), Cat(none, words))
    BY <2>2, ReadsAt
  <2>4. Stack(none, name, Cat(none, kids), Cat(none, words)) # <<>>
    BY <2>2, StackIsSeq
  <2> QED BY <1>2, <2>1, <2>3, <2>4
<1>7. i \in 1 .. Len(tokens)  BY <1>1
<1> QED BY <1>1, <1>5, <1>6, <1>7

-----------------------------------------------------------------------------
(* Lists of elements *)

\* Flattening lists of tokens, one more list at the end.
LEMMA FlattenAdd ==
  ASSUME NEW T, NEW seqs \in Seq(Seq(T)), NEW last \in Seq(T)
  PROVE  /\ FlattenSeq(<<>>) = <<>>
         /\ FlattenSeq(Add(seqs, last)) = Cat(FlattenSeq(seqs), last)
         /\ IsSeq(FlattenSeq(seqs))
BY FlattenAppend DEF Add, Cat, IsSeq

\* One node for each of the parts.
ReadEach(parts, nodes) ==
  Len(nodes) = Len(parts) /\ \A i \in 1 .. Len(parts) : Reads(parts[i], <<nodes[i]>>, <<>>)

\* A sequence of written nodes reads as the sequence of them.
LEMMA ReadsListOver ==
  ASSUME NEW T, NEW parts \in Seq(Seq(T)), NEW nodes, IsSeq(nodes), ReadEach(parts, nodes)
  PROVE  Reads(FlattenSeq(parts), nodes, <<>>)
<1> DEFINE Q == {u \in Seq(Seq(T)) : \A v : IsSeq(v) /\ ReadEach(u, v) =>
                   Reads(FlattenSeq(u), v, <<>>)}
<1>0. \A s : IsSeq(s) => Len(s) \in Nat /\ (Len(s) = 0 => s = <<>>)
  BY DEF IsSeq
<1>1. <<>> \in Q
  <2>1. ASSUME NEW v, IsSeq(v), ReadEach(<<>>, v)  PROVE Reads(FlattenSeq(<<>>), v, <<>>)
    <3>1. Len(v) = 0  BY <2>1 DEF ReadEach
    <3>2. v = <<>>  BY <1>0, <2>1, <3>1
    <3>3. FlattenSeq(<<>>) = <<>>  BY DEF FlattenSeq
    <3> QED BY <3>2, <3>3, ReadsNothing
  <2>2. <<>> \in Seq(Seq(T))  OBVIOUS
  <2> QED BY <2>1, <2>2
<1>2. ASSUME NEW u \in Seq(Seq(T)), NEW e \in Seq(T), u \in Q  PROVE Add(u, e) \in Q
  <2>1. PICK w : w = Add(u, e)  OBVIOUS
  <2>2. IsSeq(u)  BY DEF IsSeq
  <2>3. /\ w \in Seq(Seq(T)) /\ Len(u) \in Nat /\ Len(w) = Len(u) + 1 /\ w[Len(u) + 1] = e
        /\ \A i \in 1 .. Len(u) : w[i] = u[i]
    BY <2>1, <2>2, AddedLast, CatTypes
  <2>4. ASSUME NEW v, IsSeq(v), ReadEach(w, v)  PROVE Reads(FlattenSeq(w), v, <<>>)
    <3>1. PICK K : v \in Seq(K)  BY <2>4 DEF IsSeq
    <3>2. Len(v) = Len(u) + 1  BY <2>3, <2>4 DEF ReadEach
    <3>3. v # <<>>  BY <2>3, <3>2
    <3>4. PICK f \in Seq(K), last \in K : v = Append(f, last)
      BY <3>1, <3>3, SequenceEmptyOrAppend
    <3>5. IsSeq(f) /\ v = Add(f, last)  BY <3>4 DEF IsSeq, Add
    <3>6. /\ Len(v) = Len(f) + 1 /\ v[Len(f) + 1] = last /\ Len(f) \in Nat
          /\ \A i \in 1 .. Len(f) : v[i] = f[i]
      BY <3>5, AddedLast
    <3>7. Len(f) = Len(u)  BY <2>3, <3>2, <3>6
    <3>8. ReadEach(u, f)
      <4>1. ASSUME NEW i \in 1 .. Len(u)  PROVE Reads(u[i], <<f[i]>>, <<>>)
        <5>1. i \in 1 .. Len(w)  BY <2>3
        <5>2. Reads(w[i], <<v[i]>>, <<>>)  BY <2>4, <5>1 DEF ReadEach
        <5>3. w[i] = u[i] /\ v[i] = f[i]  BY <2>3, <3>6, <3>7
        <5> QED BY <5>2, <5>3
      <4> QED BY <3>7, <4>1 DEF ReadEach
    <3>9. Reads(FlattenSeq(u), f, <<>>)  BY <1>2, <3>5, <3>8
    <3>10. Reads(e, <<last>>, <<>>)
      <4>1. Len(u) + 1 \in 1 .. Len(w)  BY <2>3
      <4>2. Reads(w[Len(u) + 1], <<v[Len(u) + 1]>>, <<>>)  BY <2>4, <4>1 DEF ReadEach
      <4> QED BY <2>3, <3>6, <3>7, <4>2
    <3>11. PICK none, lasts, flat : none = <<>> /\ lasts = <<last>> /\ flat = FlattenSeq(u)
      OBVIOUS
    <3>12. Reads(Cat(flat, e), Cat(f, lasts), Cat(none, none))
      BY <3>9, <3>10, <3>11, ReadsBoth
    <3>13. FlattenSeq(w) = Cat(flat, e)  BY <2>1, <3>11, FlattenAdd
    <3>14. Cat(f, lasts) = v  BY <3>5, <3>11, CatFacts
    <3>15. Cat(none, none) = none  BY <3>11, EmptyIsSeq, CatFacts
    <3> QED BY <3>11, <3>12, <3>13, <3>14, <3>15
  <2> QED BY <2>1, <2>3, <2>4
<1>3. \A u \in Seq(Seq(T)) : u \in Q
  <2> DEFINE U == Seq(T)
  <2>1. <<>> \in Q /\ \A u \in Seq(U), e \in U : u \in Q => Add(u, e) \in Q
    BY <1>1, <1>2
  <2> HIDE DEF Q, U
  <2>2. \A u \in Seq(U) : u \in Q  BY <2>1, AddInduct
  <2> QED BY <2>2 DEF U
<1> QED BY <1>3

\* Whatever they are made of.
LEMMA ReadsList ==
  ASSUME NEW parts, IsSeq(parts), NEW nodes, IsSeq(nodes), ReadEach(parts, nodes)
  PROVE  Reads(FlattenSeq(parts), nodes, <<>>)
<1>1. PICK K : parts \in Seq(K)  BY DEF IsSeq
<1>2. PICK T : T = UNION {{parts[i][j] : j \in 1 .. Len(parts[i])} : i \in 1 .. Len(parts)}
  OBVIOUS
<1>3. ASSUME NEW i \in 1 .. Len(parts)  PROVE parts[i] \in Seq(T)
  <2>1. PICK p : p = parts[i]  OBVIOUS
  <2>2. IsSeq(p)  BY <2>1 DEF ReadEach, Reads
  <2>3. PICK L : p \in Seq(L)  BY <2>2 DEF IsSeq
  <2>4. ASSUME NEW j \in 1 .. Len(p)  PROVE p[j] \in T
    BY <1>2, <2>1
  <2> QED BY <2>1, <2>3, <2>4
<1>4. parts \in Seq(Seq(T))  BY <1>1, <1>3
<1> QED BY <1>4, ReadsListOver

-----------------------------------------------------------------------------
(* The children of a node *)

\* None of this name, and exactly this one.
Lacks(kids, tag) == \A i \in 1 .. Len(kids) : kids[i].tag # tag

Has(kids, tag, node) ==
  \E p \in 1 .. Len(kids) :
    /\ kids[p] = node /\ node.tag = tag
    /\ \A i \in 1 .. Len(kids) : kids[i].tag = tag => i = p

\* Where the elements of a concatenation come from.
LEMMA CatPlaces ==
  ASSUME NEW a, NEW b, IsSeq(a), IsSeq(b)
  PROVE  /\ Len(a) \in Nat /\ Len(b) \in Nat /\ Len(Cat(a, b)) = Len(a) + Len(b)
         /\ \A i \in 1 .. Len(a) : Cat(a, b)[i] = a[i]
         /\ \A i \in 1 .. Len(b) : Cat(a, b)[Len(a) + i] = b[i]
<1>1. PICK T : a \in Seq(T) /\ b \in Seq(T)  BY OneSet
<1>2. /\ Len(a) \in Nat /\ Len(b) \in Nat /\ Len(a \o b) = Len(a) + Len(b)
      /\ \A i \in 1 .. Len(a) : (a \o b)[i] = a[i]
  BY <1>1
<1>3. \A i \in 1 .. Len(b) : (a \o b)[Len(a) + i] = b[i]
  BY <1>1, <1>2
<1> QED BY <1>2, <1>3 DEF Cat

\* A tag that neither half has, the whole does not have.
LEMMA LacksCat ==
  ASSUME NEW a, NEW b, IsSeq(a), IsSeq(b), NEW tag, Lacks(a, tag), Lacks(b, tag)
  PROVE  Lacks(Cat(a, b), tag)
<1>1. PICK c, m, n : c = Cat(a, b) /\ m = Len(a) /\ n = Len(b)  OBVIOUS
<1>2. /\ m \in Nat /\ n \in Nat /\ Len(c) = m + n
      /\ \A i \in 1 .. m : c[i] = a[i]
      /\ \A i \in 1 .. n : c[m + i] = b[i]
  BY <1>1, CatPlaces
<1>3. ASSUME NEW i \in 1 .. m + n  PROVE c[i].tag # tag
  <2>1. CASE i \in 1 .. m  BY <1>1, <1>2, <2>1 DEF Lacks
  <2>2. CASE i \notin 1 .. m
    <3>1. i - m \in 1 .. n /\ i = m + (i - m)  BY <1>2, <2>2
    <3>2. c[i] = b[i - m]  BY <1>2, <3>1
    <3> QED BY <1>1, <3>1, <3>2 DEF Lacks
  <2> QED BY <2>1, <2>2
<1> QED BY <1>1, <1>2, <1>3 DEF Lacks

\* The only child with a tag is found when it is in the first half.
LEMMA HasCatLeft ==
  ASSUME NEW a, NEW b, IsSeq(a), IsSeq(b), NEW tag, NEW node, Has(a, tag, node), Lacks(b, tag)
  PROVE  Has(Cat(a, b), tag, node)
<1>1. PICK c, m, n : c = Cat(a, b) /\ m = Len(a) /\ n = Len(b)  OBVIOUS
<1>2. /\ m \in Nat /\ n \in Nat /\ Len(c) = m + n
      /\ \A i \in 1 .. m : c[i] = a[i]
      /\ \A i \in 1 .. n : c[m + i] = b[i]
  BY <1>1, CatPlaces
<1>3. PICK p \in 1 .. m : a[p] = node /\ node.tag = tag
        /\ \A i \in 1 .. m : a[i].tag = tag => i = p
  BY <1>1 DEF Has
<1>4. p \in 1 .. m + n /\ c[p] = node  BY <1>2, <1>3
<1>5. ASSUME NEW i \in 1 .. m + n, c[i].tag = tag  PROVE i = p
  <2>1. CASE i \in 1 .. m  BY <1>2, <1>3, <1>5, <2>1
  <2>2. CASE i \notin 1 .. m
    <3>1. i - m \in 1 .. n /\ i = m + (i - m)  BY <1>2, <2>2
    <3>2. c[i] = b[i - m]  BY <1>2, <3>1
    <3> QED BY <1>1, <1>5, <3>1, <3>2 DEF Lacks
  <2> QED BY <2>1, <2>2
<1> QED BY <1>1, <1>2, <1>3, <1>4, <1>5 DEF Has

\* The only child with a tag is found when it is in the second half.
LEMMA HasCatRight ==
  ASSUME NEW a, NEW b, IsSeq(a), IsSeq(b), NEW tag, NEW node, Lacks(a, tag), Has(b, tag, node)
  PROVE  Has(Cat(a, b), tag, node)
<1>1. PICK c, m, n : c = Cat(a, b) /\ m = Len(a) /\ n = Len(b)  OBVIOUS
<1>2. /\ m \in Nat /\ n \in Nat /\ Len(c) = m + n
      /\ \A i \in 1 .. m : c[i] = a[i]
      /\ \A i \in 1 .. n : c[m + i] = b[i]
  BY <1>1, CatPlaces
<1>3. PICK p \in 1 .. n : b[p] = node /\ node.tag = tag
        /\ \A i \in 1 .. n : b[i].tag = tag => i = p
  BY <1>1 DEF Has
<1>4. m + p \in 1 .. m + n /\ c[m + p] = node  BY <1>2, <1>3
<1>5. ASSUME NEW i \in 1 .. m + n, c[i].tag = tag  PROVE i = m + p
  <2>1. CASE i \in 1 .. m  BY <1>1, <1>2, <1>5, <2>1 DEF Lacks
  <2>2. CASE i \notin 1 .. m
    <3>1. i - m \in 1 .. n /\ i = m + (i - m)  BY <1>2, <2>2
    <3>2. c[i] = b[i - m]  BY <1>2, <3>1
    <3> QED BY <1>2, <1>3, <1>5, <3>1, <3>2
  <2> QED BY <2>1, <2>2
<1> QED BY <1>1, <1>2, <1>3, <1>4, <1>5 DEF Has

\* A single node is the only child with its tag.
LEMMA OneChild ==
  ASSUME NEW node
  PROVE  /\ IsSeq(<<node>>) /\ Has(<<node>>, node.tag, node)
         /\ \A tag : tag # node.tag => Lacks(<<node>>, tag)
<1>1. PICK one : one = <<node>>  OBVIOUS
<1>2. Len(one) = 1 /\ one[1] = node  BY <1>1
<1>3. Has(one, node.tag, node)  BY <1>2 DEF Has
<1>4. \A tag : tag # node.tag => Lacks(one, tag)  BY <1>2 DEF Lacks
<1> QED BY <1>1, <1>3, <1>4, OneIsSeq

\* No children, no tag.
LEMMA NoChild == IsSeq(<<>>) /\ \A tag : Lacks(<<>>, tag)
BY EmptyIsSeq DEF Lacks

\* What the deserializers make of it.
LEMMA NodeHas ==
  ASSUME NEW node, IsSeq(node.children), NEW tag, NEW child, Has(node.children, tag, child)
  PROVE  /\ Once(node, tag) /\ AtMostOnce(node, tag) /\ HasChild(node, tag)
         /\ Child(node, tag) = child /\ Text(node, tag) = child.text
         /\ Optional(node, tag) = {child.text}
<1>1. PICK kids, n : kids = node.children /\ n = Len(kids)  OBVIOUS
<1>2. n \in Nat /\ DOMAIN kids = 1 .. n  BY <1>1 DEF IsSeq
<1>3. PICK p \in 1 .. n : /\ kids[p] = child /\ child.tag = tag
                          /\ \A i \in 1 .. n : kids[i].tag = tag => i = p
  BY <1>1 DEF Has
<1>4. Places(node, tag) = {p}  BY <1>1, <1>2, <1>3 DEF Places
<1>5. Cardinality({p}) = 1  BY FS_Singleton
<1>6. Once(node, tag) /\ AtMostOnce(node, tag)  BY <1>4, <1>5 DEF Once, AtMostOnce
<1>7. HasChild(node, tag)  BY <1>1, <1>2, <1>3 DEF HasChild
<1>8. Child(node, tag) = child
  <2> DEFINE IsFirst(i) == kids[i].tag = tag /\ \A j \in 1 .. i - 1 : kids[j].tag # tag
  <2>1. Child(node, tag) = kids[CHOOSE i \in DOMAIN kids : IsFirst(i)]
    BY <1>1 DEF Child
  <2>2. p \in DOMAIN kids /\ IsFirst(p)
    <3>1. \A j \in 1 .. p - 1 : j \in 1 .. n /\ j # p  BY <1>2
    <3> QED BY <1>2, <1>3, <3>1
  <2>3. \A i \in DOMAIN kids : IsFirst(i) => i = p  BY <1>2, <1>3
  <2> HIDE DEF IsFirst
  <2>4. (CHOOSE i \in DOMAIN kids : IsFirst(i)) = p  BY <2>2, <2>3
  <2> QED BY <1>3, <2>1, <2>4
<1>9. Text(node, tag) = child.text  BY <1>8 DEF Text
<1>10. Optional(node, tag) = {child.text}  BY <1>4, <1>9 DEF Optional
<1> QED BY <1>6, <1>7, <1>8, <1>9, <1>10

\* An element without such a child: the optional field is absent.
LEMMA NodeLacks ==
  ASSUME NEW node, IsSeq(node.children), NEW tag, Lacks(node.children, tag)
  PROVE  AtMostOnce(node, tag) /\ ~ HasChild(node, tag) /\ Optional(node, tag) = {}
<1>1. DOMAIN node.children = 1 .. Len(node.children)  BY DEF IsSeq
<1>2. Places(node, tag) = {}  BY <1>1 DEF Places, Lacks
<1>3. Cardinality({}) = 0  BY FS_EmptySet
<1> QED BY <1>1, <1>2, <1>3 DEF AtMostOnce, HasChild, Optional, Lacks

\* A list of children, all of one name.
LEMMA NodeLists ==
  ASSUME NEW node, IsSeq(node.children), node.children # <<>>, NEW tag,
         \A i \in 1 .. Len(node.children) : node.children[i].tag = tag
  PROVE  /\ Listed(node, tag) /\ Places(node, tag) = 1 .. Len(node.children)
         /\ Children(node, tag) = node.children
<1>1. PICK kids, n : kids = node.children /\ n = Len(kids)  OBVIOUS
<1>2. PICK K : kids \in Seq(K)  BY <1>1 DEF IsSeq
<1>3. n \in Nat /\ n # 0 /\ DOMAIN kids = 1 .. n  BY <1>1, <1>2
<1>4. Places(node, tag) = 1 .. n  BY <1>1, <1>3 DEF Places
<1>5. Listed(node, tag)
  <2>1. 1 \in 1 .. n /\ n \in 1 .. n  BY <1>3
  <2> QED BY <1>1, <1>3, <1>4, <2>1 DEF Listed
<1>6. Cardinality(1 .. n) = n
  BY <1>3, FS_Interval
<1>7. (CHOOSE i \in 1 .. n : \A j \in 1 .. n : i <= j) = 1
  <2>1. 1 \in 1 .. n /\ \A j \in 1 .. n : 1 <= j  BY <1>3
  <2>2. \A i \in 1 .. n : (\A j \in 1 .. n : i <= j) => i = 1  BY <2>1
  <2> QED BY <2>1, <2>2
<1>8. Children(node, tag) = SubSeq(kids, 1, 1 + n - 1)
  BY <1>1, <1>4, <1>6, <1>7 DEF Children
<1>9. 1 + n - 1 = n  BY <1>3
<1>10. SubSeq(kids, 1, n) = kids  BY <1>1, <1>2, SubSeqFull
<1> QED BY <1>1, <1>4, <1>5, <1>8, <1>9, <1>10

-----------------------------------------------------------------------------
(* Result messages *)

\* Children one after another, without text of their own.
LEMMA ReadsTwo ==
  ASSUME NEW a, NEW k, Reads(a, k, <<>>), NEW b, NEW l, Reads(b, l, <<>>)
  PROVE  Reads(a \o b, Cat(k, l), <<>>) /\ IsSeq(Cat(k, l)) /\ IsSeq(k) /\ IsSeq(l)
<1>1. PICK none : none = <<>>  OBVIOUS
<1>2. Cat(none, none) = none  BY <1>1, EmptyIsSeq, CatFacts
<1>3. Reads(Cat(a, b), Cat(k, l), Cat(none, none))  BY <1>1, ReadsBoth
<1>4. IsSeq(k) /\ IsSeq(l)  BY DEF Reads
<1>5. IsSeq(Cat(k, l))  BY <1>4, CatFacts
<1> QED BY <1>1, <1>2, <1>3, <1>4, <1>5 DEF Cat

\* A node with a text and nothing else.
TextNode(tag, text) == NodeOf(tag, <<>>, text)

\* An element of escaped text reads as a node of that text, for any text.
LEMMA TextElement ==
  ASSUME NEW tag, NEW text, IsSeq(text)
  PROVE  /\ Reads(Element(tag, PushTextEscaped(text)), <<TextNode(tag, text)>>, <<>>)
         /\ TextNode(tag, text).tag = tag /\ TextNode(tag, text).text = text
<1>1. Reads(PushTextEscaped(text), <<>>, text)
  BY ReadsText DEF PushTextEscaped
<1>2. TextNode(tag, text).tag = tag /\ TextNode(tag, text).text = text
  BY DEF TextNode, NodeOf
<1> QED BY <1>1, <1>2, ReadsElement DEF TextNode

FieldNodes(fields) == [i \in 1 .. Len(fields) |-> TextNode(fields[i][1], fields[i][2])]

\* A list of text fields reads as one node for each, in order.
LEMMA FieldsRead ==
  ASSUME NEW fields, IsSeq(fields), \A i \in 1 .. Len(fields) : IsSeq(fields[i][2])
  PROVE  Reads(Elements(fields), FieldNodes(fields), <<>>)
<1>1. PICK n \in Nat : n = Len(fields)  BY DEF IsSeq
<1>2. DOMAIN fields = 1 .. n  BY <1>1 DEF IsSeq
<1>3. PICK nodes, parts :
        /\ nodes = FieldNodes(fields)
        /\ parts = [i \in 1 .. n |-> Element(fields[i][1], PushTextEscaped(fields[i][2]))]
  OBVIOUS
<1>4. nodes = [i \in 1 .. n |-> TextNode(fields[i][1], fields[i][2])]
  BY <1>1, <1>3 DEF FieldNodes
<1>5. Elements(fields) = FlattenSeq(parts)  BY <1>2, <1>3 DEF Elements
<1>6. \A f : (\E g : f = [i \in 1 .. n |-> g[i]]) => IsSeq(f) /\ Len(f) = n
  <2>1. ASSUME NEW g, NEW f, f = [i \in 1 .. n |-> g[i]]  PROVE IsSeq(f) /\ Len(f) = n
    <3>1. PICK S : S = {g[i] : i \in 1 .. n}  OBVIOUS
    <3>2. f \in [1 .. n -> S]  BY <2>1, <3>1
    <3>3. f \in Seq(S) /\ Len(f) = n  BY <1>1, <3>2
    <3> QED BY <3>3 DEF IsSeq
  <2> QED BY <2>1
<1>7. nodes = [i \in 1 .. n |-> nodes[i]] /\ parts = [i \in 1 .. n |-> parts[i]]
  BY <1>3, <1>4
<1>8. IsSeq(nodes) /\ Len(nodes) = n /\ IsSeq(parts) /\ Len(parts) = n
  BY <1>6, <1>7
<1>9. ASSUME NEW i \in 1 .. n  PROVE Reads(parts[i], <<nodes[i]>>, <<>>)
  <2>1. PICK tag, text : tag = fields[i][1] /\ text = fields[i][2]  OBVIOUS
  <2>2. IsSeq(text)  BY <1>1, <2>1
  <2>3. parts[i] = Element(tag, PushTextEscaped(text))  BY <1>3, <2>1
  <2>4. nodes[i] = TextNode(tag, text)  BY <1>4, <2>1
  <2> QED BY <2>2, <2>3, <2>4, TextElement
<1>10. ReadEach(parts, nodes)  BY <1>8, <1>9 DEF ReadEach
<1> QED BY <1>3, <1>5, <1>8, <1>10, ReadsList

\* The field of a name is found again.
LEMMA FieldHas ==
  ASSUME NEW fields, IsSeq(fields),
         \A i, j \in 1 .. Len(fields) : fields[i][1] = fields[j][1] => i = j,
         NEW p \in 1 .. Len(fields)
  PROVE  Has(FieldNodes(fields), fields[p][1], TextNode(fields[p][1], fields[p][2]))
<1>1. PICK n \in Nat : n = Len(fields)  BY DEF IsSeq
<1>2. PICK nodes : nodes = FieldNodes(fields)  OBVIOUS
<1>3. nodes = [i \in 1 .. n |-> TextNode(fields[i][1], fields[i][2])]
  BY <1>1, <1>2 DEF FieldNodes
<1>4. Len(nodes) = n  BY <1>1, <1>3
<1>5. \A i \in 1 .. n : nodes[i].tag = fields[i][1]  BY <1>3 DEF TextNode, NodeOf
<1>6. p \in 1 .. n /\ nodes[p] = TextNode(fields[p][1], fields[p][2])  BY <1>1, <1>3
<1>7. TextNode(fields[p][1], fields[p][2]).tag = fields[p][1]  BY DEF TextNode, NodeOf
<1>8. \A i \in 1 .. n : nodes[i].tag = fields[p][1] => i = p  BY <1>1, <1>5
<1> QED BY <1>2, <1>4, <1>6, <1>7, <1>8 DEF Has

\* Fields of other names leave a tag out.
LEMMA FieldLacks ==
  ASSUME NEW fields, IsSeq(fields), NEW tag, \A i \in 1 .. Len(fields) : fields[i][1] # tag
  PROVE  Lacks(FieldNodes(fields), tag)
<1>1. PICK n \in Nat : n = Len(fields)  BY DEF IsSeq
<1>2. PICK nodes : nodes = FieldNodes(fields)  OBVIOUS
<1>3. nodes = [i \in 1 .. n |-> TextNode(fields[i][1], fields[i][2])]
  BY <1>1, <1>2 DEF FieldNodes
<1>4. Len(nodes) = n  BY <1>1, <1>3
<1>5. \A i \in 1 .. n : nodes[i].tag = fields[i][1]  BY <1>3 DEF TextNode, NodeOf
<1> QED BY <1>1, <1>2, <1>4, <1>5 DEF Lacks

\* An optional element.
IsOption(option) == option = {} \/ \E text : IsSeq(text) /\ option = {text}

Offers(kids, tag, option) ==
  /\ option = {} => Lacks(kids, tag)
  /\ \A text : option = {text} => Has(kids, tag, TextNode(tag, text))
  /\ \A other : other # tag => Lacks(kids, other)

\* An optional element is written for Some and left out for None, and reads as
\* such.
LEMMA OptionRead ==
  ASSUME NEW tag, NEW option, IsOption(option)
  PROVE  \E kids : Reads(OptionalElement(tag, option), kids, <<>>) /\ Offers(kids, tag, option)
<1>1. CASE option = {}
  <2>1. Reads(OptionalElement(tag, option), <<>>, <<>>)
    BY <1>1, ReadsNothing DEF OptionalElement
  <2>2. Offers(<<>>, tag, option)
    <3>1. \A text : option # {text}  BY <1>1
    <3> QED BY <3>1, NoChild DEF Offers
  <2> QED BY <2>1, <2>2
<1>2. CASE option # {}
  <2>1. PICK text : IsSeq(text) /\ option = {text}  BY <1>2 DEF IsOption
  <2>2. (CHOOSE t \in option : TRUE) = text  BY <2>1
  <2>3. OptionalElement(tag, option) = Element(tag, PushTextEscaped(text))
    BY <1>2, <2>2 DEF OptionalElement
  <2>4. PICK node : node = TextNode(tag, text)  OBVIOUS
  <2>5. Reads(Element(tag, PushTextEscaped(text)), <<node>>, <<>>) /\ node.tag = tag
    BY <2>1, <2>4, TextElement
  <2>6. Offers(<<node>>, tag, option)
    <3>1. PICK kids : kids = <<node>>  OBVIOUS
    <3>2. Has(kids, tag, node) /\ \A other : other # tag => Lacks(kids, other)
      BY <2>5, <3>1, OneChild
    <3>3. \A t : option = {t} => t = text  BY <2>1
    <3>4. \A t : option = {t} => Has(kids, tag, TextNode(tag, t))
      BY <2>4, <3>2, <3>3
    <3> QED BY <1>2, <3>1, <3>2, <3>4 DEF Offers
  <2> QED BY <2>3, <2>5, <2>6
<1> QED BY <1>1, <1>2

\* What a deserializer makes of an optional element.
LEMMA NodeOffers ==
  ASSUME NEW node, IsSeq(node.children), NEW tag, NEW option, IsOption(option),
         option = {} => Lacks(node.children, tag),
         \A text : option = {text} => Has(node.children, tag, TextNode(tag, text))
  PROVE  AtMostOnce(node, tag) /\ Optional(node, tag) = option
<1>1. CASE option = {}  BY <1>1, NodeLacks
<1>2. CASE option # {}
  <2>1. PICK text : option = {text}  BY <1>2 DEF IsOption
  <2>2. Has(node.children, tag, TextNode(tag, text))  BY <2>1
  <2>3. TextNode(tag, text).text = text  BY DEF TextNode, NodeOf
  <2> QED BY <2>1, <2>2, <2>3, NodeHas
<1> QED BY <1>1, <1>2

\* Children only; and two names, which the provers need not look into.
Writes(tokens, kids) == Reads(tokens, kids, <<>>)
Differ(a, b) == a # b

\* What is written one after the other reads as the children of both.
LEMMA WritesTwo ==
  ASSUME NEW a, NEW k, Writes(a, k), NEW b, NEW l, Writes(b, l)
  PROVE  Writes(a \o b, Cat(k, l)) /\ IsSeq(Cat(k, l)) /\ IsSeq(k) /\ IsSeq(l)
BY ReadsTwo DEF Writes

\* An element, from what is in it.
LEMMA NodeWritten ==
  ASSUME NEW tag, NEW content, NEW kids, Writes(content, kids)
  PROVE  \E node : /\ Writes(Element(tag, content), <<node>>)
                   /\ node.tag = tag /\ node.children = kids /\ IsSeq(node.children)
<1>1. PICK node : node = NodeOf(tag, kids, <<>>)  OBVIOUS
<1>2. node.tag = tag /\ node.children = kids  BY <1>1 DEF NodeOf
<1>3. IsSeq(kids)  BY DEF Reads, Writes
<1> QED BY <1>1, <1>2, <1>3, ReadsElement DEF Writes

\* One field only.
OnlyField(tag, text) == Elements(<< <<tag, text>> >>)

Single(kids, tag, text) ==
  Has(kids, tag, TextNode(tag, text)) /\ \A other : other # tag => Lacks(kids, other)

\* A single text field reads as the only child with its tag.
LEMMA OneField ==
  ASSUME NEW tag, NEW text, IsSeq(text)
  PROVE  \E kids : Writes(OnlyField(tag, text), kids) /\ Single(kids, tag, text)
<1>1. PICK fields : fields = << <<tag, text>> >>  OBVIOUS
<1>2. Len(fields) = 1 /\ fields[1][1] = tag /\ fields[1][2] = text  BY <1>1
<1>3. IsSeq(fields)  BY <1>1, OneIsSeq
<1>4. Writes(Elements(fields), FieldNodes(fields))
  BY <1>2, <1>3, FieldsRead DEF Writes
<1>5. Has(FieldNodes(fields), tag, TextNode(tag, text))
  <2>1. 1 \in 1 .. Len(fields) /\ \A i, j \in 1 .. Len(fields) : i = j  BY <1>2
  <2>2. Has(FieldNodes(fields), fields[1][1], TextNode(fields[1][1], fields[1][2]))
    BY <1>3, <2>1, FieldHas
  <2> QED BY <1>2, <2>2
<1>6. \A other : other # tag => Lacks(FieldNodes(fields), other)
  <2>1. ASSUME NEW other, other # tag  PROVE Lacks(FieldNodes(fields), other)
    BY <1>2, <1>3, <2>1, FieldLacks
  <2> QED BY <2>1
<1> QED BY <1>1, <1>4, <1>5, <1>6, Zenon DEF OnlyField, Single

PartyTokens(idTag, id, descr, description) ==
  OnlyField(idTag, id) \o OptionalElement(descr, description)

\* One element.
One(tokens, node) == Writes(tokens, <<node>>)

PartyNode(node, tag, idTag, id, description) ==
  /\ node.tag = tag /\ IsWireParty(node, idTag)
  /\ Text(node, idTag) = id /\ Optional(node, "Description") = description

\* A field and an optional one.
LEMMA PartyContent ==
  ASSUME NEW tag, NEW idTag, NEW descr, Differ(idTag, descr), NEW id, IsSeq(id),
         NEW description, IsOption(description)
  PROVE  \E node :
           /\ One(Element(tag, PartyTokens(idTag, id, descr, description)), node)
           /\ node.tag = tag /\ Once(node, idTag) /\ Text(node, idTag) = id
           /\ AtMostOnce(node, descr) /\ Optional(node, descr) = description
<1>1. PICK a : /\ Writes(OnlyField(idTag, id), a)
               /\ Has(a, idTag, TextNode(idTag, id))
               /\ \A other : other # idTag => Lacks(a, other)
  BY OneField DEF Single
<1>2. PICK b : /\ Writes(OptionalElement(descr, description), b)
               /\ Offers(b, descr, description)
  BY OptionRead DEF Writes
<1>3. PICK content, fields :
        /\ fields = OnlyField(idTag, id)
        /\ content = fields \o OptionalElement(descr, description)
  OBVIOUS
<1>4. Writes(content, Cat(a, b)) /\ IsSeq(a) /\ IsSeq(b)
  BY <1>1, <1>2, <1>3, WritesTwo
<1>5. PICK node : /\ Writes(Element(tag, content), <<node>>)
                  /\ node.tag = tag /\ node.children = Cat(a, b) /\ IsSeq(node.children)
  BY <1>4, NodeWritten
<1>6. Has(node.children, idTag, TextNode(idTag, id))
  <2>1. Lacks(b, idTag)  BY <1>2 DEF Offers, Differ
  <2> QED BY <1>1, <1>4, <1>5, <2>1, HasCatLeft
<1>7. Lacks(a, descr)  BY <1>1 DEF Differ
<1>8. description = {} => Lacks(node.children, descr)
  BY <1>2, <1>4, <1>5, <1>7, LacksCat DEF Offers
<1>9. ASSUME NEW text, description = {text}
      PROVE  Has(node.children, descr, TextNode(descr, text))
  BY <1>2, <1>4, <1>5, <1>7, <1>9, HasCatRight DEF Offers
<1>10. AtMostOnce(node, descr) /\ Optional(node, descr) = description
  BY <1>5, <1>8, <1>9, NodeOffers
<1>11. Once(node, idTag) /\ Text(node, idTag) = id
  <2>1. TextNode(idTag, id).text = id  BY DEF TextNode, NodeOf
  <2> QED BY <1>5, <1>6, <2>1, NodeHas
<1>12. One(Element(tag, PartyTokens(idTag, id, descr, description)), node)
  BY <1>3, <1>5, Zenon DEF One, PartyTokens
<1> QED BY <1>5, <1>10, <1>11, <1>12

\* The name of a literal that the provers should not see.
IsDescription(tag) == tag = "Description"

\* A party of any tag, id and optional description reads back.
LEMMA PartyRead ==
  ASSUME NEW descr, IsDescription(descr),
         NEW tag, NEW idTag, Differ(idTag, descr), NEW id, IsSeq(id),
         NEW description, IsOption(description)
  PROVE  \E node : /\ One(PartyXml(tag, idTag, id, description), node)
                   /\ PartyNode(node, tag, idTag, id, description)
<1>1. \E node :
           /\ One(Element(tag, PartyTokens(idTag, id, descr, description)), node)
           /\ node.tag = tag /\ Once(node, idTag) /\ Text(node, idTag) = id
           /\ AtMostOnce(node, descr) /\ Optional(node, descr) = description
  BY PartyContent
<1> QED BY <1>1, Zenon DEF PartyXml, PartyTokens, OnlyField, PartyNode, IsWireParty, IsDescription

\* Children of different names, one after the other.
LEMMA ChildrenTwo ==
  ASSUME NEW a, NEW k, Writes(a, k), NEW b, NEW node, One(b, node),
         Lacks(k, node.tag)
  PROVE  \E kids :
           /\ Writes(Cat(a, b), kids) /\ Has(kids, node.tag, node)
           /\ \A tag, child : Has(k, tag, child) /\ tag # node.tag => Has(kids, tag, child)
           /\ \A tag : Lacks(k, tag) /\ tag # node.tag => Lacks(kids, tag)
<1>1. PICK one : one = <<node>> /\ Writes(b, one)  BY DEF One
<1>2. /\ IsSeq(one) /\ Has(one, node.tag, node)
      /\ \A tag : tag # node.tag => Lacks(one, tag)
  BY <1>1, OneChild
<1>3. Writes(Cat(a, b), Cat(k, one)) /\ IsSeq(k)  BY <1>1, WritesTwo, Zenon DEF Cat
<1>4. Has(Cat(k, one), node.tag, node)  BY <1>2, <1>3, HasCatRight
<1>5. ASSUME NEW tag, NEW child, Has(k, tag, child), tag # node.tag
      PROVE  Has(Cat(k, one), tag, child)
  BY <1>2, <1>3, <1>5, HasCatLeft
<1>6. ASSUME NEW tag, Lacks(k, tag), tag # node.tag  PROVE Lacks(Cat(k, one), tag)
  BY <1>2, <1>3, <1>6, LacksCat
<1> QED BY <1>3, <1>4, <1>5, <1>6

Three(kids, p, q, r) ==
  /\ Has(kids, p.tag, p) /\ Has(kids, q.tag, q) /\ Has(kids, r.tag, r)
  /\ \A tag : tag # p.tag /\ tag # q.tag /\ tag # r.tag => Lacks(kids, tag)

\* Three children of different tags are each found by their tag.
LEMMA ChildrenThree ==
  ASSUME NEW a, NEW b, NEW c, NEW p, NEW q, NEW r,
         One(a, p), One(b, q), One(c, r),
         Differ(p.tag, q.tag), Differ(p.tag, r.tag), Differ(q.tag, r.tag)
  PROVE  \E kids : /\ Writes(Cat(Cat(a, b), c), kids)
                   /\ Three(kids, p, q, r)
<1>1. PICK first : first = <<p>> /\ Writes(a, first)  BY DEF One
<1>2. /\ Has(first, p.tag, p) /\ \A tag : tag # p.tag => Lacks(first, tag)
      /\ Writes(a, first)
  BY <1>1, OneChild
<1>3. PICK k : /\ Writes(Cat(a, b), k) /\ Has(k, q.tag, q) /\ Has(k, p.tag, p)
               /\ \A tag : Lacks(first, tag) /\ tag # q.tag => Lacks(k, tag)
  <2>1. Lacks(first, q.tag)  BY <1>2 DEF Differ
  <2>2. \E k : /\ Writes(Cat(a, b), k) /\ Has(k, q.tag, q)
               /\ \A tag, child : Has(first, tag, child) /\ tag # q.tag => Has(k, tag, child)
               /\ \A tag : Lacks(first, tag) /\ tag # q.tag => Lacks(k, tag)
    BY <1>2, <2>1, ChildrenTwo
  <2> QED BY <1>2, <2>2 DEF Differ
<1>4. PICK ab : ab = Cat(a, b)  OBVIOUS
<1>5. PICK l : /\ Writes(Cat(ab, c), l) /\ Has(l, r.tag, r)
               /\ \A tag, child : Has(k, tag, child) /\ tag # r.tag => Has(l, tag, child)
               /\ \A tag : Lacks(k, tag) /\ tag # r.tag => Lacks(l, tag)
  <2>1. Lacks(k, r.tag)  BY <1>2, <1>3 DEF Differ
  <2> QED BY <1>3, <1>4, <2>1, ChildrenTwo
<1>6. Has(l, p.tag, p) /\ Has(l, q.tag, q)  BY <1>3, <1>5 DEF Differ
<1>7. \A tag : tag # p.tag /\ tag # q.tag /\ tag # r.tag => Lacks(l, tag)
  BY <1>2, <1>3, <1>5
<1> QED BY <1>4, <1>5, <1>6, <1>7 DEF Three

\* Four children of different tags are each found by their tag.
LEMMA ChildrenFour ==
  ASSUME NEW a, NEW b, NEW c, NEW d, NEW p, NEW q, NEW r, NEW s,
         One(a, p), One(b, q), One(c, r), One(d, s),
         Differ(p.tag, q.tag), Differ(p.tag, r.tag), Differ(q.tag, r.tag),
         Differ(p.tag, s.tag), Differ(q.tag, s.tag), Differ(r.tag, s.tag)
  PROVE  \E kids : /\ Writes(Cat(Cat(Cat(a, b), c), d), kids)
                   /\ Has(kids, p.tag, p) /\ Has(kids, q.tag, q)
                   /\ Has(kids, r.tag, r) /\ Has(kids, s.tag, s)
<1>0. PICK k : Writes(Cat(Cat(a, b), c), k) /\ Three(k, p, q, r)
  BY ChildrenThree
<1>1.          /\ Writes(Cat(Cat(a, b), c), k)
               /\ Has(k, p.tag, p) /\ Has(k, q.tag, q) /\ Has(k, r.tag, r)
               /\ \A tag : tag # p.tag /\ tag # q.tag /\ tag # r.tag => Lacks(k, tag)
  BY <1>0 DEF Three
<1>2. PICK abc : abc = Cat(Cat(a, b), c)  OBVIOUS
<1>3. PICK l : /\ Writes(Cat(abc, d), l) /\ Has(l, s.tag, s)
               /\ \A tag, child : Has(k, tag, child) /\ tag # s.tag => Has(l, tag, child)
  <2>1. Lacks(k, s.tag)  BY <1>1 DEF Differ
  <2> QED BY <1>1, <1>2, <2>1, ChildrenTwo
<1>4. Has(l, p.tag, p) /\ Has(l, q.tag, q) /\ Has(l, r.tag, r)  BY <1>1, <1>3 DEF Differ
<1> QED BY <1>2, <1>3, <1>4

\* A party and a route as records of a sequence and an option.
IsParty(party) ==
  /\ IsSeq(party.party_id) /\ IsOption(party.description)
  /\ party = [party_id |-> party.party_id, description |-> party.description]

IsRoute(route) ==
  /\ IsSeq(route.routing_id) /\ IsOption(route.description)
  /\ route = [routing_id |-> route.routing_id, description |-> route.description]

IsRouting(routing) ==
  /\ IsParty(routing.from) /\ IsRoute(routing.from_vac)
  /\ IsParty(routing.to) /\ IsRoute(routing.to_vac)
  /\ routing = [from |-> routing.from, from_vac |-> routing.from_vac,
                to |-> routing.to, to_vac |-> routing.to_vac]

IsPartyId(tag)   == tag = "PartyId"
IsRoutingInfo(tag) == tag = "RoutingInfo"
IsRoutingId(tag) == tag = "RoutingId"
AreSides(from, fromVac, to, toVac) ==
  from = "From" /\ fromVac = "FromVAC" /\ to = "To" /\ toVac = "ToVAC"

PartyXmlOf(tag, party) == PartyXml(tag, "PartyId", party.party_id, party.description)
RouteXmlOf(tag, route) == PartyXml(tag, "RoutingId", route.routing_id, route.description)

\* A From or To party of a result reads back.
LEMMA SenderRead ==
  ASSUME NEW tag, NEW party, IsParty(party)
  PROVE  \E node : /\ One(PartyXmlOf(tag, party), node) /\ node.tag = tag
                   /\ IsWireParty(node, "PartyId") /\ ResultParty(node) = party
<1>1. PICK idTag, descr : IsPartyId(idTag) /\ IsDescription(descr)
  BY Zenon DEF IsPartyId, IsDescription
<1>2. Differ(idTag, descr)
  <2>1. Differ("PartyId", "Description")  BY DEF Differ
  <2> QED BY <1>1, <2>1, Zenon DEF IsPartyId, IsDescription
<1>3. PICK id, description : id = party.party_id /\ description = party.description
  OBVIOUS
<1>4. IsSeq(id) /\ IsOption(description)  BY <1>3 DEF IsParty
<1>5. PICK node : /\ One(PartyXml(tag, idTag, id, description), node)
                  /\ PartyNode(node, tag, idTag, id, description)
  BY <1>1, <1>2, <1>4, PartyRead
<1>6. node.tag = tag /\ IsWireParty(node, "PartyId")
  BY <1>1, <1>5, Zenon DEF PartyNode, IsPartyId
<1>7. ResultParty(node) = [party_id |-> id, description |-> description]
  BY <1>1, <1>5, Zenon DEF PartyNode, IsPartyId, ResultParty
<1>8. ResultParty(node) = party
  BY <1>3, <1>7, Zenon DEF IsParty
<1>9. One(PartyXmlOf(tag, party), node)
  BY <1>1, <1>3, <1>5, Zenon DEF PartyXmlOf, IsPartyId
<1> QED BY <1>6, <1>8, <1>9

\* A FromVAC or ToVAC route of a result reads back.
LEMMA RouteRead ==
  ASSUME NEW tag, NEW route, IsRoute(route)
  PROVE  \E node : /\ One(RouteXmlOf(tag, route), node) /\ node.tag = tag
                   /\ IsWireParty(node, "RoutingId") /\ ResultRoute(node) = route
<1>1. PICK idTag, descr : IsRoutingId(idTag) /\ IsDescription(descr)
  BY Zenon DEF IsRoutingId, IsDescription
<1>2. Differ(idTag, descr)
  <2>1. Differ("RoutingId", "Description")  BY DEF Differ
  <2> QED BY <1>1, <2>1, Zenon DEF IsRoutingId, IsDescription
<1>3. PICK id, description : id = route.routing_id /\ description = route.description
  OBVIOUS
<1>4. IsSeq(id) /\ IsOption(description)  BY <1>3 DEF IsRoute
<1>5. PICK node : /\ One(PartyXml(tag, idTag, id, description), node)
                  /\ PartyNode(node, tag, idTag, id, description)
  BY <1>1, <1>2, <1>4, PartyRead
<1>6. node.tag = tag /\ IsWireParty(node, "RoutingId")
  BY <1>1, <1>5, Zenon DEF PartyNode, IsRoutingId
<1>7. ResultRoute(node) = [routing_id |-> id, description |-> description]
  BY <1>1, <1>5, Zenon DEF PartyNode, IsRoutingId, ResultRoute
<1>8. ResultRoute(node) = route
  BY <1>3, <1>7, Zenon DEF IsRoute
<1>9. One(RouteXmlOf(tag, route), node)
  BY <1>1, <1>3, <1>5, Zenon DEF RouteXmlOf, IsRoutingId
<1> QED BY <1>6, <1>8, <1>9

\* An element, by name.
LEMMA OneWritten ==
  ASSUME NEW tag, NEW content, NEW kids, Writes(content, kids)
  PROVE  \E node : /\ One(Element(tag, content), node)
                   /\ node.tag = tag /\ node.children = kids /\ IsSeq(node.children)
<1>1. PICK node : node = NodeOf(tag, kids, <<>>)  OBVIOUS
<1>2. node.tag = tag /\ node.children = kids  BY <1>1 DEF NodeOf
<1>3. IsSeq(kids)  BY DEF Reads, Writes
<1>4. Writes(Element(tag, content), <<node>>)
  BY <1>1, ReadsElement DEF Writes
<1> QED BY <1>2, <1>3, <1>4, Zenon DEF One

\* A child found by its name.
LEMMA FoundChild ==
  ASSUME NEW node, IsSeq(node.children), NEW child, Has(node.children, child.tag, child),
         NEW tag, child.tag = tag
  PROVE  Once(node, tag) /\ Child(node, tag) = child
<1>1. Has(node.children, tag, child)  OBVIOUS
<1> QED BY <1>1, NodeHas

RoutingNode(node, routing) ==
  node.tag = "RoutingInfo" /\ IsWireRouting(node) /\ ResultRouting(node) = routing

\* The routing of a result reads back and has the shape quick-xml asks for.
LEMMA RoutingRead ==
  ASSUME NEW routing, IsRouting(routing)
  PROVE  \E node : One(RoutingXml(routing), node) /\ RoutingNode(node, routing)
<1>1. PICK from, fromVac, to, toVac : AreSides(from, fromVac, to, toVac)
  BY Zenon DEF AreSides
<1>2. /\ Differ(from, fromVac) /\ Differ(from, to) /\ Differ(fromVac, to)
      /\ Differ(from, toVac) /\ Differ(fromVac, toVac) /\ Differ(to, toVac)
  <2>1. /\ Differ("From", "FromVAC") /\ Differ("From", "To") /\ Differ("FromVAC", "To")
        /\ Differ("From", "ToVAC") /\ Differ("FromVAC", "ToVAC") /\ Differ("To", "ToVAC")
    BY DEF Differ
  <2> QED BY <1>1, <2>1, Zenon DEF AreSides
<1>3. PICK rf, rfv, rt, rtv :
        /\ rf = routing.from /\ rfv = routing.from_vac
        /\ rt = routing.to /\ rtv = routing.to_vac
  OBVIOUS
<1>4. IsParty(rf) /\ IsRoute(rfv) /\ IsParty(rt) /\ IsRoute(rtv)
  BY <1>3 DEF IsRouting
<1>5. PICK p : /\ One(PartyXmlOf(from, rf), p) /\ p.tag = from
               /\ IsWireParty(p, "PartyId") /\ ResultParty(p) = rf
  BY <1>4, SenderRead
<1>6. PICK q : /\ One(RouteXmlOf(fromVac, rfv), q) /\ q.tag = fromVac
               /\ IsWireParty(q, "RoutingId") /\ ResultRoute(q) = rfv
  BY <1>4, RouteRead
<1>7. PICK r : /\ One(PartyXmlOf(to, rt), r) /\ r.tag = to
               /\ IsWireParty(r, "PartyId") /\ ResultParty(r) = rt
  BY <1>4, SenderRead
<1>8. PICK s : /\ One(RouteXmlOf(toVac, rtv), s) /\ s.tag = toVac
               /\ IsWireParty(s, "RoutingId") /\ ResultRoute(s) = rtv
  BY <1>4, RouteRead
<1>9. PICK a, b, c, d :
        /\ a = PartyXmlOf(from, rf) /\ b = RouteXmlOf(fromVac, rfv)
        /\ c = PartyXmlOf(to, rt) /\ d = RouteXmlOf(toVac, rtv)
  OBVIOUS
<1>10. One(a, p) /\ One(b, q) /\ One(c, r) /\ One(d, s)
  BY <1>5, <1>6, <1>7, <1>8, <1>9, Zenon
<1>11. /\ Differ(p.tag, q.tag) /\ Differ(p.tag, r.tag) /\ Differ(q.tag, r.tag)
       /\ Differ(p.tag, s.tag) /\ Differ(q.tag, s.tag) /\ Differ(r.tag, s.tag)
  BY <1>2, <1>5, <1>6, <1>7, <1>8, Zenon
<1>12. PICK kids : /\ Writes(Cat(Cat(Cat(a, b), c), d), kids)
                   /\ Has(kids, p.tag, p) /\ Has(kids, q.tag, q)
                   /\ Has(kids, r.tag, r) /\ Has(kids, s.tag, s)
  BY <1>10, <1>11, ChildrenFour
<1>20. PICK top : IsRoutingInfo(top)  BY Zenon DEF IsRoutingInfo
<1>13. PICK node : /\ One(Element(top, Cat(Cat(Cat(a, b), c), d)), node)
                   /\ node.tag = top /\ node.children = kids
                   /\ IsSeq(node.children)
  BY <1>12, OneWritten
<1>14. One(RoutingXml(routing), node)
  BY <1>1, <1>3, <1>9, <1>13, <1>20, Zenon
     DEF IsRoutingInfo, RoutingXml, Cat, PartyXmlOf, RouteXmlOf, AreSides
<1>15. /\ Once(node, from) /\ Child(node, from) = p
       /\ Once(node, fromVac) /\ Child(node, fromVac) = q
       /\ Once(node, to) /\ Child(node, to) = r
       /\ Once(node, toVac) /\ Child(node, toVac) = s
  <2>1. node.children = kids /\ IsSeq(node.children)  BY <1>13
  <2>2. /\ Has(node.children, p.tag, p) /\ Has(node.children, q.tag, q)
        /\ Has(node.children, r.tag, r) /\ Has(node.children, s.tag, s)
    BY <1>12, <2>1, Zenon
  <2>3. Once(node, from) /\ Child(node, from) = p  BY <1>5, <2>1, <2>2, FoundChild, Zenon
  <2>4. Once(node, fromVac) /\ Child(node, fromVac) = q  BY <1>6, <2>1, <2>2, FoundChild, Zenon
  <2>5. Once(node, to) /\ Child(node, to) = r  BY <1>7, <2>1, <2>2, FoundChild, Zenon
  <2>6. Once(node, toVac) /\ Child(node, toVac) = s  BY <1>8, <2>1, <2>2, FoundChild, Zenon
  <2> QED BY <2>3, <2>4, <2>5, <2>6
<1>16. IsWireRouting(node)
  BY <1>1, <1>5, <1>6, <1>7, <1>8, <1>15, Zenon DEF IsWireRouting, AreSides
<1>17. ResultRouting(node) = [from |-> rf, from_vac |-> rfv, to |-> rt, to_vac |-> rtv]
  BY <1>1, <1>5, <1>6, <1>7, <1>8, <1>15, Zenon DEF ResultRouting, AreSides
<1>18. ResultRouting(node) = routing
  BY <1>3, <1>17, Zenon DEF IsRouting
<1> QED BY <1>13, <1>14, <1>16, <1>18, <1>20, Zenon DEF RoutingNode, IsRoutingInfo

\* An element whose children are fields of different names.
LEMMA NodeFields ==
  ASSUME NEW tag, NEW fields, IsSeq(fields),
         \A i \in 1 .. Len(fields) : IsSeq(fields[i][2]),
         \A i, j \in 1 .. Len(fields) : fields[i][1] = fields[j][1] => i = j
  PROVE  \E node :
           /\ One(Element(tag, Elements(fields)), node) /\ node.tag = tag
           /\ \A p \in 1 .. Len(fields) : /\ Once(node, fields[p][1])
                                          /\ Text(node, fields[p][1]) = fields[p][2]
<1>1. PICK content, kids : content = Elements(fields) /\ kids = FieldNodes(fields)
  OBVIOUS
<1>2. Writes(content, kids)  BY <1>1, FieldsRead DEF Writes
<1>3. PICK node : /\ One(Element(tag, content), node)
                  /\ node.tag = tag /\ node.children = kids /\ IsSeq(node.children)
  BY <1>2, OneWritten
<1>4. ASSUME NEW p \in 1 .. Len(fields)
      PROVE  Once(node, fields[p][1]) /\ Text(node, fields[p][1]) = fields[p][2]
  <2>1. PICK name, text : name = fields[p][1] /\ text = fields[p][2]  OBVIOUS
  <2>2. Has(node.children, name, TextNode(name, text))
    BY <1>1, <1>3, <2>1, FieldHas
  <2>3. TextNode(name, text).text = text  BY DEF TextNode, NodeOf
  <2>4. Once(node, name) /\ Text(node, name) = text
    BY <1>3, <2>2, <2>3, NodeHas
  <2> QED BY <2>1, <2>4
<1> QED BY <1>1, <1>3, <1>4

Fields(a, x, b, y) == << <<a, x>>, <<b, y>> >>
Field5(a, v, b, w, c, x, d, y, e, z) ==
  << <<a, v>>, <<b, w>>, <<c, x>>, <<d, y>>, <<e, z>> >>

\* An element of two text fields reads back.
LEMMA TwoFields ==
  ASSUME NEW tag, NEW a, NEW x, NEW b, NEW y, Differ(a, b), IsSeq(x), IsSeq(y)
  PROVE  \E node : /\ One(Element(tag, Elements(Fields(a, x, b, y))), node)
                   /\ node.tag = tag
                   /\ Once(node, a) /\ Text(node, a) = x
                   /\ Once(node, b) /\ Text(node, b) = y
<1>1. PICK fields : fields = Fields(a, x, b, y)  OBVIOUS
<1>2. /\ Len(fields) = 2
      /\ fields[1][1] = a /\ fields[1][2] = x /\ fields[2][1] = b /\ fields[2][2] = y
  BY <1>1 DEF Fields
<1>3. IsSeq(fields)
  <2>1. PICK p, q : p = <<a, x>> /\ q = <<b, y>>  OBVIOUS
  <2>2. <<p, q>> \in Seq({p, q})  OBVIOUS
  <2> QED BY <1>1, <2>1, <2>2 DEF Fields, IsSeq
<1>4. \A i \in 1 .. Len(fields) : IsSeq(fields[i][2])
  <2>1. \A i \in 1 .. 2 : i = 1 \/ i = 2  OBVIOUS
  <2> QED BY <1>2, <2>1
<1>5. \A i, j \in 1 .. Len(fields) : fields[i][1] = fields[j][1] => i = j
  <2>1. \A i \in 1 .. 2 : i = 1 \/ i = 2  OBVIOUS
  <2> QED BY <1>2, <2>1 DEF Differ
<1>6. PICK node :
        /\ One(Element(tag, Elements(fields)), node) /\ node.tag = tag
        /\ \A p \in 1 .. Len(fields) : /\ Once(node, fields[p][1])
                                       /\ Text(node, fields[p][1]) = fields[p][2]
  BY <1>3, <1>4, <1>5, NodeFields
<1>7. 1 \in 1 .. Len(fields) /\ 2 \in 1 .. Len(fields)  BY <1>2
<1>8. Once(node, a) /\ Text(node, a) = x /\ Once(node, b) /\ Text(node, b) = y
  BY <1>2, <1>6, <1>7
<1> QED BY <1>1, <1>6, <1>8

\* An element of five text fields reads back.
LEMMA FiveFields ==
  ASSUME NEW tag, NEW a, NEW v, NEW b, NEW w, NEW c, NEW x, NEW d, NEW y, NEW e, NEW z,
         Differ(a, b), Differ(a, c), Differ(a, d), Differ(a, e), Differ(b, c),
         Differ(b, d), Differ(b, e), Differ(c, d), Differ(c, e), Differ(d, e),
         IsSeq(v), IsSeq(w), IsSeq(x), IsSeq(y), IsSeq(z)
  PROVE  \E node : /\ One(Element(tag, Elements(Field5(a, v, b, w, c, x, d, y, e, z))), node)
                   /\ node.tag = tag
                   /\ Once(node, a) /\ Text(node, a) = v
                   /\ Once(node, b) /\ Text(node, b) = w
                   /\ Once(node, c) /\ Text(node, c) = x
                   /\ Once(node, d) /\ Text(node, d) = y
                   /\ Once(node, e) /\ Text(node, e) = z
<1>1. PICK fields : fields = Field5(a, v, b, w, c, x, d, y, e, z)  OBVIOUS
<1>2. /\ Len(fields) = 5
      /\ fields[1][1] = a /\ fields[1][2] = v /\ fields[2][1] = b /\ fields[2][2] = w
      /\ fields[3][1] = c /\ fields[3][2] = x /\ fields[4][1] = d /\ fields[4][2] = y
      /\ fields[5][1] = e /\ fields[5][2] = z
  BY <1>1 DEF Field5
<1>3. IsSeq(fields)
  <2>1. PICK p, q, r, s, t : /\ p = <<a, v>> /\ q = <<b, w>> /\ r = <<c, x>>
                             /\ s = <<d, y>> /\ t = <<e, z>>
    OBVIOUS
  <2>2. <<p, q, r, s, t>> \in Seq({p, q, r, s, t})  OBVIOUS
  <2> QED BY <1>1, <2>1, <2>2 DEF Field5, IsSeq
<1>0. \A i \in 1 .. 5 : i = 1 \/ i = 2 \/ i = 3 \/ i = 4 \/ i = 5  OBVIOUS
<1>4. \A i \in 1 .. Len(fields) : IsSeq(fields[i][2])
  BY <1>0, <1>2
<1>5. \A i, j \in 1 .. Len(fields) : fields[i][1] = fields[j][1] => i = j
  BY <1>0, <1>2 DEF Differ
<1>6. PICK node :
        /\ One(Element(tag, Elements(fields)), node) /\ node.tag = tag
        /\ \A p \in 1 .. Len(fields) : /\ Once(node, fields[p][1])
                                       /\ Text(node, fields[p][1]) = fields[p][2]
  BY <1>3, <1>4, <1>5, NodeFields
<1>7. /\ 1 \in 1 .. Len(fields) /\ 2 \in 1 .. Len(fields) /\ 3 \in 1 .. Len(fields)
      /\ 4 \in 1 .. Len(fields) /\ 5 \in 1 .. Len(fields)
  BY <1>2
<1>8. /\ Once(node, a) /\ Text(node, a) = v /\ Once(node, b) /\ Text(node, b) = w
      /\ Once(node, c) /\ Text(node, c) = x /\ Once(node, d) /\ Text(node, d) = y
      /\ Once(node, e) /\ Text(node, e) = z
  BY <1>2, <1>6, <1>7
<1> QED BY <1>1, <1>6, <1>8

IsInfo(info) ==
  /\ IsSeq(info.id) /\ IsSeq(info.size) /\ IsSeq(info.message_type)
  /\ IsSeq(info.service) /\ IsSeq(info.action)
  /\ info = [id |-> info.id, size |-> info.size, message_type |-> info.message_type,
             service |-> info.service, action |-> info.action]

AreInfoTags(a, b, c, d, e) ==
  a = "Id" /\ b = "Size" /\ c = "MessageType" /\ d = "Service" /\ e = "Action"

InfoNode(node, tag, info) ==
  node.tag = tag /\ IsWireMessageInfo(node) /\ MessageInfo(node) = info

\* The message information of a result reads back.
LEMMA InfoRead ==
  ASSUME NEW tag, NEW info, IsInfo(info)
  PROVE  \E node : One(InfoXml(tag, info), node) /\ InfoNode(node, tag, info)
<1>1. PICK a, b, c, d, e : AreInfoTags(a, b, c, d, e)  BY Zenon DEF AreInfoTags
<1>2. /\ Differ(a, b) /\ Differ(a, c) /\ Differ(a, d) /\ Differ(a, e) /\ Differ(b, c)
      /\ Differ(b, d) /\ Differ(b, e) /\ Differ(c, d) /\ Differ(c, e) /\ Differ(d, e)
  <2>1. /\ Differ("Id", "Size") /\ Differ("Id", "MessageType") /\ Differ("Id", "Service")
        /\ Differ("Id", "Action") /\ Differ("Size", "MessageType")
        /\ Differ("Size", "Service") /\ Differ("Size", "Action")
        /\ Differ("MessageType", "Service") /\ Differ("MessageType", "Action")
        /\ Differ("Service", "Action")
    BY DEF Differ
  <2> QED BY <1>1, <2>1, Zenon DEF AreInfoTags
<1>3. PICK v, w, x, y, z : /\ v = info.id /\ w = info.size /\ x = info.message_type
                           /\ y = info.service /\ z = info.action
  OBVIOUS
<1>4. IsSeq(v) /\ IsSeq(w) /\ IsSeq(x) /\ IsSeq(y) /\ IsSeq(z)  BY <1>3 DEF IsInfo
<1>5. PICK node : /\ One(Element(tag, Elements(Field5(a, v, b, w, c, x, d, y, e, z))), node)
                  /\ node.tag = tag
                  /\ Once(node, a) /\ Text(node, a) = v
                  /\ Once(node, b) /\ Text(node, b) = w
                  /\ Once(node, c) /\ Text(node, c) = x
                  /\ Once(node, d) /\ Text(node, d) = y
                  /\ Once(node, e) /\ Text(node, e) = z
  BY <1>2, <1>4, FiveFields
<1>6. One(InfoXml(tag, info), node)
  BY <1>1, <1>3, <1>5, Zenon DEF InfoXml, Field5, AreInfoTags
<1>7. IsWireMessageInfo(node)
  BY <1>1, <1>5, Zenon DEF IsWireMessageInfo, AreInfoTags
<1>8. MessageInfo(node) = [id |-> v, size |-> w, message_type |-> x, service |-> y, action |-> z]
  BY <1>1, <1>5, Zenon DEF MessageInfo, AreInfoTags
<1>9. MessageInfo(node) = info  BY <1>3, <1>8, Zenon DEF IsInfo
<1> QED BY <1>5, <1>6, <1>7, <1>9, Zenon DEF InfoNode

\* What a field that may be missing shows among the children.
Shows(kids, tag, option) ==
  /\ option = {} => Lacks(kids, tag)
  /\ \A text : option = {text} => Has(kids, tag, TextNode(tag, text))

\* Children added under this name: the others are as they were.
Grows(kids, k, tag) ==
  /\ \A other : Lacks(k, other) /\ other # tag => Lacks(kids, other)
  /\ \A other, node : Has(k, other, node) /\ other # tag => Has(kids, other, node)

\* An optional field after other children.
LEMMA OptionAdded ==
  ASSUME NEW a, NEW k, Writes(a, k), NEW tag, NEW option, IsOption(option), Lacks(k, tag)
  PROVE  \E kids :
           /\ Writes(Cat(a, OptionalElement(tag, option)), kids)
           /\ Shows(kids, tag, option) /\ Grows(kids, k, tag)
<1>1. PICK b : b = OptionalElement(tag, option)  OBVIOUS
<1>2. PICK l : Writes(b, l) /\ Offers(l, tag, option)
  BY <1>1, OptionRead DEF Writes
<1>3. Writes(Cat(a, b), Cat(k, l)) /\ IsSeq(k) /\ IsSeq(l)
  BY <1>2, WritesTwo, Zenon DEF Cat
<1>4. option = {} => Lacks(Cat(k, l), tag)  BY <1>2, <1>3, LacksCat DEF Offers
<1>5. ASSUME NEW text, option = {text}  PROVE Has(Cat(k, l), tag, TextNode(tag, text))
  BY <1>2, <1>3, <1>5, HasCatRight DEF Offers
<1>6. ASSUME NEW other, Lacks(k, other), other # tag  PROVE Lacks(Cat(k, l), other)
  BY <1>2, <1>3, <1>6, LacksCat DEF Offers
<1>7. ASSUME NEW other, NEW node, Has(k, other, node), other # tag
      PROVE  Has(Cat(k, l), other, node)
  BY <1>2, <1>3, <1>7, HasCatLeft DEF Offers
<1>8. Shows(Cat(k, l), tag, option)  BY <1>4, <1>5 DEF Shows
<1>9. Grows(Cat(k, l), k, tag)  BY <1>6, <1>7 DEF Grows
<1> QED BY <1>1, <1>3, <1>8, <1>9

\* It goes on showing what other fields show.
LEMMA ShowsKept ==
  ASSUME NEW k, NEW kids, NEW tag, NEW other, NEW option, Shows(k, other, option), other # tag,
         Grows(kids, k, tag)
  PROVE  Shows(kids, other, option)
BY DEF Shows, Grows

\* A prefix one longer has one more element.
LEMMA PrefixAdd ==
  ASSUME NEW parts, IsSeq(parts), NEW n \in Nat, n + 1 <= Len(parts)
  PROVE  /\ SubSeq(parts, 1, n + 1) = Add(SubSeq(parts, 1, n), parts[n + 1])
         /\ SubSeq(parts, 1, 0) = <<>>
<1>1. PICK K : parts \in Seq(K)  BY DEF IsSeq
<1>2. SubSeq(parts, 1, n + 1) = Append(SubSeq(parts, 1, n), parts[n + 1])
  BY <1>1
<1> QED BY <1>1, <1>2 DEF Add

\* Each part is the optional element of its name; the names differ.
AreOptions(parts, tags, options) ==
  /\ IsSeq(parts)
  /\ \A i \in 1 .. Len(parts) :
       IsOption(options[i]) /\ parts[i] = OptionalElement(tags[i], options[i])
  /\ \A i, j \in 1 .. Len(parts) : tags[i] = tags[j] => i = j

ShowsAll(kids, tags, options, n) ==
  /\ \A i \in 1 .. n : Shows(kids, tags[i], options[i])
  /\ \A other : (\A i \in 1 .. n : other # tags[i]) => Lacks(kids, other)

\* A list of optional fields of different names.
LEMMA OptionsRead ==
  ASSUME NEW parts, NEW tags, NEW options, AreOptions(parts, tags, options)
  PROVE  \E kids : Writes(FlattenSeq(parts), kids) /\ ShowsAll(kids, tags, options, Len(parts))
<1>0. /\ IsSeq(parts)
      /\ \A i \in 1 .. Len(parts) :
           IsOption(options[i]) /\ parts[i] = OptionalElement(tags[i], options[i])
      /\ \A i, j \in 1 .. Len(parts) : tags[i] = tags[j] => i = j
  BY DEF AreOptions
<1>1. PICK K : parts \in Seq(K)  BY <1>0 DEF IsSeq
<1>2. PICK T : T = UNION {{parts[i][j] : j \in 1 .. Len(parts[i])} : i \in 1 .. Len(parts)}
  OBVIOUS
<1>3. ASSUME NEW i \in 1 .. Len(parts)  PROVE parts[i] \in Seq(T)
  <2>1. PICK p : p = parts[i]  OBVIOUS
  <2>2. IsSeq(p)  BY <1>0, <2>1, OptionRead DEF Reads
  <2>3. PICK L : p \in Seq(L)  BY <2>2 DEF IsSeq
  <2>4. ASSUME NEW j \in 1 .. Len(p)  PROVE p[j] \in T
    BY <1>2, <2>1
  <2> QED BY <2>1, <2>3, <2>4
<1>4. parts \in Seq(Seq(T)) /\ Len(parts) \in Nat  BY <1>1, <1>3
<1> DEFINE Prefix(n) == SubSeq(parts, 1, n)
           N == {n \in Nat : n <= Len(parts) =>
                   \E kids : Writes(FlattenSeq(Prefix(n)), kids) /\ ShowsAll(kids, tags, options, n)}
<1>5. 0 \in N
  <2>1. Prefix(0) = <<>>  BY <1>4
  <2>2. FlattenSeq(Prefix(0)) = <<>>
    <3>1. FlattenSeq(<<>>) = <<>>  BY DEF FlattenSeq
    <3> QED BY <2>1, <3>1, Zenon
  <2>3. Writes(<<>>, <<>>)  BY ReadsNothing DEF Writes
  <2>4. PICK none : none = <<>> /\ Writes(none, none)  BY <2>3
  <2>5. \A other : Lacks(none, other)  BY <2>4, NoChild
  <2>6. \A i \in 1 .. 0 : FALSE  OBVIOUS
  <2>7. ShowsAll(none, tags, options, 0)  BY <2>5, <2>6 DEF ShowsAll
  <2> QED BY <2>2, <2>4, <2>7
<1>6. ASSUME NEW n \in Nat, n \in N  PROVE n + 1 \in N
  <2>1. SUFFICES ASSUME n + 1 <= Len(parts)
                 PROVE  \E kids : /\ Writes(FlattenSeq(Prefix(n + 1)), kids)
                                  /\ ShowsAll(kids, tags, options, n + 1)
    OBVIOUS
  <2>2. PICK flat, p, e : flat = FlattenSeq(p) /\ p = Prefix(n) /\ e = parts[n + 1]
    OBVIOUS
  <2>3. PICK k : Writes(flat, k) /\ ShowsAll(k, tags, options, n)
    BY <1>4, <1>6, <2>1, <2>2
  <2>4. p \in Seq(Seq(T)) /\ e \in Seq(T) /\ n + 1 \in 1 .. Len(parts)
    BY <1>4, <2>1, <2>2
  <2>5. FlattenSeq(Prefix(n + 1)) = Cat(flat, e)
    <3>1. Prefix(n + 1) = Add(p, e)  BY <1>0, <2>1, <2>2, PrefixAdd
    <3> QED BY <2>2, <2>4, <3>1, FlattenAdd
  <2>6. PICK tag, option : tag = tags[n + 1] /\ option = options[n + 1]  OBVIOUS
  <2>7. e = OptionalElement(tag, option) /\ IsOption(option)
    BY <1>0, <2>2, <2>4, <2>6
  <2>8. \A i \in 1 .. n : tag # tags[i]
    <3>1. \A i \in 1 .. n : i \in 1 .. Len(parts) /\ i # n + 1  BY <1>4, <2>1
    <3> QED BY <1>0, <2>4, <2>6, <3>1
  <2>9. Lacks(k, tag)  BY <2>3, <2>8 DEF ShowsAll
  <2>10. PICK kids :
           Writes(Cat(flat, e), kids) /\ Shows(kids, tag, option) /\ Grows(kids, k, tag)
    BY <2>3, <2>7, <2>9, OptionAdded
  <2>11. ASSUME NEW i \in 1 .. n + 1  PROVE Shows(kids, tags[i], options[i])
    <3>1. CASE i = n + 1  BY <2>6, <2>10, <3>1
    <3>2. CASE i # n + 1
      <4>1. i \in 1 .. n  BY <3>2
      <4>2. PICK other, o : other = tags[i] /\ o = options[i]  OBVIOUS
      <4>3. Shows(k, other, o) /\ other # tag  BY <2>3, <2>8, <4>1, <4>2 DEF ShowsAll
      <4> QED BY <2>10, <4>2, <4>3, ShowsKept
    <3> QED BY <3>1, <3>2
  <2>12. ASSUME NEW other, \A i \in 1 .. n + 1 : other # tags[i]  PROVE Lacks(kids, other)
    <3>1. n + 1 \in 1 .. n + 1 /\ \A i \in 1 .. n : i \in 1 .. n + 1  OBVIOUS
    <3>2. Lacks(k, other) /\ other # tag  BY <2>3, <2>6, <2>12, <3>1 DEF ShowsAll
    <3> QED BY <2>10, <3>2 DEF Grows
  <2> QED BY <2>5, <2>10, <2>11, <2>12 DEF ShowsAll
<1>7. Len(parts) \in N
  <2> HIDE DEF N
  <2> QED BY <1>4, <1>5, <1>6, NatInduct
<1>8. Prefix(Len(parts)) = parts  BY <1>4, SubSeqFull
<1>9. \E kids : /\ Writes(FlattenSeq(Prefix(Len(parts))), kids)
                /\ ShowsAll(kids, tags, options, Len(parts))
  BY <1>4, <1>7
<1> QED BY <1>8, <1>9, Zenon

\* An optional field is the same when others follow it.
LEMMA ShowsLeft ==
  ASSUME NEW k, NEW l, IsSeq(k), IsSeq(l), NEW tag, NEW option, Shows(k, tag, option),
         Lacks(l, tag)
  PROVE  Shows(Cat(k, l), tag, option)
<1>1. option = {} => Lacks(Cat(k, l), tag)  BY LacksCat DEF Shows
<1>2. ASSUME NEW text, option = {text}  PROVE Has(Cat(k, l), tag, TextNode(tag, text))
  BY <1>2, HasCatLeft DEF Shows
<1> QED BY <1>1, <1>2 DEF Shows

\* An optional field is the same when others precede it.
LEMMA ShowsRight ==
  ASSUME NEW k, NEW l, IsSeq(k), IsSeq(l), NEW tag, NEW option, Shows(l, tag, option),
         Lacks(k, tag)
  PROVE  Shows(Cat(k, l), tag, option)
<1>1. option = {} => Lacks(Cat(k, l), tag)  BY LacksCat DEF Shows
<1>2. ASSUME NEW text, option = {text}  PROVE Has(Cat(k, l), tag, TextNode(tag, text))
  BY <1>2, HasCatRight DEF Shows
<1> QED BY <1>1, <1>2 DEF Shows

\* What the deserializers make of a field that may be missing.
LEMMA NodeShows ==
  ASSUME NEW node, IsSeq(node.children), NEW tag, NEW option, IsOption(option),
         Shows(node.children, tag, option)
  PROVE  AtMostOnce(node, tag) /\ Optional(node, tag) = option
BY NodeOffers DEF Shows

AreParameters(tags) == tags = Parameters

\* The five parameters of a diagnostic have different names.
LEMMA ParameterNames ==
  /\ DOMAIN Parameters = 1 .. 5
  /\ \A i, j \in 1 .. 5 : Parameters[i] = Parameters[j] => i = j
  /\ \A i \in 1 .. 5 : Differ("Code", Parameters[i]) /\ Differ("Description", Parameters[i])
  /\ ToSet(Parameters) = {Parameters[i] : i \in 1 .. 5}
<1>1. DOMAIN Parameters = 1 .. 5  BY DEF Parameters
<1>2. \A i \in 1 .. 5 : i = 1 \/ i = 2 \/ i = 3 \/ i = 4 \/ i = 5  OBVIOUS
<1>3. \A i, j \in 1 .. 5 : Parameters[i] = Parameters[j] => i = j
  BY <1>2 DEF Parameters
<1>4. \A i \in 1 .. 5 : Differ("Code", Parameters[i]) /\ Differ("Description", Parameters[i])
  BY <1>2 DEF Parameters, Differ
<1>5. ToSet(Parameters) = {Parameters[i] : i \in 1 .. 5}  BY <1>1, Zenon DEF ToSet
<1> QED BY <1>1, <1>3, <1>4, <1>5

Apart(main, descr, tags, n) ==
  /\ Differ(main, descr)
  /\ \A i \in 1 .. n : Differ(main, tags[i]) /\ Differ(descr, tags[i])

FieldNode(node, tag, main, text, descr, option) ==
  /\ node.tag = tag /\ Once(node, main) /\ Text(node, main) = text
  /\ AtMostOnce(node, descr) /\ Optional(node, descr) = option

OptionsNode(node, tags, options, n) ==
  \A i \in 1 .. n : AtMostOnce(node, tags[i]) /\ Optional(node, tags[i]) = options[i]

\* One field, an optional one and a list of optional ones.
LEMMA FieldsAndOptions ==
  ASSUME NEW tag, NEW main, NEW text, IsSeq(text), NEW descr, NEW option, IsOption(option),
         NEW parts, NEW tags, NEW options, AreOptions(parts, tags, options),
         Apart(main, descr, tags, Len(parts))
  PROVE  \E node :
           /\ One(Element(tag, Cat(PartyTokens(main, text, descr, option), FlattenSeq(parts))),
                  node)
           /\ FieldNode(node, tag, main, text, descr, option)
           /\ OptionsNode(node, tags, options, Len(parts))
<1>1. PICK a : /\ Writes(OnlyField(main, text), a)
               /\ Has(a, main, TextNode(main, text))
               /\ \A other : other # main => Lacks(a, other)
  <2>1. \E a : Writes(OnlyField(main, text), a) /\ Single(a, main, text)  BY OneField
  <2> QED BY <2>1 DEF Single
<1>2. PICK first : first = OnlyField(main, text)  OBVIOUS
<1>3. PICK k : /\ Writes(Cat(first, OptionalElement(descr, option)), k)
               /\ Shows(k, descr, option) /\ Grows(k, a, descr)
  <2>1. Writes(first, a) /\ Lacks(a, descr)  BY <1>1, <1>2 DEF Differ, Apart
  <2> QED BY <2>1, OptionAdded
<1>4. PICK l : Writes(FlattenSeq(parts), l) /\ ShowsAll(l, tags, options, Len(parts))
  BY OptionsRead
<1>5. PICK t, u : t = PartyTokens(main, text, descr, option) /\ u = FlattenSeq(parts)
  OBVIOUS
<1>6. Writes(t, k)  BY <1>2, <1>3, <1>5, Zenon DEF PartyTokens, Cat
<1>7. Writes(Cat(t, u), Cat(k, l)) /\ IsSeq(k) /\ IsSeq(l)
  BY <1>4, <1>5, <1>6, WritesTwo, Zenon DEF Cat
<1>8. PICK node : /\ One(Element(tag, Cat(t, u)), node)
                  /\ node.tag = tag /\ node.children = Cat(k, l) /\ IsSeq(node.children)
  BY <1>7, OneWritten
<1>9. Lacks(l, main) /\ Lacks(l, descr)  BY <1>4 DEF ShowsAll, Differ, Apart
<1>10. \A i \in 1 .. Len(parts) : Lacks(k, tags[i])
  BY <1>1, <1>3 DEF Differ, Apart, Grows
<1>11. Once(node, main) /\ Text(node, main) = text
  <2>1. Has(k, main, TextNode(main, text))  BY <1>1, <1>3 DEF Differ, Apart, Grows
  <2>2. Has(node.children, main, TextNode(main, text))
    BY <1>7, <1>8, <1>9, <2>1, HasCatLeft
  <2>3. TextNode(main, text).text = text  BY DEF TextNode, NodeOf
  <2> QED BY <1>8, <2>2, <2>3, NodeHas
<1>12. AtMostOnce(node, descr) /\ Optional(node, descr) = option
  <2>1. Shows(node.children, descr, option)  BY <1>3, <1>7, <1>8, <1>9, ShowsLeft
  <2> QED BY <1>8, <2>1, NodeShows
<1>13. ASSUME NEW i \in 1 .. Len(parts)
       PROVE  AtMostOnce(node, tags[i]) /\ Optional(node, tags[i]) = options[i]
  <2>1. PICK other, o : other = tags[i] /\ o = options[i]  OBVIOUS
  <2>2. Shows(l, other, o) /\ Lacks(k, other) /\ IsOption(o)
    BY <1>4, <1>10, <2>1 DEF ShowsAll, AreOptions
  <2>3. Shows(node.children, other, o)  BY <1>7, <1>8, <2>2, ShowsRight
  <2>4. AtMostOnce(node, other) /\ Optional(node, other) = o
    BY <1>8, <2>2, <2>3, NodeShows
  <2> QED BY <2>1, <2>4
<1> QED BY <1>5, <1>8, <1>11, <1>12, <1>13 DEF FieldNode, OptionsNode

IsDiagnostic(d) ==
  /\ IsSeq(d.code) /\ IsOption(d.description)
  /\ \A k \in DOMAIN Parameters : IsOption(d.parameters[k])
  /\ d = [code |-> d.code, description |-> d.description,
          parameters |-> [k \in DOMAIN Parameters |-> d.parameters[k]]]

DiagnosticXml(d) ==
  Element("Info", Elements(<< <<"Code", d.code>> >>)
    \o OptionalElement("Description", d.description)
    \o FlattenSeq([k \in DOMAIN Parameters |->
         OptionalElement(Parameters[k], d.parameters[k])]))

DiagnosticNode(node, d) ==
  node.tag = "Info" /\ IsWireProcessDiagnostic(node) /\ ProcessDiagnostic(node) = d

AreCodeTags(tag, main, descr) == tag = "Info" /\ main = "Code" /\ descr = "Description"

\* A diagnostic reads back, its code, its description and its five optional
\* parameters.
LEMMA DiagnosticRead ==
  ASSUME NEW d, IsDiagnostic(d)
  PROVE  \E node : One(DiagnosticXml(d), node) /\ DiagnosticNode(node, d)
<1>1. PICK tag, main, descr, tags : AreCodeTags(tag, main, descr) /\ AreParameters(tags)
  BY Zenon DEF AreCodeTags, AreParameters
<1>2. /\ DOMAIN tags = 1 .. 5
      /\ \A i, j \in 1 .. 5 : tags[i] = tags[j] => i = j
      /\ \A i \in 1 .. 5 : Differ(main, tags[i]) /\ Differ(descr, tags[i])
  BY <1>1, ParameterNames, Zenon DEF AreCodeTags, AreParameters
<1>3. Differ(main, descr)
  <2>1. Differ("Code", "Description")  BY DEF Differ
  <2> QED BY <1>1, <2>1, Zenon DEF AreCodeTags
<1>4. PICK text, option, options :
        text = d.code /\ option = d.description /\ options = d.parameters
  OBVIOUS
<1>5. IsSeq(text) /\ IsOption(option) /\ \A i \in 1 .. 5 : IsOption(options[i])
  BY <1>1, <1>2, <1>4, Zenon DEF IsDiagnostic, AreParameters
<1>6. PICK parts : parts = [k \in 1 .. 5 |-> OptionalElement(tags[k], options[k])]
  OBVIOUS
<1>7. /\ Len(parts) = 5
      /\ \A i \in 1 .. 5 : parts[i] = OptionalElement(tags[i], options[i])
  BY <1>6
<1>8. IsSeq(parts)
  <2>1. PICK K : K = {OptionalElement(tags[k], options[k]) : k \in 1 .. 5}  OBVIOUS
  <2>2. parts \in Seq(K)  BY <1>6, <2>1
  <2> QED BY <2>2 DEF IsSeq
<1>9. PICK node :
           /\ One(Element(tag, Cat(PartyTokens(main, text, descr, option), FlattenSeq(parts))),
                  node)
           /\ node.tag = tag /\ Once(node, main) /\ Text(node, main) = text
           /\ AtMostOnce(node, descr) /\ Optional(node, descr) = option
           /\ \A i \in 1 .. 5 : /\ AtMostOnce(node, tags[i])
                                /\ Optional(node, tags[i]) = options[i]
  <2>1. AreOptions(parts, tags, options)  BY <1>2, <1>5, <1>7, <1>8 DEF AreOptions
  <2>2. Apart(main, descr, tags, Len(parts))  BY <1>2, <1>3, <1>7 DEF Apart
  <2>3. PICK node :
           /\ One(Element(tag, Cat(PartyTokens(main, text, descr, option), FlattenSeq(parts))),
                  node)
           /\ FieldNode(node, tag, main, text, descr, option)
           /\ OptionsNode(node, tags, options, Len(parts))
    BY <1>5, <2>1, <2>2, FieldsAndOptions
  <2> QED BY <1>7, <2>3, Zenon DEF FieldNode, OptionsNode
<1>10. One(DiagnosticXml(d), node)
  BY <1>1, <1>2, <1>4, <1>6, <1>9, Zenon
     DEF DiagnosticXml, PartyTokens, OnlyField, Cat, AreCodeTags, AreParameters
<1>11. IsWireProcessDiagnostic(node)
  <2>1. ToSet(Parameters) = {tags[i] : i \in 1 .. 5}
    BY <1>1, ParameterNames, Zenon DEF AreParameters
  <2>2. Once(node, "Code") /\ AtMostOnce(node, "Description")
    BY <1>1, <1>9, Zenon DEF AreCodeTags
  <2>3. ASSUME NEW name \in ToSet(Parameters)  PROVE AtMostOnce(node, name)
    BY <1>9, <2>1, Zenon
  <2> QED BY <2>2, <2>3, Zenon DEF IsWireProcessDiagnostic
<1>12. ProcessDiagnostic(node) = d
  <2>1. [k \in DOMAIN Parameters |-> Optional(node, Parameters[k])]
          = [k \in DOMAIN Parameters |-> d.parameters[k]]
    <3>1. \A k \in 1 .. 5 : Optional(node, tags[k]) = d.parameters[k]
      BY <1>4, <1>9, Zenon
    <3>2. \A k \in DOMAIN Parameters : Optional(node, Parameters[k]) = d.parameters[k]
      BY <1>1, <1>2, <3>1, Zenon DEF AreParameters
    <3> QED BY <3>2, Zenon
  <2>2. Text(node, "Code") = d.code /\ Optional(node, "Description") = d.description
    BY <1>1, <1>4, <1>9, Zenon DEF AreCodeTags
  <2> QED BY <2>1, <2>2, Zenon DEF ProcessDiagnostic, IsDiagnostic
<1>13. node.tag = "Info"  BY <1>1, <1>9, Zenon DEF AreCodeTags
<1> QED BY <1>10, <1>11, <1>12, <1>13, Zenon DEF DiagnosticNode

ListNode(node, item, nodes) ==
  /\ Listed(node, item) /\ Places(node, item) = 1 .. Len(nodes)
  /\ Children(node, item) = nodes /\ node.children = nodes

AreItems(parts, item, nodes) ==
  /\ IsSeq(parts) /\ IsSeq(nodes) /\ Len(nodes) = Len(parts) /\ Len(nodes) # 0
  /\ \A i \in 1 .. Len(parts) : One(parts[i], nodes[i]) /\ nodes[i].tag = item

\* An element that is a list of elements of one name.
LEMMA ListRead ==
  ASSUME NEW tag, NEW item, NEW parts, NEW nodes, AreItems(parts, item, nodes)
  PROVE  \E node : /\ One(Element(tag, FlattenSeq(parts)), node) /\ node.tag = tag
                   /\ ListNode(node, item, nodes)
<1>1. /\ IsSeq(parts) /\ IsSeq(nodes) /\ Len(nodes) = Len(parts) /\ Len(nodes) # 0
      /\ \A i \in 1 .. Len(parts) : One(parts[i], nodes[i]) /\ nodes[i].tag = item
  BY DEF AreItems
<1>2. ReadEach(parts, nodes)  BY <1>1 DEF ReadEach, One, Writes
<1>3. PICK content : content = FlattenSeq(parts)  OBVIOUS
<1>4. Writes(content, nodes)  BY <1>1, <1>2, <1>3, ReadsList DEF Writes
<1>5. PICK node : /\ One(Element(tag, content), node)
                  /\ node.tag = tag /\ node.children = nodes /\ IsSeq(node.children)
  BY <1>4, OneWritten
<1>6. node.children # <<>>  BY <1>1, <1>5
<1>7. \A i \in 1 .. Len(node.children) : node.children[i].tag = item
  BY <1>1, <1>5
<1>8. /\ Listed(node, item) /\ Places(node, item) = 1 .. Len(node.children)
      /\ Children(node, item) = node.children
  BY <1>5, <1>6, <1>7, NodeLists
<1> QED BY <1>3, <1>5, <1>8, Zenon DEF ListNode

\* A sequence is the function of its places.
LEMMA SeqOfPlaces ==
  ASSUME NEW s, IsSeq(s)
  PROVE  /\ DOMAIN s = 1 .. Len(s) /\ Len(s) \in Nat
         /\ s = [i \in 1 .. Len(s) |-> s[i]]
         /\ s # <<>> => Len(s) # 0
<1>1. PICK K : s \in Seq(K)  BY DEF IsSeq
<1> QED BY <1>1

\* And the function of something at each place is a sequence.
LEMMA PlacesSeq ==
  ASSUME NEW n \in Nat, NEW s, s = [i \in 1 .. n |-> s[i]]
  PROVE  IsSeq(s) /\ Len(s) = n
<1>1. PICK K : K = {s[i] : i \in 1 .. n}  OBVIOUS
<1>2. s \in [1 .. n -> K]  BY <1>1
<1> QED BY <1>2 DEF IsSeq

IsProcess(process) ==
  /\ IsRouting(process.routing) /\ IsInfo(process.message)
  /\ IsSeq(process.diagnostics) /\ process.diagnostics # <<>>
  /\ \A i \in DOMAIN process.diagnostics : IsDiagnostic(process.diagnostics[i])
  /\ process = [routing |-> process.routing, message |-> process.message,
                diagnostics |-> process.diagnostics]

AreProcessTags(root, info, result, item) ==
  root = "ProcessResult" /\ info = "MessageInfo" /\ result = "Result" /\ item = "Info"

IsInfoTag(item) == item = "Info"

DiagnosticOf(d) == CHOOSE node : One(DiagnosticXml(d), node) /\ DiagnosticNode(node, d)

DiagnosticsXml(tag, ds) == Element(tag, FlattenSeq([i \in DOMAIN ds |-> DiagnosticXml(ds[i])]))

DiagnosticsNode(node, tag, item, nodes, ds) ==
  /\ node.tag = tag /\ ListNode(node, item, nodes)
  /\ Len(nodes) = Len(ds) /\ DOMAIN nodes = DOMAIN ds
  /\ \A i \in DOMAIN ds : DiagnosticNode(nodes[i], ds[i])

\* A non-empty list of diagnostics reads back, in order.
LEMMA DiagnosticsRead ==
  ASSUME NEW tag, NEW item, IsInfoTag(item), NEW ds, IsSeq(ds), ds # <<>>,
         \A i \in DOMAIN ds : IsDiagnostic(ds[i])
  PROVE  \E node, nodes : /\ One(DiagnosticsXml(tag, ds), node)
                          /\ DiagnosticsNode(node, tag, item, nodes, ds)
<1>1. PICK n : n = Len(ds) /\ n \in Nat /\ n # 0 /\ DOMAIN ds = 1 .. n
  BY SeqOfPlaces, Zenon
<1>2. PICK parts : parts = [i \in 1 .. n |-> DiagnosticXml(ds[i])]  OBVIOUS
<1>3. PICK nodes : nodes = [i \in 1 .. n |-> DiagnosticOf(ds[i])]  OBVIOUS
<1>4. ASSUME NEW i \in 1 .. n
      PROVE  One(parts[i], nodes[i]) /\ DiagnosticNode(nodes[i], ds[i])
  <2>1. \E node : One(DiagnosticXml(ds[i]), node) /\ DiagnosticNode(node, ds[i])
    BY <1>1, DiagnosticRead, Zenon
  <2>2. One(DiagnosticXml(ds[i]), nodes[i]) /\ DiagnosticNode(nodes[i], ds[i])
    BY <1>3, <2>1, Zenon DEF DiagnosticOf
  <2>3. parts[i] = DiagnosticXml(ds[i])  BY <1>2, Zenon
  <2> QED BY <2>2, <2>3, Zenon
<1>5. IsSeq(parts) /\ Len(parts) = n /\ IsSeq(nodes) /\ Len(nodes) = n
  <2>1. parts = [i \in 1 .. n |-> parts[i]]  BY <1>2, Zenon
  <2>2. nodes = [i \in 1 .. n |-> nodes[i]]  BY <1>3, Zenon
  <2> QED BY <1>1, <2>1, <2>2, PlacesSeq, Zenon
<1>6. \A i \in 1 .. n : nodes[i].tag = item
  BY <1>4, Zenon DEF DiagnosticNode, IsInfoTag
<1>7. AreItems(parts, item, nodes)
  BY <1>1, <1>4, <1>5, <1>6, Zenon DEF AreItems
<1>8. PICK node : /\ One(Element(tag, FlattenSeq(parts)), node) /\ node.tag = tag
                  /\ ListNode(node, item, nodes)
  BY <1>7, ListRead, Zenon
<1>9. DOMAIN nodes = 1 .. n  BY <1>3, Zenon
<1> QED BY <1>1, <1>2, <1>4, <1>5, <1>8, <1>9, Zenon DEF DiagnosticsXml, DiagnosticsNode

ProcessNode(node, process) ==
  IsWireProcessResult(node) /\ ProcessResultOf(node) = process

\* A process result reads back, the routing, the message and the diagnostics of
\* it.
LEMMA ProcessRead ==
  ASSUME NEW process, IsProcess(process)
  PROVE  \E node : One(ProcessXml(process), node) /\ ProcessNode(node, process)
<1>1. PICK root, info, result, item : AreProcessTags(root, info, result, item)
  BY Zenon DEF AreProcessTags
<1>2. PICK ds, routing, message :
        /\ ds = process.diagnostics /\ routing = process.routing
        /\ message = process.message
  OBVIOUS
<1>3. /\ IsRouting(routing) /\ IsInfo(message) /\ IsSeq(ds) /\ ds # <<>>
      /\ \A i \in DOMAIN ds : IsDiagnostic(ds[i])
  BY <1>2, Zenon DEF IsProcess
<1>4. PICK p : One(RoutingXml(routing), p) /\ RoutingNode(p, routing)
  BY <1>3, RoutingRead
<1>5. PICK q : One(InfoXml(info, message), q) /\ InfoNode(q, info, message)
  BY <1>3, InfoRead
<1>6. PICK list : list = DiagnosticsXml(result, ds)  OBVIOUS
<1>7. PICK r, nodes : /\ One(list, r) /\ r.tag = result /\ ListNode(r, item, nodes)
                      /\ Len(nodes) = Len(ds) /\ DOMAIN nodes = DOMAIN ds
                      /\ \A i \in DOMAIN ds : DiagnosticNode(nodes[i], ds[i])
  <2>1. IsInfoTag(item)  BY <1>1, Zenon DEF AreProcessTags, IsInfoTag
  <2>2. PICK r, nodes : /\ One(DiagnosticsXml(result, ds), r)
                        /\ DiagnosticsNode(r, result, item, nodes, ds)
    BY <1>3, <2>1, DiagnosticsRead
  <2> QED BY <1>6, <2>2, Zenon DEF DiagnosticsNode
<1>8. Differ(p.tag, q.tag) /\ Differ(p.tag, r.tag) /\ Differ(q.tag, r.tag)
  <2>1. /\ Differ("RoutingInfo", "MessageInfo") /\ Differ("RoutingInfo", "Result")
        /\ Differ("MessageInfo", "Result")
    BY DEF Differ
  <2> QED BY <1>1, <1>4, <1>5, <1>7, <2>1, Zenon
          DEF AreProcessTags, RoutingNode, InfoNode
<1>9. PICK a, b : a = RoutingXml(routing) /\ b = InfoXml(info, message)  OBVIOUS
<1>10. PICK kids : Writes(Cat(Cat(a, b), list), kids) /\ Three(kids, p, q, r)
  <2>1. One(a, p) /\ One(b, q) /\ One(list, r)  BY <1>4, <1>5, <1>7, <1>9, Zenon
  <2> QED BY <1>8, <2>1, ChildrenThree
<1>11. PICK node : /\ One(Element(root, Cat(Cat(a, b), list)), node)
                   /\ node.children = kids /\ IsSeq(node.children)
  BY <1>10, OneWritten
<1>12. One(ProcessXml(process), node)
  BY <1>1, <1>2, <1>6, <1>9, <1>11, Zenon
     DEF AreProcessTags, ProcessXml, DiagnosticsXml, DiagnosticXml, Cat
<1>13. /\ Once(node, "RoutingInfo") /\ Child(node, "RoutingInfo") = p
       /\ Once(node, "MessageInfo") /\ Child(node, "MessageInfo") = q
       /\ Once(node, "Result") /\ Child(node, "Result") = r
  <2>1. /\ Has(node.children, p.tag, p) /\ Has(node.children, q.tag, q)
        /\ Has(node.children, r.tag, r)
    BY <1>10, <1>11, Zenon DEF Three
  <2>2. p.tag = "RoutingInfo" /\ q.tag = "MessageInfo" /\ r.tag = "Result"
    BY <1>1, <1>4, <1>5, <1>7, Zenon DEF AreProcessTags, RoutingNode, InfoNode
  <2>3. Once(node, "RoutingInfo") /\ Child(node, "RoutingInfo") = p
    BY <1>11, <2>1, <2>2, FoundChild, Zenon
  <2>4. Once(node, "MessageInfo") /\ Child(node, "MessageInfo") = q
    BY <1>11, <2>1, <2>2, FoundChild, Zenon
  <2>5. Once(node, "Result") /\ Child(node, "Result") = r
    BY <1>11, <2>1, <2>2, FoundChild, Zenon
  <2> QED BY <2>3, <2>4, <2>5
<1>14. /\ Listed(r, "Info") /\ Children(r, "Info") = nodes /\ r.children = nodes
       /\ Places(r, "Info") = DOMAIN ds
  <2>1. DOMAIN ds = 1 .. Len(nodes)
    BY <1>3, <1>7, SeqOfPlaces, Zenon
  <2> QED BY <1>1, <1>7, <2>1, Zenon DEF ListNode, AreProcessTags
<1>15. IsWireProcessResult(node)
  <2>1. IsWireRouting(p)  BY <1>4, Zenon DEF RoutingNode
  <2>2. IsWireMessageInfo(q)  BY <1>5, Zenon DEF InfoNode
  <2>3. \A i \in Places(r, "Info") : IsWireProcessDiagnostic(r.children[i])
    BY <1>7, <1>14, Zenon DEF DiagnosticNode
  <2> QED BY <1>13, <1>14, <2>1, <2>2, <2>3, Zenon DEF IsWireProcessResult
<1>16. ProcessResultOf(node) = process
  <2>1. ResultRouting(p) = routing  BY <1>4, Zenon DEF RoutingNode
  <2>2. MessageInfo(q) = message  BY <1>5, Zenon DEF InfoNode
  <2>3. [i \in DOMAIN nodes |-> ProcessDiagnostic(nodes[i])] = ds
    <3>1. [i \in DOMAIN nodes |-> ProcessDiagnostic(nodes[i])] = [i \in DOMAIN ds |-> ds[i]]
      BY <1>7, Zenon DEF DiagnosticNode
    <3>2. [i \in DOMAIN ds |-> ds[i]] = ds  BY <1>3, SeqOfPlaces, Zenon
    <3> QED BY <3>1, <3>2, Zenon
  <2> QED BY <1>2, <1>13, <1>14, <2>1, <2>2, <2>3, Zenon DEF ProcessResultOf, IsProcess
<1> QED BY <1>12, <1>15, <1>16, Zenon DEF ProcessNode

\* A sign in front of a text is its first character, the text is the rest.
LEMMA MinusFirst ==
  ASSUME NEW minus, NEW t, IsSeq(t)
  PROVE  /\ (<<minus>> \o t)[1] = minus /\ Tail(<<minus>> \o t) = t
         /\ <<minus>> \o t # <<>> /\ IsSeq(<<minus>> \o t)
<1>1. PICK K : t \in Seq(K)  BY DEF IsSeq
<1>2. PICK L : L = K \cup {minus}  OBVIOUS
<1>3. t \in Seq(L) /\ <<minus>> \in Seq(L)  BY <1>1, <1>2
<1>4. PICK u : u = <<minus>> \o t  OBVIOUS
<1>5. /\ u \in Seq(L) /\ u[1] = minus /\ Len(u) = Len(t) + 1 /\ Len(t) \in Nat
      /\ \A i \in 1 .. Len(t) : u[i + 1] = t[i]
  BY <1>3, <1>4
<1>6. Tail(u) \in Seq(L) /\ Len(Tail(u)) = Len(t) /\ u # <<>>
      /\ \A i \in 1 .. Len(t) : Tail(u)[i] = u[i + 1]
  BY <1>5
<1>7. Tail(u) = t  BY <1>3, <1>5, <1>6, SeqEqual
<1> QED BY <1>4, <1>5, <1>6, <1>7 DEF IsSeq

\* The count of a message reads back, whatever its sign; it is an i32 exactly
\* if it fits one.
LEMMA CountRead ==
  ASSUME NEW n \in Int
  PROVE  /\ IsSeq(Decimal(n)) /\ I32Value(Decimal(n)) = n
         /\ IsI32(Decimal(n)) <=> n \in Int32
<1> DEFINE m == IF n < 0 THEN -n ELSE n
           t == DecimalDigits[m]
<1>1. m \in Nat  OBVIOUS
<1>2. t \in Seq(Digits) /\ t # <<>> /\ Number(t) = m
  BY <1>1, DecimalReadBack
<1>3. n < 0 => Decimal(n) = <<"-">> \o t  BY DEF Decimal
<1>4. ~ (n < 0) => Decimal(n) = t  BY DEF Decimal
<1>5. n = IF n < 0 THEN -m ELSE m  OBVIOUS
<1> HIDE DEF m, t
<1>6. IsSeq(t)  BY <1>2 DEF IsSeq
<1>7. \A i \in DOMAIN t : t[i] \in Digits
  BY <1>2, ElementOfSeq
<1>8. t[1] \in Digits
  <2>1. 1 \in DOMAIN t  BY <1>2
  <2> QED BY <1>7, <2>1
<1>9. "-" \notin Digits /\ "+" \notin Digits  BY DEF Digits
<1>10. t[1] # "-" /\ t[1] # "+"  BY <1>8, <1>9, Zenon
<1>11. AllDigits(t)  BY <1>7 DEF AllDigits, ToSet
<1>12. CASE n < 0
  <2>1. PICK d : d = Decimal(n)  OBVIOUS
  <2>2. d[1] = "-" /\ Tail(d) = t /\ d # <<>> /\ IsSeq(d)
    BY <1>3, <1>6, <1>12, <2>1, MinusFirst, Zenon
  <2>3. Unsigned(d) = t  BY <2>2, Zenon DEF Unsigned
  <2>4. I32Value(d) = - m  BY <1>2, <2>2, <2>3, Zenon DEF I32Value
  <2>5. - m = n  BY <1>1, <1>5, <1>12
  <2> QED BY <1>2, <1>11, <2>1, <2>2, <2>3, <2>4, <2>5, Zenon DEF IsI32
<1>13. CASE ~ (n < 0)
  <2>1. Unsigned(t) = t  BY <1>10, Zenon DEF Unsigned
  <2>2. I32Value(t) = m  BY <1>2, <1>10, <2>1, Zenon DEF I32Value
  <2>3. m = n  BY <1>5, <1>13
  <2> QED BY <1>2, <1>4, <1>6, <1>11, <1>13, <2>1, <2>2, <2>3, Zenon DEF IsI32
<1> QED BY <1>12, <1>13

IsReference(invoice) ==
  /\ IsSeq(invoice.reference_number) /\ IsSeq(invoice.invoice_date)
  /\ invoice = [reference_number |-> invoice.reference_number,
                invoice_date |-> invoice.invoice_date]

ReferenceXml(invoice) ==
  Element("Invoice", Elements(<<
    <<"ReferenceNumber", invoice.reference_number>>, <<"InvoiceDate", invoice.invoice_date>> >>))

ReferenceNode(node, invoice) ==
  node.tag = "Invoice" /\ IsWireInvoiceReference(node) /\ InvoiceReference(node) = invoice

AreReferenceTags(tag, a, b) == tag = "Invoice" /\ a = "ReferenceNumber" /\ b = "InvoiceDate"

\* A reference to an invoice reads back, its number and its date.
LEMMA ReferenceRead ==
  ASSUME NEW invoice, IsReference(invoice)
  PROVE  \E node : One(ReferenceXml(invoice), node) /\ ReferenceNode(node, invoice)
<1>1. PICK tag, a, b : AreReferenceTags(tag, a, b)  BY Zenon DEF AreReferenceTags
<1>2. Differ(a, b)
  <2>1. Differ("ReferenceNumber", "InvoiceDate")  BY DEF Differ
  <2> QED BY <1>1, <2>1, Zenon DEF AreReferenceTags
<1>3. PICK x, y : x = invoice.reference_number /\ y = invoice.invoice_date  OBVIOUS
<1>4. IsSeq(x) /\ IsSeq(y)  BY <1>3 DEF IsReference
<1>5. PICK node : /\ One(Element(tag, Elements(Fields(a, x, b, y))), node)
                  /\ node.tag = tag
                  /\ Once(node, a) /\ Text(node, a) = x
                  /\ Once(node, b) /\ Text(node, b) = y
  BY <1>2, <1>4, TwoFields
<1>6. One(ReferenceXml(invoice), node)
  BY <1>1, <1>3, <1>5, Zenon DEF ReferenceXml, Fields, AreReferenceTags
<1>7. node.tag = "Invoice" /\ IsWireInvoiceReference(node)
  BY <1>1, <1>5, Zenon DEF IsWireInvoiceReference, AreReferenceTags
<1>8. InvoiceReference(node) = [reference_number |-> x, invoice_date |-> y]
  BY <1>1, <1>5, Zenon DEF InvoiceReference, AreReferenceTags
<1>9. InvoiceReference(node) = invoice  BY <1>3, <1>8, Zenon DEF IsReference
<1> QED BY <1>6, <1>7, <1>9, Zenon DEF ReferenceNode

\* The list of the invoices of a count.
IsInvoiceTag(item) == item = "Invoice"

ReferenceOf(invoice) ==
  CHOOSE node : One(ReferenceXml(invoice), node) /\ ReferenceNode(node, invoice)

ReferencesXml(tag, invoices) ==
  Element(tag, FlattenSeq([i \in DOMAIN invoices |-> ReferenceXml(invoices[i])]))

ReferencesNode(node, tag, item, nodes, invoices) ==
  /\ node.tag = tag /\ ListNode(node, item, nodes)
  /\ Len(nodes) = Len(invoices) /\ DOMAIN nodes = DOMAIN invoices
  /\ \A i \in DOMAIN invoices : ReferenceNode(nodes[i], invoices[i])

\* A non-empty list of references reads back, in order.
LEMMA ReferencesRead ==
  ASSUME NEW tag, NEW item, IsInvoiceTag(item), NEW ds, IsSeq(ds), ds # <<>>,
         \A i \in DOMAIN ds : IsReference(ds[i])
  PROVE  \E node, nodes : /\ One(ReferencesXml(tag, ds), node)
                          /\ ReferencesNode(node, tag, item, nodes, ds)
<1>1. PICK n : n = Len(ds) /\ n \in Nat /\ n # 0 /\ DOMAIN ds = 1 .. n
  BY SeqOfPlaces, Zenon
<1>2. PICK parts : parts = [i \in 1 .. n |-> ReferenceXml(ds[i])]  OBVIOUS
<1>3. PICK nodes : nodes = [i \in 1 .. n |-> ReferenceOf(ds[i])]  OBVIOUS
<1>4. ASSUME NEW i \in 1 .. n
      PROVE  One(parts[i], nodes[i]) /\ ReferenceNode(nodes[i], ds[i])
  <2>1. \E node : One(ReferenceXml(ds[i]), node) /\ ReferenceNode(node, ds[i])
    BY <1>1, ReferenceRead, Zenon
  <2>2. One(ReferenceXml(ds[i]), nodes[i]) /\ ReferenceNode(nodes[i], ds[i])
    BY <1>3, <2>1, Zenon DEF ReferenceOf
  <2>3. parts[i] = ReferenceXml(ds[i])  BY <1>2, Zenon
  <2> QED BY <2>2, <2>3, Zenon
<1>5. IsSeq(parts) /\ Len(parts) = n /\ IsSeq(nodes) /\ Len(nodes) = n
  <2>1. parts = [i \in 1 .. n |-> parts[i]]  BY <1>2, Zenon
  <2>2. nodes = [i \in 1 .. n |-> nodes[i]]  BY <1>3, Zenon
  <2> QED BY <1>1, <2>1, <2>2, PlacesSeq, Zenon
<1>6. \A i \in 1 .. n : nodes[i].tag = item
  BY <1>4, Zenon DEF ReferenceNode, IsInvoiceTag
<1>7. AreItems(parts, item, nodes)
  BY <1>1, <1>4, <1>5, <1>6, Zenon DEF AreItems
<1>8. PICK node : /\ One(Element(tag, FlattenSeq(parts)), node) /\ node.tag = tag
                  /\ ListNode(node, item, nodes)
  BY <1>7, ListRead, Zenon
<1>9. DOMAIN nodes = 1 .. n  BY <1>3, Zenon
<1> QED BY <1>1, <1>2, <1>4, <1>5, <1>8, <1>9, Zenon DEF ReferencesXml, ReferencesNode

\* An element with one child.
LEMMA OnlyChild ==
  ASSUME NEW tag, NEW content, NEW child, One(content, child)
  PROVE  \E node : /\ One(Element(tag, content), node)
                   /\ node.tag = tag /\ Once(node, child.tag) /\ Child(node, child.tag) = child
<1>1. PICK kids : kids = <<child>> /\ Writes(content, kids)  BY DEF One
<1>2. IsSeq(kids) /\ Has(kids, child.tag, child)  BY <1>1, OneChild
<1>3. PICK node : /\ One(Element(tag, content), node)
                  /\ node.tag = tag /\ node.children = kids /\ IsSeq(node.children)
  BY <1>1, OneWritten
<1>4. Has(node.children, child.tag, child)  BY <1>2, <1>3
<1>5. Once(node, child.tag) /\ Child(node, child.tag) = child
  BY <1>3, <1>4, FoundChild
<1> QED BY <1>3, <1>5

IsDetail(detail) ==
  /\ detail.count \in Int /\ IsSeq(detail.invoices)
  /\ \A i \in DOMAIN detail.invoices : IsReference(detail.invoices[i])
  /\ detail = [count |-> detail.count, invoices |-> detail.invoices]

\* A count and, if there are any, its invoices.
DetailXml(tag, count, list, text, invoices) ==
  Element(tag, Element(count, PushTextEscaped(text))
    \o IF invoices = <<>> THEN <<>> ELSE ReferencesXml(list, invoices))

AreDetailTags(tag, count, list, item) ==
  tag = "ResultDetailType" /\ count = "Count" /\ list = "Invoices" /\ item = "Invoice"

DetailChildren(node, count, list, text, invoices) ==
  /\ Once(node, count) /\ Text(node, count) = text
  /\ AtMostOnce(node, list)
  /\ invoices = <<>> => ~ HasChild(node, list)
  /\ invoices # <<>> => /\ HasChild(node, list)
                        /\ \E item, nodes :
                             /\ IsInvoiceTag(item)
                             /\ ReferencesNode(Child(node, list), list, item, nodes, invoices)

\* The count and the references of a bucket are written as two children, the
\* second only if there are any.
LEMMA DetailWritten ==
  ASSUME NEW tag, NEW count, NEW list, Differ(count, list), NEW text, IsSeq(text),
         NEW invoices, IsSeq(invoices), \A i \in DOMAIN invoices : IsReference(invoices[i])
  PROVE  \E node : /\ One(DetailXml(tag, count, list, text, invoices), node)
                   /\ node.tag = tag /\ DetailChildren(node, count, list, text, invoices)
<1>1. PICK c, p : c = Element(count, PushTextEscaped(text)) /\ p = TextNode(count, text)
  OBVIOUS
<1>2. One(c, p) /\ p.tag = count /\ p.text = text
  BY <1>1, TextElement, Zenon DEF One, Writes
<1>3. PICK k : k = <<p>> /\ Writes(c, k)  BY <1>2 DEF One
<1>4. /\ IsSeq(k) /\ Has(k, count, p) /\ \A other : other # count => Lacks(k, other)
  BY <1>2, <1>3, OneChild
<1>5. IsSeq(c)  BY <1>3 DEF Writes, Reads
<1>6. CASE invoices = <<>>
  <2>1. PICK node : /\ One(Element(tag, c), node)
                    /\ node.tag = tag /\ node.children = k /\ IsSeq(node.children)
    BY <1>3, OneWritten
  <2>2. Cat(c, <<>>) = c  BY <1>5, CatFacts
  <2>3. One(DetailXml(tag, count, list, text, invoices), node)
    BY <1>1, <1>6, <2>1, <2>2, Zenon DEF DetailXml, Cat
  <2>4. Has(node.children, count, p) /\ Lacks(node.children, list)
    BY <1>4, <2>1 DEF Differ
  <2>5. Once(node, count) /\ Text(node, count) = text
    BY <1>2, <2>1, <2>4, NodeHas
  <2>6. AtMostOnce(node, list) /\ ~ HasChild(node, list)
    BY <2>1, <2>4, NodeLacks
  <2> QED BY <1>6, <2>1, <2>3, <2>5, <2>6, Zenon DEF DetailChildren
<1>7. CASE invoices # <<>>
  <2>1. PICK item : IsInvoiceTag(item)  BY Zenon DEF IsInvoiceTag
  <2>2. PICK q, nodes : /\ One(ReferencesXml(list, invoices), q)
                        /\ ReferencesNode(q, list, item, nodes, invoices)
    BY <1>7, <2>1, ReferencesRead
  <2>3. q.tag = list  BY <2>2 DEF ReferencesNode
  <2>4. PICK d : d = ReferencesXml(list, invoices)  OBVIOUS
  <2>5. PICK kids : /\ Writes(Cat(c, d), kids) /\ Has(kids, list, q) /\ Has(kids, count, p)
    <3>1. Lacks(k, q.tag)  BY <1>4, <2>3 DEF Differ
    <3>2. \E kids :
           /\ Writes(Cat(c, d), kids) /\ Has(kids, q.tag, q)
           /\ \A t, child : Has(k, t, child) /\ t # q.tag => Has(kids, t, child)
           /\ \A t : Lacks(k, t) /\ t # q.tag => Lacks(kids, t)
      BY <1>3, <2>2, <2>4, <3>1, ChildrenTwo
    <3> QED BY <1>4, <2>3, <3>2 DEF Differ
  <2>6. PICK node : /\ One(Element(tag, Cat(c, d)), node)
                    /\ node.tag = tag /\ node.children = kids /\ IsSeq(node.children)
    BY <2>5, OneWritten
  <2>7. One(DetailXml(tag, count, list, text, invoices), node)
    BY <1>1, <1>7, <2>4, <2>6, Zenon DEF DetailXml, Cat
  <2>8. Has(node.children, count, p) /\ Has(node.children, list, q)
    BY <2>5, <2>6
  <2>9. Once(node, count) /\ Text(node, count) = text
    BY <1>2, <2>6, <2>8, NodeHas
  <2>10. AtMostOnce(node, list) /\ HasChild(node, list) /\ Child(node, list) = q
    BY <2>6, <2>8, NodeHas
  <2> QED BY <1>7, <2>1, <2>2, <2>6, <2>7, <2>9, <2>10, Zenon DEF DetailChildren
<1> QED BY <1>6, <1>7

BucketNode(node, tag, detail) ==
  /\ node.tag = tag /\ Once(node, "ResultDetailType")
  /\ DetailOf(Child(node, "ResultDetailType")) = detail
  /\ IsWireResultDetail(Child(node, "ResultDetailType")) <=> detail.count \in Int32

\* A bucket reads back; quick-xml accepts its count exactly if it is an i32,
\* whatever its sign.
LEMMA DetailRead ==
  ASSUME NEW node, NEW detail, IsDetail(detail),
         DetailChildren(node, "Count", "Invoices", Decimal(detail.count), detail.invoices)
  PROVE  /\ DetailOf(node) = detail
         /\ IsWireResultDetail(node) <=> detail.count \in Int32
<1>1. PICK n, invoices : n = detail.count /\ invoices = detail.invoices  OBVIOUS
<1>2. /\ n \in Int /\ IsSeq(invoices) /\ detail = [count |-> n, invoices |-> invoices]
  BY <1>1, Zenon DEF IsDetail
<1>3. I32Value(Decimal(n)) = n /\ (IsI32(Decimal(n)) <=> n \in Int32)
  BY <1>2, CountRead, Zenon
<1>4. Once(node, "Count") /\ Text(node, "Count") = Decimal(n) /\ AtMostOnce(node, "Invoices")
  BY <1>1, Zenon DEF DetailChildren
<1>5. CASE invoices = <<>>
  <2>1. ~ HasChild(node, "Invoices")  BY <1>1, <1>5, Zenon DEF DetailChildren
  <2>2. DetailOf(node) = [count |-> I32Value(Text(node, "Count")),
                          invoices |-> [i \in DOMAIN <<>> |-> InvoiceReference(<<>>[i])]]
    BY <2>1, Zenon DEF DetailOf
  <2>3. [i \in DOMAIN <<>> |-> InvoiceReference(<<>>[i])] = <<>>
    <3>1. PICK none : none = <<>>  OBVIOUS
    <3>2. DOMAIN none = {}  BY <3>1
    <3>3. [i \in DOMAIN none |-> InvoiceReference(none[i])] = [i \in {} |-> InvoiceReference(none[i])]
      BY <3>2, Zenon
    <3>4. [i \in {} |-> InvoiceReference(none[i])] = <<>>  OBVIOUS
    <3> QED BY <3>1, <3>3, <3>4, Zenon
  <2>4. DetailOf(node) = detail  BY <1>2, <1>3, <1>4, <1>5, <2>2, <2>3, Zenon
  <2>5. IsWireResultDetail(node) <=> n \in Int32
    BY <1>3, <1>4, <2>1, Zenon DEF IsWireResultDetail
  <2> QED BY <1>1, <2>4, <2>5, Zenon
<1>6. CASE invoices # <<>>
  <2>1. HasChild(node, "Invoices")  BY <1>1, <1>6, Zenon DEF DetailChildren
  <2>2. PICK list : list = Child(node, "Invoices")  OBVIOUS
  <2>3. PICK item, nodes : /\ IsInvoiceTag(item)
                           /\ ReferencesNode(list, "Invoices", item, nodes, invoices)
    BY <1>1, <1>6, <2>2, Zenon DEF DetailChildren
  <2>4. /\ Listed(list, "Invoice") /\ Places(list, "Invoice") = 1 .. Len(nodes)
        /\ Children(list, "Invoice") = nodes /\ list.children = nodes
        /\ Len(nodes) = Len(invoices) /\ DOMAIN nodes = DOMAIN invoices
        /\ \A i \in DOMAIN invoices : ReferenceNode(nodes[i], invoices[i])
    BY <2>3, Zenon DEF ReferencesNode, ListNode, IsInvoiceTag
  <2>5. DOMAIN invoices = 1 .. Len(invoices) /\ invoices = [i \in 1 .. Len(invoices) |-> invoices[i]]
    BY <1>2, SeqOfPlaces
  <2>6. IsWireInvoices(list)
    <3>1. ASSUME NEW i \in Places(list, "Invoice")  PROVE IsWireInvoiceReference(list.children[i])
      BY <2>4, <2>5, Zenon DEF ReferenceNode
    <3> QED BY <2>4, <3>1, Zenon DEF IsWireInvoices
  <2>7. IsWireResultDetail(node) <=> n \in Int32
    BY <1>3, <1>4, <2>1, <2>2, <2>6, Zenon DEF IsWireResultDetail
  <2>8. DetailOf(node) = [count |-> I32Value(Text(node, "Count")),
                          invoices |-> [i \in DOMAIN nodes |-> InvoiceReference(nodes[i])]]
    BY <2>1, <2>2, <2>4, Zenon DEF DetailOf
  <2>9. [i \in DOMAIN nodes |-> InvoiceReference(nodes[i])] = invoices
    <3>1. \A i \in DOMAIN invoices : InvoiceReference(nodes[i]) = invoices[i]
      BY <2>4, Zenon DEF ReferenceNode
    <3>2. [i \in DOMAIN nodes |-> InvoiceReference(nodes[i])] = [i \in DOMAIN invoices |-> invoices[i]]
      BY <2>4, <3>1, Zenon
    <3> QED BY <2>5, <3>2, Zenon
  <2>10. DetailOf(node) = detail  BY <1>2, <1>3, <1>4, <2>8, <2>9, Zenon
  <2> QED BY <1>1, <2>7, <2>10, Zenon
<1> QED BY <1>5, <1>6, Zenon

\* A whole bucket of a summary reads back, ResultDetailType.
LEMMA BucketRead ==
  ASSUME NEW tag, NEW detail, IsDetail(detail)
  PROVE  \E node : One(BucketXml(tag, detail), node) /\ BucketNode(node, tag, detail)
<1>1. PICK inner, count, list, item : AreDetailTags(inner, count, list, item)
  BY Zenon DEF AreDetailTags
<1>2. Differ(count, list)
  <2>1. Differ("Count", "Invoices")  BY DEF Differ
  <2> QED BY <1>1, <2>1, Zenon DEF AreDetailTags
<1>3. PICK text, invoices : text = Decimal(detail.count) /\ invoices = detail.invoices
  OBVIOUS
<1>4. IsSeq(text) /\ IsSeq(invoices) /\ \A i \in DOMAIN invoices : IsReference(invoices[i])
  BY <1>3, CountRead DEF IsDetail
<1>5. PICK child : /\ One(DetailXml(inner, count, list, text, invoices), child)
                   /\ child.tag = inner /\ DetailChildren(child, count, list, text, invoices)
  BY <1>2, <1>4, DetailWritten
<1>6. PICK node : /\ One(Element(tag, DetailXml(inner, count, list, text, invoices)), node)
                  /\ node.tag = tag /\ Once(node, child.tag) /\ Child(node, child.tag) = child
  BY <1>5, OnlyChild
<1>7. One(BucketXml(tag, detail), node)
  BY <1>1, <1>3, <1>6, Zenon
     DEF BucketXml, DetailXml, ReferencesXml, ReferenceXml, AreDetailTags
<1>8. DetailChildren(child, "Count", "Invoices", Decimal(detail.count), detail.invoices)
  BY <1>1, <1>3, <1>5, Zenon DEF AreDetailTags
<1>9. /\ DetailOf(child) = detail /\ (IsWireResultDetail(child) <=> detail.count \in Int32)
  BY <1>8, DetailRead, Zenon
<1>10. Once(node, "ResultDetailType") /\ Child(node, "ResultDetailType") = child
  BY <1>1, <1>5, <1>6, Zenon DEF AreDetailTags
<1> QED BY <1>6, <1>7, <1>9, <1>10, Zenon DEF BucketNode

IsBreakdown(result) ==
  /\ IsDetail(result.total) /\ IsDetail(result.good) /\ IsDetail(result.failed)
  /\ result = [total |-> result.total, good |-> result.good, failed |-> result.failed]

\* The counts that a breakdown has to have as i32.
AllFit(result) ==
  /\ result.total.count \in Int32 /\ result.good.count \in Int32
  /\ result.failed.count \in Int32

BreakdownXml(tag, result) ==
  Element(tag, BucketXml("Total", result.total) \o BucketXml("Good", result.good)
                 \o BucketXml("Failed", result.failed))

BreakdownNode(node, tag, result) ==
  /\ node.tag = tag /\ ResultBreakdown(node) = result
  /\ IsWireResultBreakdown(node) <=> AllFit(result)

AreBuckets(a, b, c) == a = "Total" /\ b = "Good" /\ c = "Failed"

\* The total, good and failed buckets of a message read back.
LEMMA BreakdownRead ==
  ASSUME NEW tag, NEW result, IsBreakdown(result)
  PROVE  \E node : One(BreakdownXml(tag, result), node) /\ BreakdownNode(node, tag, result)
<1>1. PICK a, b, c : AreBuckets(a, b, c)  BY Zenon DEF AreBuckets
<1>2. Differ(a, b) /\ Differ(a, c) /\ Differ(b, c)
  <2>1. Differ("Total", "Good") /\ Differ("Total", "Failed") /\ Differ("Good", "Failed")
    BY DEF Differ
  <2> QED BY <1>1, <2>1, Zenon DEF AreBuckets
<1>3. PICK total, good, failed :
        total = result.total /\ good = result.good /\ failed = result.failed
  OBVIOUS
<1>4. IsDetail(total) /\ IsDetail(good) /\ IsDetail(failed)  BY <1>3 DEF IsBreakdown
<1>5. PICK p : One(BucketXml(a, total), p) /\ BucketNode(p, a, total)  BY <1>4, BucketRead
<1>6. PICK q : One(BucketXml(b, good), q) /\ BucketNode(q, b, good)  BY <1>4, BucketRead
<1>7. PICK r : One(BucketXml(c, failed), r) /\ BucketNode(r, c, failed)  BY <1>4, BucketRead
<1>8. p.tag = a /\ q.tag = b /\ r.tag = c  BY <1>5, <1>6, <1>7, Zenon DEF BucketNode
<1>9. PICK x, y, z : x = BucketXml(a, total) /\ y = BucketXml(b, good) /\ z = BucketXml(c, failed)
  OBVIOUS
<1>10. PICK kids : Writes(Cat(Cat(x, y), z), kids) /\ Three(kids, p, q, r)
  <2>1. One(x, p) /\ One(y, q) /\ One(z, r)  BY <1>5, <1>6, <1>7, <1>9, Zenon
  <2>2. Differ(p.tag, q.tag) /\ Differ(p.tag, r.tag) /\ Differ(q.tag, r.tag)
    BY <1>2, <1>8, Zenon
  <2> QED BY <2>1, <2>2, ChildrenThree
<1>11. PICK node : /\ One(Element(tag, Cat(Cat(x, y), z)), node)
                   /\ node.tag = tag /\ node.children = kids /\ IsSeq(node.children)
  BY <1>10, OneWritten
<1>12. One(BreakdownXml(tag, result), node)
  BY <1>1, <1>3, <1>9, <1>11, Zenon DEF BreakdownXml, AreBuckets, Cat
<1>13. /\ Once(node, "Total") /\ Child(node, "Total") = p
       /\ Once(node, "Good") /\ Child(node, "Good") = q
       /\ Once(node, "Failed") /\ Child(node, "Failed") = r
  <2>1. /\ Has(node.children, p.tag, p) /\ Has(node.children, q.tag, q)
        /\ Has(node.children, r.tag, r)
    BY <1>10, <1>11, Zenon DEF Three
  <2>2. p.tag = "Total" /\ q.tag = "Good" /\ r.tag = "Failed"
    BY <1>1, <1>8, Zenon DEF AreBuckets
  <2>3. Once(node, "Total") /\ Child(node, "Total") = p
    BY <1>11, <2>1, <2>2, FoundChild, Zenon
  <2>4. Once(node, "Good") /\ Child(node, "Good") = q
    BY <1>11, <2>1, <2>2, FoundChild, Zenon
  <2>5. Once(node, "Failed") /\ Child(node, "Failed") = r
    BY <1>11, <2>1, <2>2, FoundChild, Zenon
  <2> QED BY <2>3, <2>4, <2>5
<1>14. ResultBreakdown(node) = result
  <2>1. Bucket(node, "Total") = total /\ Bucket(node, "Good") = good /\ Bucket(node, "Failed") = failed
    BY <1>5, <1>6, <1>7, <1>13, Zenon DEF Bucket, BucketNode
  <2> QED BY <1>3, <2>1, Zenon DEF ResultBreakdown, IsBreakdown
<1>15. IsWireResultBreakdown(node) <=> AllFit(result)
  <2>1. /\ Once(p, "ResultDetailType") /\ Once(q, "ResultDetailType")
        /\ Once(r, "ResultDetailType")
        /\ IsWireResultDetail(Child(p, "ResultDetailType")) <=> total.count \in Int32
        /\ IsWireResultDetail(Child(q, "ResultDetailType")) <=> good.count \in Int32
        /\ IsWireResultDetail(Child(r, "ResultDetailType")) <=> failed.count \in Int32
    BY <1>5, <1>6, <1>7, Zenon DEF BucketNode
  <2>2. AllFit(result) => IsWireResultBreakdown(node)
    BY <1>3, <1>13, <2>1, Zenon DEF IsWireResultBreakdown, AllFit
  <2>3. IsWireResultBreakdown(node) => AllFit(result)
    <3>1. IsWireResultBreakdown(node) =>
            /\ IsWireResultDetail(Child(Child(node, "Total"), "ResultDetailType"))
            /\ IsWireResultDetail(Child(Child(node, "Good"), "ResultDetailType"))
            /\ IsWireResultDetail(Child(Child(node, "Failed"), "ResultDetailType"))
      BY Zenon DEF IsWireResultBreakdown
    <3> QED BY <1>3, <1>13, <2>1, <3>1, Zenon DEF AllFit
  <2> QED BY <2>2, <2>3
<1> QED BY <1>11, <1>12, <1>14, <1>15, Zenon DEF BreakdownNode

IsMessage(message) ==
  /\ IsInfo(message.info) /\ IsBreakdown(message.result)
  /\ message = [info |-> message.info, result |-> message.result]

MessageXml(message) ==
  Element("Message",
    InfoXml("Info", message.info) \o BreakdownXml("ResultType", message.result))

MessageNode(node, message) ==
  /\ node.tag = "Message" /\ SummaryMessageOf(node) = message
  /\ IsWireSummaryMessage(node) <=> AllFit(message.result)

AreMessageTags(tag, a, b) == tag = "Message" /\ a = "Info" /\ b = "ResultType"

\* Two elements in one.
LEMMA PairRead ==
  ASSUME NEW tag, NEW a, NEW p, One(a, p), NEW b, NEW q, One(b, q), Differ(p.tag, q.tag)
  PROVE  \E node : /\ One(Element(tag, Cat(a, b)), node) /\ node.tag = tag
                   /\ Once(node, p.tag) /\ Child(node, p.tag) = p
                   /\ Once(node, q.tag) /\ Child(node, q.tag) = q
<1>1. PICK k : k = <<p>> /\ Writes(a, k)  BY DEF One
<1>2. Has(k, p.tag, p) /\ \A other : other # p.tag => Lacks(k, other)
  BY <1>1, OneChild
<1>3. PICK kids : Writes(Cat(a, b), kids) /\ Has(kids, p.tag, p) /\ Has(kids, q.tag, q)
  <2>1. Lacks(k, q.tag)  BY <1>2 DEF Differ
  <2>2. \E kids :
           /\ Writes(Cat(a, b), kids) /\ Has(kids, q.tag, q)
           /\ \A t, child : Has(k, t, child) /\ t # q.tag => Has(kids, t, child)
           /\ \A t : Lacks(k, t) /\ t # q.tag => Lacks(kids, t)
    BY <1>1, <2>1, ChildrenTwo
  <2> QED BY <1>2, <2>2 DEF Differ
<1>4. PICK node : /\ One(Element(tag, Cat(a, b)), node)
                  /\ node.tag = tag /\ node.children = kids /\ IsSeq(node.children)
  BY <1>3, OneWritten
<1>5. Has(node.children, p.tag, p) /\ Has(node.children, q.tag, q)  BY <1>3, <1>4
<1>6. Once(node, p.tag) /\ Child(node, p.tag) = p  BY <1>4, <1>5, FoundChild
<1>7. Once(node, q.tag) /\ Child(node, q.tag) = q  BY <1>4, <1>5, FoundChild
<1> QED BY <1>4, <1>6, <1>7

\* A message of a summary reads back, its information and its breakdown.
LEMMA MessageRead ==
  ASSUME NEW message, IsMessage(message)
  PROVE  \E node : One(MessageXml(message), node) /\ MessageNode(node, message)
<1>1. PICK tag, a, b : AreMessageTags(tag, a, b)  BY Zenon DEF AreMessageTags
<1>2. PICK info, result : info = message.info /\ result = message.result  OBVIOUS
<1>3. IsInfo(info) /\ IsBreakdown(result)  BY <1>2 DEF IsMessage
<1>4. PICK p : One(InfoXml(a, info), p) /\ InfoNode(p, a, info)  BY <1>3, InfoRead
<1>5. PICK q : One(BreakdownXml(b, result), q) /\ BreakdownNode(q, b, result)
  BY <1>3, BreakdownRead
<1>6. p.tag = a /\ q.tag = b  BY <1>4, <1>5, Zenon DEF InfoNode, BreakdownNode
<1>7. Differ(p.tag, q.tag)
  <2>1. Differ("Info", "ResultType")  BY DEF Differ
  <2> QED BY <1>1, <1>6, <2>1, Zenon DEF AreMessageTags
<1>8. PICK x, y : x = InfoXml(a, info) /\ y = BreakdownXml(b, result)  OBVIOUS
<1>9. One(x, p) /\ One(y, q)  BY <1>4, <1>5, <1>8, Zenon
<1>10. PICK node : /\ One(Element(tag, Cat(x, y)), node) /\ node.tag = tag
                   /\ Once(node, p.tag) /\ Child(node, p.tag) = p
                   /\ Once(node, q.tag) /\ Child(node, q.tag) = q
  BY <1>7, <1>9, PairRead
<1>11. One(MessageXml(message), node)
  BY <1>1, <1>2, <1>8, <1>10, Zenon DEF MessageXml, AreMessageTags, Cat
<1>12. /\ Once(node, "Info") /\ Child(node, "Info") = p
       /\ Once(node, "ResultType") /\ Child(node, "ResultType") = q
  BY <1>1, <1>6, <1>10, Zenon DEF AreMessageTags
<1>13. SummaryMessageOf(node) = message
  BY <1>2, <1>4, <1>5, <1>12, Zenon DEF SummaryMessageOf, InfoNode, BreakdownNode, IsMessage
<1>14. IsWireSummaryMessage(node) <=> AllFit(message.result)
  BY <1>2, <1>4, <1>5, <1>12, Zenon DEF IsWireSummaryMessage, InfoNode, BreakdownNode
<1>15. node.tag = "Message"  BY <1>1, <1>10, Zenon DEF AreMessageTags
<1> QED BY <1>11, <1>13, <1>14, <1>15, Zenon DEF MessageNode

IsMessageTag(item) == item = "Message"

MessageOf(message) == CHOOSE node : One(MessageXml(message), node) /\ MessageNode(node, message)

MessagesXml(tag, messages) ==
  Element(tag, FlattenSeq([i \in DOMAIN messages |-> MessageXml(messages[i])]))

MessagesNode(node, tag, item, nodes, messages) ==
  /\ node.tag = tag /\ ListNode(node, item, nodes)
  /\ Len(nodes) = Len(messages) /\ DOMAIN nodes = DOMAIN messages
  /\ \A i \in DOMAIN messages : MessageNode(nodes[i], messages[i])

\* A non-empty list of messages reads back, in order.
LEMMA MessagesRead ==
  ASSUME NEW tag, NEW item, IsMessageTag(item), NEW ds, IsSeq(ds), ds # <<>>,
         \A i \in DOMAIN ds : IsMessage(ds[i])
  PROVE  \E node, nodes : /\ One(MessagesXml(tag, ds), node)
                          /\ MessagesNode(node, tag, item, nodes, ds)
<1>1. PICK n : n = Len(ds) /\ n \in Nat /\ n # 0 /\ DOMAIN ds = 1 .. n
  BY SeqOfPlaces, Zenon
<1>2. PICK parts : parts = [i \in 1 .. n |-> MessageXml(ds[i])]  OBVIOUS
<1>3. PICK nodes : nodes = [i \in 1 .. n |-> MessageOf(ds[i])]  OBVIOUS
<1>4. ASSUME NEW i \in 1 .. n
      PROVE  One(parts[i], nodes[i]) /\ MessageNode(nodes[i], ds[i])
  <2>1. \E node : One(MessageXml(ds[i]), node) /\ MessageNode(node, ds[i])
    BY <1>1, MessageRead, Zenon
  <2>2. One(MessageXml(ds[i]), nodes[i]) /\ MessageNode(nodes[i], ds[i])
    BY <1>3, <2>1, Zenon DEF MessageOf
  <2>3. parts[i] = MessageXml(ds[i])  BY <1>2, Zenon
  <2> QED BY <2>2, <2>3, Zenon
<1>5. IsSeq(parts) /\ Len(parts) = n /\ IsSeq(nodes) /\ Len(nodes) = n
  <2>1. parts = [i \in 1 .. n |-> parts[i]]  BY <1>2, Zenon
  <2>2. nodes = [i \in 1 .. n |-> nodes[i]]  BY <1>3, Zenon
  <2> QED BY <1>1, <2>1, <2>2, PlacesSeq, Zenon
<1>6. \A i \in 1 .. n : nodes[i].tag = item
  BY <1>4, Zenon DEF MessageNode, IsMessageTag
<1>7. AreItems(parts, item, nodes)
  BY <1>1, <1>4, <1>5, <1>6, Zenon DEF AreItems
<1>8. PICK node : /\ One(Element(tag, FlattenSeq(parts)), node) /\ node.tag = tag
                  /\ ListNode(node, item, nodes)
  BY <1>7, ListRead, Zenon
<1>9. DOMAIN nodes = 1 .. n  BY <1>3, Zenon
<1> QED BY <1>1, <1>2, <1>4, <1>5, <1>8, <1>9, Zenon DEF MessagesXml, MessagesNode

IsSummary(summary) ==
  /\ IsRouting(summary.routing)
  /\ IsSeq(summary.messages) /\ summary.messages # <<>>
  /\ \A i \in DOMAIN summary.messages : IsMessage(summary.messages[i])
  /\ summary = [routing |-> summary.routing, messages |-> summary.messages]

SummaryNode(node, summary) ==
  /\ SummaryResultOf(node) = summary
  /\ IsWireSummaryResult(node) <=>
       \A i \in DOMAIN summary.messages : AllFit(summary.messages[i].result)

AreSummaryTags(root, list, item) ==
  root = "SummaryResult" /\ list = "DetailList" /\ item = "Message"

\* A summary result reads back, the routing and every message of it.
LEMMA SummaryRead ==
  ASSUME NEW summary, IsSummary(summary)
  PROVE  \E node : One(SummaryXml(summary), node) /\ SummaryNode(node, summary)
<1>1. PICK root, list, item : AreSummaryTags(root, list, item)
  BY Zenon DEF AreSummaryTags
<1>2. PICK ds, routing : ds = summary.messages /\ routing = summary.routing
  OBVIOUS
<1>3. /\ IsRouting(routing) /\ IsSeq(ds) /\ ds # <<>>
      /\ \A i \in DOMAIN ds : IsMessage(ds[i])
  BY <1>2, Zenon DEF IsSummary
<1>4. PICK p : One(RoutingXml(routing), p) /\ RoutingNode(p, routing)
  BY <1>3, RoutingRead
<1>5. PICK q, nodes : One(MessagesXml(list, ds), q) /\ MessagesNode(q, list, item, nodes, ds)
  <2>1. IsMessageTag(item)  BY <1>1, Zenon DEF AreSummaryTags, IsMessageTag
  <2> QED BY <1>3, <2>1, MessagesRead
<1>7. Differ(p.tag, q.tag)
  <2>1. Differ("RoutingInfo", "DetailList")  BY DEF Differ
  <2>2. p.tag = "RoutingInfo" /\ q.tag = "DetailList"
    BY <1>1, <1>4, <1>5, Zenon DEF RoutingNode, MessagesNode, AreSummaryTags
  <2> QED BY <2>1, <2>2, Zenon
<1>8. PICK x, y : x = RoutingXml(routing) /\ y = MessagesXml(list, ds)  OBVIOUS
<1>9. One(x, p) /\ One(y, q)  BY <1>4, <1>5, <1>8, Zenon
<1>10. PICK node : /\ One(Element(root, Cat(x, y)), node) /\ node.tag = root
                   /\ Once(node, p.tag) /\ Child(node, p.tag) = p
                   /\ Once(node, q.tag) /\ Child(node, q.tag) = q
  BY <1>7, <1>9, PairRead
<1>6. /\ p.tag = "RoutingInfo" /\ q.tag = "DetailList"
  BY <1>1, <1>4, <1>5, Zenon DEF RoutingNode, MessagesNode, AreSummaryTags
<1>11. One(SummaryXml(summary), node)
  BY <1>1, <1>2, <1>8, <1>10, Zenon
     DEF SummaryXml, MessagesXml, MessageXml, BreakdownXml, AreSummaryTags, Cat
<1>12. /\ Once(node, "RoutingInfo") /\ Child(node, "RoutingInfo") = p
       /\ Once(node, "DetailList") /\ Child(node, "DetailList") = q
  BY <1>6, <1>10, Zenon
<1>13. /\ Listed(q, "Message") /\ Children(q, "Message") = nodes /\ q.children = nodes
       /\ Places(q, "Message") = DOMAIN ds /\ DOMAIN nodes = DOMAIN ds
       /\ \A i \in DOMAIN ds : MessageNode(nodes[i], ds[i])
  <2>1. DOMAIN ds = 1 .. Len(nodes)
    BY <1>3, <1>5, SeqOfPlaces, Zenon DEF MessagesNode
  <2> QED BY <1>1, <1>5, <2>1, Zenon DEF ListNode, MessagesNode, AreSummaryTags
<1>14. SummaryResultOf(node) = summary
  <2>1. ResultRouting(p) = routing  BY <1>4, Zenon DEF RoutingNode
  <2>2. [i \in DOMAIN nodes |-> SummaryMessageOf(nodes[i])] = ds
    <3>1. [i \in DOMAIN nodes |-> SummaryMessageOf(nodes[i])] = [i \in DOMAIN ds |-> ds[i]]
      BY <1>13, Zenon DEF MessageNode
    <3>2. [i \in DOMAIN ds |-> ds[i]] = ds  BY <1>3, SeqOfPlaces, Zenon
    <3> QED BY <3>1, <3>2, Zenon
  <2> QED BY <1>2, <1>12, <1>13, <2>1, <2>2, Zenon DEF SummaryResultOf, IsSummary
<1>15. IsWireSummaryResult(node) <=>
         \A i \in DOMAIN ds : AllFit(ds[i].result)
  <2>1. IsWireRouting(p)  BY <1>4, Zenon DEF RoutingNode
  <2>2. \A i \in DOMAIN ds : IsWireSummaryMessage(nodes[i]) <=> AllFit(ds[i].result)
    BY <1>13, Zenon DEF MessageNode
  <2>3. IsWireSummaryResult(node) <=> \A i \in DOMAIN ds : IsWireSummaryMessage(nodes[i])
    BY <1>12, <1>13, <2>1, Zenon DEF IsWireSummaryResult
  <2> QED BY <2>2, <2>3, Zenon
<1> QED BY <1>2, <1>11, <1>14, <1>15, Zenon DEF SummaryNode

\* A suffix is compared from the last place on.
LEMMA SuffixPlaces ==
  ASSUME NEW s, IsSeq(s), NEW t, IsSeq(t)
  PROVE  IsSuffix(s, t) <=>
           Len(s) <= Len(t) /\ \A i \in 1 .. Len(s) : s[Len(s) - i + 1] = t[Len(t) - i + 1]
<1>1. PICK K : s \in Seq(K) /\ t \in Seq(K)  BY OneSet
<1>2. PICK m, n : m = Len(s) /\ n = Len(t) /\ m \in Nat /\ n \in Nat  BY <1>1
<1>3. PICK r, q : r = Reverse(s) /\ q = Reverse(t)  OBVIOUS
<1>4. /\ r = [i \in 1 .. m |-> s[(m - i) + 1]] /\ q = [i \in 1 .. n |-> t[(n - i) + 1]]
  BY <1>2, <1>3 DEF Reverse
<1>5. \A i \in 1 .. m : s[(m - i) + 1] \in K
  <2>1. \A i \in 1 .. m : (m - i) + 1 \in 1 .. m  BY <1>2
  <2> QED BY <1>1, <1>2, <2>1, ElementOfSeq
<1>6. \A i \in 1 .. n : t[(n - i) + 1] \in K
  <2>1. \A i \in 1 .. n : (n - i) + 1 \in 1 .. n  BY <1>2
  <2> QED BY <1>1, <1>2, <2>1, ElementOfSeq
<1>7. r \in Seq(K) /\ q \in Seq(K) /\ Len(r) = m /\ Len(q) = n
  <2>1. r \in [1 .. m -> K] /\ q \in [1 .. n -> K]  BY <1>4, <1>5, <1>6
  <2> QED BY <1>2, <2>1
<1>8. IsSuffix(s, t) <=> m <= n /\ SubSeq(r, 1, m) = SubSeq(q, 1, m)
  BY <1>3, <1>7, Zenon DEF IsSuffix, IsPrefix
<1>9. ASSUME m <= n
      PROVE  SubSeq(r, 1, m) = SubSeq(q, 1, m) <=> \A i \in 1 .. m : r[i] = q[i]
  <2>1. PICK u, w : u = SubSeq(r, 1, m) /\ w = SubSeq(q, 1, m)  OBVIOUS
  <2>2. /\ u \in Seq(K) /\ w \in Seq(K) /\ Len(u) = m /\ Len(w) = m
        /\ \A i \in 1 .. m : u[i] = r[i] /\ w[i] = q[i]
    BY <1>2, <1>7, <1>9, <2>1
  <2>3. (\A i \in 1 .. m : u[i] = w[i]) => u = w  BY <2>2, SeqEqual
  <2> QED BY <2>1, <2>2, <2>3
<1>10. m <= n => \A i \in 1 .. m : r[i] = s[m - i + 1] /\ q[i] = t[n - i + 1]
  BY <1>2, <1>4
<1> QED BY <1>2, <1>8, <1>9, <1>10

\* A text ends with a suffix if its last characters are those of it.
LEMMA SuffixOfConcat ==
  ASSUME NEW a, IsSeq(a), NEW s, IsSeq(s), NEW u, IsSeq(u), Len(u) = Len(s)
  PROVE  IsSuffix(u, a \o s) <=> \A i \in 1 .. Len(s) : u[i] = s[i]
<1>1. PICK K : a \in Seq(K) /\ s \in Seq(K)  BY OneSet
<1>0. Len(a) \in Nat /\ Len(s) \in Nat  BY <1>1
<1>2. PICK m, n, t : m = Len(a) /\ n = Len(s) /\ t = a \o s /\ m \in Nat /\ n \in Nat
  BY <1>0, Zenon
<1>3. IsSeq(t) /\ Len(t) = m + n /\ \A i \in 1 .. n : t[m + i] = s[i]
  BY <1>1, <1>2 DEF IsSeq
<1>4. IsSuffix(u, t) <=> \A i \in 1 .. n : u[n - i + 1] = t[m + n - i + 1]
  <2>1. IsSuffix(u, t) <=>
           Len(u) <= Len(t) /\ \A i \in 1 .. Len(u) : u[Len(u) - i + 1] = t[Len(t) - i + 1]
    BY <1>3, SuffixPlaces
  <2>2. n <= m + n  BY <1>2
  <2> QED BY <1>2, <1>3, <2>1, <2>2
<1>5. ASSUME \A i \in 1 .. n : u[i] = s[i], NEW i \in 1 .. n
      PROVE  u[n - i + 1] = t[m + n - i + 1]
  <2>1. n - i + 1 \in 1 .. n /\ m + (n - i + 1) = m + n - i + 1  BY <1>2
  <2> QED BY <1>3, <1>5, <2>1
<1>6. ASSUME \A i \in 1 .. n : u[n - i + 1] = t[m + n - i + 1], NEW i \in 1 .. n
      PROVE  u[i] = s[i]
  <2>1. /\ n - i + 1 \in 1 .. n /\ n - (n - i + 1) + 1 = i /\ m + n - (n - i + 1) + 1 = m + i
    BY <1>2
  <2> QED BY <1>3, <1>6, <2>1
<1> QED BY <1>2, <1>4, <1>5, <1>6

\* The names of the two results tell which one it is.
LEMMA ResultNames ==
  ASSUME NEW front, IsSeq(front)
  PROVE  /\ EndsWith(front \o NameSuffixes["ProcessResult"], "ProcessResult")
         /\ EndsWith(front \o NameSuffixes["SummaryResult"], "SummaryResult")
         /\ ~ EndsWith(front \o NameSuffixes["SummaryResult"], "ProcessResult")
<1>1. PICK p, s : p = NameSuffixes["ProcessResult"] /\ s = NameSuffixes["SummaryResult"]
  OBVIOUS
<1>2. /\ p = <<"P", "r", "o", "c", "e", "s", "s", "R", "e", "s", "u", "l", "t">>
      /\ s = <<"S", "u", "m", "m", "a", "r", "y", "R", "e", "s", "u", "l", "t">>
  BY <1>1 DEF NameSuffixes
<1>3. Len(p) = 13 /\ Len(s) = 13 /\ p[1] # s[1] /\ DOMAIN p = 1 .. 13 /\ DOMAIN s = 1 .. 13
  BY <1>2
<1>4. IsSeq(p) /\ IsSeq(s)
  <2>1. \A t : DOMAIN t = 1 .. 13 /\ t = [i \in 1 .. 13 |-> t[i]] => IsSeq(t)
    BY PlacesSeq
  <2>2. p = [i \in 1 .. 13 |-> p[i]] /\ s = [i \in 1 .. 13 |-> s[i]]  BY <1>2
  <2> QED BY <1>3, <2>1, <2>2
<1>5. IsSuffix(p, front \o p) /\ IsSuffix(s, front \o s)
  BY <1>4, SuffixOfConcat
<1>6. ~ IsSuffix(p, front \o s)
  <2>1. IsSuffix(p, front \o s) => \A i \in 1 .. 13 : p[i] = s[i]
    BY <1>3, <1>4, SuffixOfConcat
  <2>2. 1 \in 1 .. 13  OBVIOUS
  <2> QED BY <1>3, <2>1, <2>2
<1> QED BY <1>1, <1>5, <1>6, Zenon DEF EndsWith

\* A text of the code is a sequence, a missing one no text at all.
LEMMA TextsAreSeqs ==
  /\ \A text \in Texts : IsSeq(text)
  /\ \A option \in Options : IsOption(option)
<1>1. \A text \in Texts : IsSeq(text)  BY DEF Texts, IsSeq
<1>2. ASSUME NEW option \in Options, option # {}  PROVE IsOption(option)
  <2>1. PICK T : T = Texts  OBVIOUS
  <2>2. option \in SUBSET T /\ \A s, t \in option : s = t  BY <2>1 DEF Options
  <2>3. PICK text : text \in option  BY <1>2
  <2>4. option = {text}  BY <2>2, <2>3
  <2>5. IsSeq(text)  BY <1>1, <2>1, <2>2, <2>3
  <2> QED BY <2>4, <2>5 DEF IsOption
<1>3. IsOption({})  BY DEF IsOption
<1> QED BY <1>1, <1>2, <1>3

\* The parties and routes the results are made of have readable content.
LEMMA PartiesAre ==
  /\ \A party \in ResultParties : IsParty(party)
  /\ \A route \in ResultRoutes : IsRoute(route)
<1>1. PICK T, O : T = Texts /\ O = Options  OBVIOUS
<1>2. /\ \A text \in T : IsSeq(text)
      /\ \A option \in O : IsOption(option)
  BY <1>1, TextsAreSeqs
<1>3. ASSUME NEW party \in [party_id : T, description : O]
      PROVE  /\ party.party_id \in T /\ party.description \in O
             /\ party = [party_id |-> party.party_id, description |-> party.description]
  OBVIOUS
<1>4. ASSUME NEW route \in [routing_id : T, description : O]
      PROVE  /\ route.routing_id \in T /\ route.description \in O
             /\ route = [routing_id |-> route.routing_id, description |-> route.description]
  OBVIOUS
<1> QED BY <1>1, <1>2, <1>3, <1>4, Zenon DEF ResultParties, ResultRoutes, IsParty, IsRoute

\* So have the routings.
LEMMA RoutingsAre ==
  ASSUME NEW routing \in ResultRoutings
  PROVE  IsRouting(routing)
<1>1. PICK P, R : P = ResultParties /\ R = ResultRoutes  OBVIOUS
<1>2. routing \in [from : P, from_vac : R, to : P, to_vac : R]
  BY <1>1 DEF ResultRoutings
<1>3. /\ routing.from \in P /\ routing.from_vac \in R /\ routing.to \in P /\ routing.to_vac \in R
      /\ routing = [from |-> routing.from, from_vac |-> routing.from_vac,
                    to |-> routing.to, to_vac |-> routing.to_vac]
  BY <1>2
<1> QED BY <1>1, <1>3, PartiesAre, Zenon DEF IsRouting

\* So have the message informations.
LEMMA InfosAre ==
  ASSUME NEW info \in MessageInfos
  PROVE  IsInfo(info)
<1>1. PICK T : T = Texts  OBVIOUS
<1>2. info \in [id : T, size : T, message_type : T, service : T, action : T]
  BY <1>1 DEF MessageInfos
<1>3. /\ info.id \in T /\ info.size \in T /\ info.message_type \in T /\ info.service \in T
      /\ info.action \in T
      /\ info = [id |-> info.id, size |-> info.size, message_type |-> info.message_type,
                 service |-> info.service, action |-> info.action]
  BY <1>2
<1> QED BY <1>1, <1>3, TextsAreSeqs, Zenon DEF IsInfo

\* So have the diagnostics.
LEMMA DiagnosticsAre ==
  ASSUME NEW d \in ProcessDiagnostics
  PROVE  IsDiagnostic(d)
<1>1. PICK T, O, D : T = Texts /\ O = Options /\ D = DOMAIN Parameters  OBVIOUS
<1>2. d \in [code : T, description : O, parameters : [D -> O]]
  BY <1>1 DEF ProcessDiagnostics
<1>3. /\ d.code \in T /\ d.description \in O /\ d.parameters \in [D -> O]
      /\ d = [code |-> d.code, description |-> d.description, parameters |-> d.parameters]
  BY <1>2
<1>4. PICK p : p = d.parameters /\ p \in [D -> O]  BY <1>3
<1>5. p = [k \in D |-> p[k]] /\ \A k \in D : p[k] \in O  BY <1>4
<1> QED BY <1>1, <1>3, <1>4, <1>5, TextsAreSeqs, Zenon DEF IsDiagnostic

\* The elements of a sequence over a set are in it.
LEMMA SeqOver ==
  ASSUME NEW S, NEW s \in Seq(S)
  PROVE  IsSeq(s) /\ \A i \in DOMAIN s : s[i] \in S
BY ElementOfSeq DEF IsSeq

\* So has every process result the platform may write.
LEMMA ProcessesAre ==
  ASSUME NEW process \in ProcessResults
  PROVE  IsProcess(process)
<1>1. PICK R, M, D : R = ResultRoutings /\ M = MessageInfos /\ D = ProcessDiagnostics
  OBVIOUS
<1>2. PICK L : L = Seq(D) \ {<<>>}  OBVIOUS
<1>3. process \in [routing : R, message : M, diagnostics : L]
  BY <1>1, <1>2 DEF ProcessResults
<1>4. /\ process.routing \in R /\ process.message \in M /\ process.diagnostics \in L
      /\ process = [routing |-> process.routing, message |-> process.message,
                    diagnostics |-> process.diagnostics]
  BY <1>3
<1>5. PICK ds : ds = process.diagnostics /\ ds \in Seq(D) /\ ds # <<>>  BY <1>2, <1>4
<1>6. IsSeq(ds) /\ \A i \in DOMAIN ds : ds[i] \in D  BY <1>5, SeqOver
<1>7. \A i \in DOMAIN ds : IsDiagnostic(ds[i])  BY <1>1, <1>6, DiagnosticsAre
<1> QED BY <1>1, <1>4, <1>5, <1>6, <1>7, RoutingsAre, InfosAre, Zenon DEF IsProcess

\* So has every bucket of a summary.
LEMMA DetailsAre ==
  ASSUME NEW detail \in ResultDetails
  PROVE  IsDetail(detail)
<1>1. PICK T : T = Texts  OBVIOUS
<1>2. ASSUME NEW x \in InvoiceReferences  PROVE IsReference(x)
  <2>1. x \in [reference_number : T, invoice_date : T]  BY <1>1 DEF InvoiceReferences
  <2>2. /\ x.reference_number \in T /\ x.invoice_date \in T
        /\ x = [reference_number |-> x.reference_number, invoice_date |-> x.invoice_date]
    BY <2>1
  <2> QED BY <1>1, <2>2, TextsAreSeqs, Zenon DEF IsReference
<1>3. PICK I, L : I = InvoiceReferences /\ L = Seq(I)  OBVIOUS
<1>4. detail \in [count : Int, invoices : L]  BY <1>3 DEF ResultDetails
<1>5. /\ detail.count \in Int /\ detail.invoices \in L
      /\ detail = [count |-> detail.count, invoices |-> detail.invoices]
  BY <1>4
<1>6. PICK ds : ds = detail.invoices /\ ds \in Seq(I)  BY <1>3, <1>5
<1>7. IsSeq(ds) /\ \A i \in DOMAIN ds : ds[i] \in I  BY <1>6, SeqOver
<1>8. \A i \in DOMAIN ds : IsReference(ds[i])  BY <1>2, <1>3, <1>7
<1> QED BY <1>5, <1>6, <1>7, <1>8, Zenon DEF IsDetail

\* So has every summary result the platform may write.
LEMMA SummariesAre ==
  ASSUME NEW summary \in SummaryResults
  PROVE  IsSummary(summary)
<1>1. PICK D, M, R : D = ResultDetails /\ M = MessageInfos /\ R = ResultRoutings  OBVIOUS
<1>2. PICK B : B = [total : D, good : D, failed : D]  OBVIOUS
<1>3. ASSUME NEW result \in B  PROVE IsBreakdown(result)
  <2>1. /\ result.total \in D /\ result.good \in D /\ result.failed \in D
        /\ result = [total |-> result.total, good |-> result.good, failed |-> result.failed]
    BY <1>2
  <2> QED BY <1>1, <2>1, DetailsAre, Zenon DEF IsBreakdown
<1>4. PICK E : E = [info : M, result : B]  OBVIOUS
<1>5. ASSUME NEW message \in E  PROVE IsMessage(message)
  <2>1. /\ message.info \in M /\ message.result \in B
        /\ message = [info |-> message.info, result |-> message.result]
    BY <1>4
  <2> QED BY <1>1, <1>3, <2>1, InfosAre, Zenon DEF IsMessage
<1>6. PICK L : L = Seq(E) \ {<<>>}  OBVIOUS
<1>7. summary \in [routing : R, messages : L]
  BY <1>1, <1>2, <1>4, <1>6, Zenon DEF SummaryResults, ResultBreakdowns
<1>8. /\ summary.routing \in R /\ summary.messages \in L
      /\ summary = [routing |-> summary.routing, messages |-> summary.messages]
  BY <1>7
<1>9. PICK ds : ds = summary.messages /\ ds \in Seq(E) /\ ds # <<>>  BY <1>6, <1>8
<1>10. IsSeq(ds) /\ \A i \in DOMAIN ds : ds[i] \in E  BY <1>9, SeqOver
<1>11. \A i \in DOMAIN ds : IsMessage(ds[i])  BY <1>5, <1>10
<1> QED BY <1>1, <1>8, <1>9, <1>10, <1>11, RoutingsAre, Zenon DEF IsSummary
-----------------------------------------------------------------------------
(* Lengths *)

\* What FromBigEndian does with one digit.
LengthStep(most) ==
  [pc \in Nat \X Nat |-> IF pc[1] > most THEN pc[1] ELSE 256 * pc[1] + pc[2]]

\* A number stays one.
LEMMA LengthStepType == ASSUME NEW most \in Nat PROVE IsStep(LengthStep(most), Nat, Nat)
<1>1. ASSUME NEW p \in Nat, NEW c \in Nat
      PROVE  (IF p > most THEN p ELSE 256 * p + c) \in Nat
  OBVIOUS
<1> QED BY <1>1 DEF LengthStep, IsStep

\* FromBigEndian goes through the digits from left to right.
LEMMA LengthRun ==
  ASSUME NEW most \in Nat, NEW text \in Seq(Nat)
  PROVE  \E run : /\ IsRun(run, Nat, LengthStep(most), 0, text)
                  /\ FromBigEndian(text, most) = run[Len(text)]
<1> DEFINE n == Len(text)
           S == Nat
           T == Nat
           b == 0
           Step(p, c) == IF p > most THEN p ELSE 256 * p + c
           D == LengthStep(most)
           Solves(f) == f = [s \in SUBSET DOMAIN text |->
                               IF s = {} THEN b ELSE Step(f[s \ {Max(s)}], text[Max(s)])]
           iter == CHOOSE f : Solves(f)
<1>1. DOMAIN text = 1 .. n /\ n \in Nat /\ text \in [1 .. n -> T]
  OBVIOUS
<1>2. b \in S /\ IsStep(D, S, T)
  BY LengthStepType
<1>3. \A p \in S, c \in T : D[<<p, c>>] = Step(p, c)
  BY DEF LengthStep
<1>4. FromBigEndian(text, most) = iter[DOMAIN text]
  BY DEF FromBigEndian, FoldLeft, MapThenFoldSet
<1> HIDE DEF n, b, S, T, Step, D, Solves, iter
<1>5. \E f : Solves(f)
  <2>1. PICK it \in [SUBSET (1 .. n) -> S] : IsFold(it, D, b, text, n)
    BY <1>1, <1>2, FoldExists
  <2>2. ASSUME NEW s \in SUBSET (1 .. n), s # {}
        PROVE  it[s] = Step(it[s \ {Max(s)}], text[Max(s)])
    <3>1. Max(s) \in 1 .. n /\ s \ {Max(s)} \in SUBSET (1 .. n)
      BY <1>1, <2>2, MaxOfInterval
    <3>2. it[s \ {Max(s)}] \in S /\ text[Max(s)] \in T
      BY <1>1, <3>1
    <3> QED BY <1>3, <2>1, <2>2, <3>2 DEF IsFold
  <2>3. Solves(it)
    BY <1>1, <2>1, <2>2 DEF Solves, IsFold
  <2> QED BY <2>3
<1>6. Solves(iter)
  BY <1>5 DEF iter
<1>7. iter[{}] = b
  <2>1. {} \in SUBSET DOMAIN text  OBVIOUS
  <2> QED BY <1>6, <2>1 DEF Solves
<1>8. ASSUME NEW i \in 1 .. n, iter[1 .. i - 1] \in S
      PROVE  iter[1 .. i] = D[<<iter[1 .. i - 1], text[i]>>]
  <2>1. /\ 1 .. i \in SUBSET DOMAIN text /\ 1 .. i # {}
        /\ Max(1 .. i) = i /\ (1 .. i) \ {i} = 1 .. i - 1
    BY <1>1, MaxOfPrefix
  <2>2. iter[1 .. i] = Step(iter[(1 .. i) \ {Max(1 .. i)}], text[Max(1 .. i)])
    BY <1>6, <2>1 DEF Solves
  <2> QED BY <1>1, <1>3, <1>8, <2>1, <2>2
<1>9. \E run : IsRun(run, S, D, b, text) /\ run[Len(text)] = iter[DOMAIN text]
  <2>1. IsIteration(iter, S, D, b, text)
    BY <1>7, <1>8 DEF n, IsIteration
  <2>2. text \in Seq(T)
    BY DEF T
  <2> QED BY <1>2, <2>1, <2>2, RunOfFold
<1> QED BY <1>4, <1>9 DEF S, D, b

\* One digit more.
NextLength(n, most, digit) == IF n > most THEN n ELSE 256 * n + digit

\* FromBigEndian, one digit at a time.
LEMMA LengthAppend ==
  ASSUME NEW most \in Nat, NEW text \in Seq(Nat), NEW c \in Nat
  PROVE  /\ FromBigEndian(<<>>, most) = 0
         /\ FromBigEndian(text, most) \in Nat
         /\ FromBigEndian(Add(text, c), most) = NextLength(FromBigEndian(text, most), most, c)
<1> DEFINE S == Nat
           T == Nat
           D == LengthStep(most)
           b == 0
<1>1. IsStep(D, S, T) /\ b \in S
  BY LengthStepType
<1>2. Append(text, c) \in Seq(T) /\ <<>> \in Seq(T)
      /\ Len(Append(text, c)) = Len(text) + 1 /\ Len(<<>>) = 0 /\ Len(text) \in Nat
  <2> HIDE DEF T
  <2>1. text \in Seq(T) /\ c \in T  BY DEF T
  <2> QED BY <2>1
<1>3. PICK short : IsRun(short, S, D, b, text) /\ FromBigEndian(text, most) = short[Len(text)]
  BY LengthRun
<1>4. PICK long : /\ IsRun(long, S, D, b, Append(text, c))
                  /\ FromBigEndian(Append(text, c), most) = long[Len(text) + 1]
  BY <1>2, LengthRun
<1>5. PICK none : IsRun(none, S, D, b, <<>>) /\ FromBigEndian(<<>>, most) = none[0]
  BY <1>2, LengthRun
<1>6. short[Len(text)] \in S
  <2> HIDE DEF S, D, b
  <2> QED BY <1>2, <1>3 DEF IsRun
<1>7. long[Len(text) + 1] = D[<<short[Len(text)], c>>]
  <2> HIDE DEF S, D, b, T
  <2>1. text \in Seq(T) /\ c \in T  BY DEF T
  <2> QED BY <1>3, <1>4, <2>1, RunsAgree
<1>8. none[0] = b
  BY <1>5 DEF IsRun
<1> QED BY <1>3, <1>4, <1>5, <1>6, <1>7, <1>8 DEF LengthStep, Add, NextLength

\* A number that is small enough is the same under a higher limit.
LEMMA LengthUnderHigher ==
  ASSUME NEW most \in Nat, NEW higher \in Nat, most <= higher, NEW digits \in Seq(Nat),
         FromBigEndian(digits, most) <= most
  PROVE  FromBigEndian(digits, higher) = FromBigEndian(digits, most)
<1> DEFINE Q == {d \in Seq(Nat) : FromBigEndian(d, most) <= most =>
                                    FromBigEndian(d, higher) = FromBigEndian(d, most)}
<1>1. <<>> \in Q
  <2>1. <<>> \in Seq(Nat) /\ 0 \in Nat  OBVIOUS
  <2>2. FromBigEndian(<<>>, most) = 0 /\ FromBigEndian(<<>>, higher) = 0
    BY <2>1, LengthAppend
  <2> QED BY <2>1, <2>2
<1>2. ASSUME NEW d \in Seq(Nat), NEW c \in Nat, d \in Q  PROVE Add(d, c) \in Q
  <2>1. Add(d, c) \in Seq(Nat)  BY DEF Add
  <2>2. /\ FromBigEndian(d, most) \in Nat
        /\ FromBigEndian(Add(d, c), most) = NextLength(FromBigEndian(d, most), most, c)
        /\ FromBigEndian(Add(d, c), higher) = NextLength(FromBigEndian(d, higher), higher, c)
    BY LengthAppend, Zenon
  <2>3. FromBigEndian(d, most) <= most => FromBigEndian(d, higher) = FromBigEndian(d, most)
    BY <1>2
  <2>4. ASSUME FromBigEndian(Add(d, c), most) <= most
        PROVE  FromBigEndian(Add(d, c), higher) = FromBigEndian(Add(d, c), most)
    <3>1. FromBigEndian(d, most) <= most  BY <2>2, <2>4 DEF NextLength
    <3>2. FromBigEndian(d, higher) = FromBigEndian(d, most)  BY <2>3, <3>1
    <3>3. ~ (FromBigEndian(d, higher) > higher)  BY <2>2, <3>1, <3>2
    <3> QED BY <2>2, <3>1, <3>2, <3>3 DEF NextLength
  <2> QED BY <2>1, <2>4
<1>3. \A d \in Seq(Nat) : d \in Q
  <2> HIDE DEF Q
  <2> QED BY <1>1, <1>2, AddInduct
<1> QED BY <1>3

\* The octets, and the parts of BigEndian.
Octets == {Octet(n) : n \in 0 .. 255}
MoreBytes(bytes, n) == Append(bytes, Octet(n % 256))
Above(n) == n \div 256

\* The lengths up to m, written in octets.
AreLengths(g, m) ==
  /\ g \in [0 .. m -> Seq(Octets)]
  /\ \A n \in 0 .. m : g[n] = IF n = 0 THEN <<>> ELSE MoreBytes(g[Above(n)], n)

\* A number is its last octet and what is above it.
LEMMA LastOctet ==
  ASSUME NEW n \in Nat
  PROVE  /\ Above(n) \in Nat /\ Above(n) <= n /\ n % 256 \in 0 .. 255
         /\ n = 256 * Above(n) + (n % 256)
         /\ n # 0 => Above(n) < n
BY DEF Above

\* They are octets.
LEMMA OctetTypes ==
  /\ <<>> \in Seq(Octets)
  /\ \A bytes \in Seq(Octets), n \in Nat : MoreBytes(bytes, n) \in Seq(Octets)
<1>1. \A n \in Nat : Octet(n % 256) \in Octets  BY LastOctet DEF Octets
<1>2. \A bytes \in Seq(Octets), e \in Octets : Append(bytes, e) \in Seq(Octets)
  <2> HIDE DEF Octets
  <2> QED OBVIOUS
<1> QED BY <1>1, <1>2 DEF MoreBytes

\* A length of at most m can be written octet by octet.
LEMMA LengthsExist ==
  ASSUME NEW m \in Nat
  PROVE  \E g : AreLengths(g, m)
<1> DEFINE P(k) == \E g : AreLengths(g, k)
<1>1. P(0)
  <2> DEFINE g == [n \in 0 .. 0 |-> <<>>]
  <2>1. g \in [0 .. 0 -> Seq(Octets)]  BY OctetTypes
  <2>2. \A n \in 0 .. 0 : n = 0 /\ g[n] = <<>>  OBVIOUS
  <2> HIDE DEF g
  <2> QED BY <2>1, <2>2 DEF AreLengths
<1>2. ASSUME NEW k \in Nat, P(k)  PROVE P(k + 1)
  <2>1. PICK g : AreLengths(g, k)  BY <1>2
  <2> DEFINE last == IF k + 1 = 0 THEN <<>> ELSE MoreBytes(g[Above(k + 1)], k + 1)
             h == [n \in 0 .. k + 1 |-> IF n = k + 1 THEN last ELSE g[n]]
  <2>2. last \in Seq(Octets)
    <3>1. CASE k + 1 = 0  BY <3>1, OctetTypes, k + 1 \in Nat
    <3>2. CASE k + 1 # 0
      <4>1. Above(k + 1) \in 0 .. k  BY <3>2, LastOctet, k + 1 \in Nat
      <4>2. g[Above(k + 1)] \in Seq(Octets)  BY <2>1, <4>1 DEF AreLengths
      <4> QED BY <3>2, <4>2, OctetTypes, k + 1 \in Nat
    <3> QED BY <3>1, <3>2
  <2>3. h \in [0 .. k + 1 -> Seq(Octets)]
    <3> HIDE DEF last
    <3>1. \A n \in 0 .. k + 1 : n # k + 1 => n \in 0 .. k  OBVIOUS
    <3>2. \A n \in 0 .. k : g[n] \in Seq(Octets)  BY <2>1 DEF AreLengths
    <3> QED BY <2>2, <3>1, <3>2
  <2>4. h[k + 1] = last /\ \A n \in 0 .. k : h[n] = g[n]
    <3> HIDE DEF last
    <3>1. k + 1 \in 0 .. k + 1 /\ \A n \in 0 .. k : n \in 0 .. k + 1 /\ n # k + 1
      OBVIOUS
    <3>2. h[k + 1] = last  BY <3>1
    <3> QED BY <3>1, <3>2
  <2>5. ASSUME NEW n \in 0 .. k + 1
        PROVE  h[n] = IF n = 0 THEN <<>> ELSE MoreBytes(h[Above(n)], n)
    <3> HIDE DEF h
    <3>1. n # 0 => Above(n) \in 0 .. k
      <4>1. n \in Nat  OBVIOUS
      <4> QED BY <4>1, LastOctet
    <3>2. CASE n = k + 1  BY <2>4, <3>1, <3>2
    <3>3. CASE n # k + 1
      <4>1. n \in 0 .. k  BY <3>3
      <4>2. g[n] = IF n = 0 THEN <<>> ELSE MoreBytes(g[Above(n)], n)
        BY <2>1, <4>1 DEF AreLengths
      <4> QED BY <2>4, <3>1, <4>1, <4>2
    <3> QED BY <3>2, <3>3
  <2> HIDE DEF h
  <2> QED BY <2>3, <2>5 DEF AreLengths
<1>3. \A k \in Nat : P(k)
  <2> DEFINE N == {k \in Nat : P(k)}
  <2> HIDE DEF P
  <2>1. 0 \in N /\ \A k \in Nat : k \in N => k + 1 \in N  BY <1>1, <1>2
  <2>2. \A k \in Nat : k \in N
    <3> HIDE DEF N
    <3> QED BY <2>1, NatInduct
  <2> QED BY <2>2
<1> QED BY <1>3

\* There is one way to write a length.
LEMMA LengthsAgree ==
  ASSUME NEW m \in Nat, NEW k \in Nat, NEW g, NEW h,
         AreLengths(g, m), AreLengths(h, k), NEW n \in Nat, n <= m, n <= k
  PROVE  g[n] = h[n]
<1> DEFINE P(i) == \A j \in 0 .. i : j <= m /\ j <= k => g[j] = h[j]
<1>1. P(0)
  <2>1. 0 \in 0 .. m /\ 0 \in 0 .. k  OBVIOUS
  <2>2. g[0] = <<>> /\ h[0] = <<>>  BY <2>1 DEF AreLengths
  <2> QED BY <2>2
<1>2. ASSUME NEW i \in Nat, P(i)  PROVE P(i + 1)
  <2> SUFFICES ASSUME i + 1 <= m, i + 1 <= k  PROVE g[i + 1] = h[i + 1]
    BY <1>2
  <2>1. i + 1 \in 0 .. m /\ i + 1 \in 0 .. k  OBVIOUS
  <2>2. CASE i + 1 = 0  BY <2>1, <2>2 DEF AreLengths
  <2>3. CASE i + 1 # 0
    <3>1. Above(i + 1) \in 0 .. i
      <4>1. Above(i + 1) \in Nat /\ Above(i + 1) < i + 1
        BY <2>3, LastOctet, i + 1 \in Nat, ZenonT(40)
      <4> QED BY <4>1
    <3>2. g[Above(i + 1)] = h[Above(i + 1)]  BY <1>2, <3>1
    <3> QED BY <2>1, <2>3, <3>2 DEF AreLengths
  <2> QED BY <2>2, <2>3
<1>3. \A i \in Nat : P(i)
  <2> DEFINE N == {i \in Nat : P(i)}
  <2> HIDE DEF P
  <2>1. 0 \in N /\ \A i \in Nat : i \in N => i + 1 \in N  BY <1>1, <1>2
  <2>2. \A i \in Nat : i \in N
    <3> HIDE DEF N
    <3> QED BY <2>1, NatInduct
  <2> QED BY <2>2
<1>4. n \in 0 .. n  OBVIOUS
<1> QED BY <1>3, <1>4

\* BigEndian writes a length octet by octet, without leading zeros.
LEMMA BigEndianUnfolds ==
  ASSUME NEW n \in Nat
  PROVE  /\ BigEndian[n] \in Seq(Octets)
         /\ BigEndian[n] = IF n = 0 THEN <<>> ELSE MoreBytes(BigEndian[Above(n)], n)
<1> DEFINE Spells(f) == f = [k \in Nat |-> IF k = 0 THEN <<>> ELSE MoreBytes(f[Above(k)], k)]
           g(k) == CHOOSE w : AreLengths(w, k)
           f == [k \in Nat |-> g(k)[k]]
<1>1. \A k \in Nat : AreLengths(g(k), k)
  BY LengthsExist
<1> HIDE DEF g
<1>2. \A k \in Nat : f[k] \in Seq(Octets) /\ f[k] = g(k)[k]
  <2>1. \A k \in Nat : g(k)[k] \in Seq(Octets)  BY <1>1 DEF AreLengths
  <2> QED BY <2>1
<1>3. ASSUME NEW k \in Nat
      PROVE  f[k] = IF k = 0 THEN <<>> ELSE MoreBytes(f[Above(k)], k)
  <2> HIDE DEF f
  <2>1. k \in 0 .. k /\ k <= k  OBVIOUS
  <2>2. g(k)[k] = IF k = 0 THEN <<>> ELSE MoreBytes(g(k)[Above(k)], k)
    BY <1>1, <2>1 DEF AreLengths
  <2>3. Above(k) \in Nat /\ Above(k) <= k /\ Above(k) <= Above(k)
    BY LastOctet
  <2>4. g(k)[Above(k)] = g(Above(k))[Above(k)]
    BY <1>1, <2>3, LengthsAgree
  <2> QED BY <1>2, <2>2, <2>3, <2>4
<1>4. Spells(f)
  <2>1. f = [k \in Nat |-> f[k]]  OBVIOUS
  <2> HIDE DEF f
  <2> QED BY <1>3, <2>1
<1>5. BigEndian = CHOOSE w : Spells(w)
  BY DEF BigEndian, MoreBytes, Above
<1>6. Spells(BigEndian)
  <2> HIDE DEF Spells, f
  <2> QED BY <1>4, <1>5
<1>7. \A k \in Nat : BigEndian[k] =
         IF k = 0 THEN <<>> ELSE MoreBytes(BigEndian[Above(k)], k)
  BY <1>6
<1> DEFINE P(k) == \A j \in 0 .. k : BigEndian[j] \in Seq(Octets)
<1>8. P(0)
  <2>1. BigEndian[0] = <<>> /\ <<>> \in Seq(Octets)  BY <1>7, OctetTypes
  <2>2. \A j \in 0 .. 0 : j = 0  OBVIOUS
  <2> QED BY <2>1, <2>2, Zenon
<1>9. ASSUME NEW k \in Nat, P(k)  PROVE P(k + 1)
  <2> SUFFICES BigEndian[k + 1] \in Seq(Octets)  BY <1>9
  <2>0. k + 1 \in Nat  OBVIOUS
  <2>1. CASE k + 1 = 0
    BY <1>7, <2>0, <2>1, OctetTypes
  <2>2. CASE k + 1 # 0
    <3>1. Above(k + 1) \in 0 .. k
      BY <2>2, LastOctet, <2>0
    <3>2. BigEndian[Above(k + 1)] \in Seq(Octets)  BY <1>9, <3>1
    <3> QED BY <1>7, <2>0, <2>2, <3>2, OctetTypes
  <2> QED BY <2>1, <2>2
<1>10. \A k \in Nat : P(k)
  <2> DEFINE N == {k \in Nat : P(k)}
  <2> HIDE DEF P
  <2>1. 0 \in N /\ \A k \in Nat : k \in N => k + 1 \in N  BY <1>8, <1>9
  <2>2. \A k \in Nat : k \in N
    <3> HIDE DEF N
    <3> QED BY <2>1, NatInduct
  <2> QED BY <2>2
<1>11. n \in 0 .. n  OBVIOUS
<1> QED BY <1>7, <1>10, <1>11

\* The numbers of octets.
Values(bytes) == [k \in 1 .. Len(bytes) |-> bytes[k][2]]

\* One octet more is one number more.
LEMMA ValuesAdd ==
  ASSUME NEW bytes \in Seq(Octets), NEW v \in 0 .. 255
  PROVE  /\ Values(<<>>) = <<>> /\ Values(bytes) \in Seq(Nat)
         /\ Values(Add(bytes, Octet(v))) = Add(Values(bytes), v)
         /\ Add(bytes, Octet(v)) \in Seq(Octets)
<1>1. Octet(v) \in Octets /\ Octet(v)[2] = v  BY DEF Octets, Octet
<1>2. \A e \in Octets : e[2] \in Nat
  <2> TAKE e \in Octets
  <2>1. PICK u \in 0 .. 255 : e = Octet(u)  BY DEF Octets
  <2>2. e[2] = u  BY <2>1 DEF Octet
  <2> QED BY <2>2
<1>3. PICK more \in Seq(Octets) : more = Append(bytes, Octet(v))
  <2>1. PICK e \in Octets : e = Octet(v)  BY <1>1
  <2>2. Append(bytes, e) \in Seq(Octets)
    <3> HIDE DEF Octets
    <3> QED OBVIOUS
  <2> QED BY <2>1, <2>2
<1>4. /\ Len(more) = Len(bytes) + 1 /\ Len(bytes) \in Nat /\ more[Len(bytes) + 1] = Octet(v)
      /\ \A k \in 1 .. Len(bytes) : more[k] = bytes[k] /\ bytes[k] \in Octets
  <2> HIDE DEF Octets
  <2> QED BY <1>1, <1>3
<1>5. PICK n \in Nat : n = Len(bytes)  BY <1>4
<1>6. PICK f : f = [k \in 1 .. n |-> bytes[k][2]]  OBVIOUS
<1>7. f \in Seq(Nat) /\ Len(f) = n
  <2>1. \A k \in 1 .. n : bytes[k][2] \in Nat  BY <1>2, <1>4, <1>5
  <2>2. f \in [1 .. n -> Nat]  BY <1>6, <2>1
  <2> QED BY <2>2
<1>8. PICK g \in Seq(Nat) : g = Append(f, v)
  <2>1. PICK u \in Nat : u = v  OBVIOUS
  <2>2. Append(f, u) \in Seq(Nat)  BY <1>7
  <2> QED BY <2>1, <2>2
<1>9. PICK h : h = [k \in 1 .. n + 1 |-> more[k][2]]  OBVIOUS
<1>12. h = g
  <2>1. Len(g) = n + 1 /\ g[n + 1] = v /\ \A k \in 1 .. n : g[k] = f[k]
    <3>1. PICK u \in Nat : u = v  OBVIOUS
    <3>2. g = Append(f, u)  BY <1>8, <3>1
    <3> QED BY <1>7, <3>1, <3>2
  <2>2. \A k \in 1 .. n + 1 : h[k] = g[k]
    <3> TAKE k \in 1 .. n + 1
    <3>1. CASE k = n + 1  BY <1>1, <1>4, <1>5, <1>9, <2>1, <3>1
    <3>2. CASE k # n + 1
      <4>1. k \in 1 .. n  BY <3>2
      <4> QED BY <1>4, <1>5, <1>6, <1>9, <2>1, <3>2, <4>1
    <3> QED BY <3>1, <3>2
  <2>3. DOMAIN g = 1 .. n + 1 /\ DOMAIN h = 1 .. n + 1
    BY <1>8, <1>9, <2>1
  <2>4. h \in [1 .. n + 1 -> Nat] /\ g \in [1 .. n + 1 -> Nat]
    <3>1. \A k \in 1 .. n + 1 : g[k] \in Nat  BY <1>8, <2>1
    <3>2. \A k \in 1 .. n + 1 : h[k] \in Nat  BY <2>2, <3>1
    <3>3. h = [k \in 1 .. n + 1 |-> h[k]]  BY <1>9
    <3>4. g = [k \in 1 .. n + 1 |-> g[k]]
      <4>1. g = [k \in 1 .. Len(g) |-> g[k]]  OBVIOUS
      <4> QED BY <2>1, <4>1
    <3> QED BY <3>1, <3>2, <3>3, <3>4
  <2> QED BY <2>2, <2>4
<1>10. Values(<<>>) = <<>>  BY DEF Values
<1>11. Values(more) = Append(Values(bytes), v) /\ Values(bytes) \in Seq(Nat)
  BY <1>4, <1>5, <1>6, <1>7, <1>8, <1>9, <1>12 DEF Values
<1> QED BY <1>3, <1>10, <1>11 DEF Add

\* A length of any size is read back from its octets.
LEMMA LengthReadBack ==
  ASSUME NEW n \in Nat, NEW most \in Nat, n <= most
  PROVE  /\ BigEndian[n] \in Seq(Octets) /\ (n # 0 => BigEndian[n] # <<>>)
         /\ FromBigEndian(Values(BigEndian[n]), most) = n
<1> DEFINE P(k) == \A j \in 0 .. k : j <= most => FromBigEndian(Values(BigEndian[j]), most) = j
<1>1. P(0)
  <2>1. BigEndian[0] = <<>>  BY BigEndianUnfolds
  <2>2. <<>> \in Seq(Octets) /\ 0 \in 0 .. 255 /\ <<>> \in Seq(Nat) /\ 0 \in Nat
    BY OctetTypes
  <2>3. Values(<<>>) = <<>>  BY <2>2, ValuesAdd
  <2>4. FromBigEndian(<<>>, most) = 0  BY <2>2, LengthAppend
  <2> QED BY <2>1, <2>3, <2>4
<1>2. ASSUME NEW k \in Nat, P(k)  PROVE P(k + 1)
  <2> SUFFICES ASSUME k + 1 <= most
               PROVE  FromBigEndian(Values(BigEndian[k + 1]), most) = k + 1
    BY <1>2
  <2>1. PICK v : v = (k + 1) % 256  OBVIOUS
  <2>2. PICK above : above = Above(k + 1)  OBVIOUS
  <2>3. v \in 0 .. 255 /\ above \in 0 .. k /\ k + 1 = 256 * above + v
    BY <2>1, <2>2, LastOctet, k + 1 \in Nat
  <2>4. BigEndian[above] \in Seq(Octets)  BY <2>3, BigEndianUnfolds
  <2>5. BigEndian[k + 1] = Add(BigEndian[above], Octet(v))
    <3>1. k + 1 \in Nat /\ k + 1 # 0  OBVIOUS
    <3> QED BY <2>1, <2>2, <3>1, BigEndianUnfolds, Zenon DEF MoreBytes, Add
  <2>6. Values(BigEndian[k + 1]) = Add(Values(BigEndian[above]), v)
        /\ Values(BigEndian[above]) \in Seq(Nat)
    BY <2>3, <2>4, <2>5, ValuesAdd
  <2>7. FromBigEndian(Values(BigEndian[above]), most) = above
    BY <1>2, <2>3
  <2>8. FromBigEndian(Values(BigEndian[k + 1]), most) = NextLength(above, most, v)
    <3>1. v \in Nat  BY <2>3
    <3> QED BY <2>6, <2>7, <3>1, LengthAppend
  <2> QED BY <2>3, <2>8 DEF NextLength
<1>3. \A k \in Nat : P(k)
  <2> DEFINE N == {k \in Nat : P(k)}
  <2> HIDE DEF P
  <2>1. 0 \in N /\ \A k \in Nat : k \in N => k + 1 \in N  BY <1>1, <1>2
  <2>2. \A k \in Nat : k \in N
    <3> HIDE DEF N
    <3> QED BY <2>1, NatInduct
  <2> QED BY <2>2
<1>4. n \in 0 .. n  OBVIOUS
<1>5. n # 0 => BigEndian[n] # <<>>
  <2> SUFFICES ASSUME n # 0  PROVE BigEndian[n] # <<>>
    OBVIOUS
  <2>1. Above(n) \in Nat  BY LastOctet
  <2>2. BigEndian[Above(n)] \in Seq(Octets)  BY <2>1, BigEndianUnfolds
  <2>3. BigEndian[n] = MoreBytes(BigEndian[Above(n)], n)  BY BigEndianUnfolds
  <2> HIDE DEF Octets
  <2> QED BY <2>2, <2>3 DEF MoreBytes
<1> QED BY <1>3, <1>4, <1>5, BigEndianUnfolds

-----------------------------------------------------------------------------
(* Places *)

\* The octets v are found at p.
Lies(octets, p, v) ==
  /\ IsSeq(octets) /\ IsSeq(v) /\ p \in Nat \ {0} /\ p + Len(v) <= Len(octets) + 1
  /\ \A i \in 1 .. Len(v) : octets[p + i - 1] = v[i]

\* Lengths are numbers.
LEMMA SeqLength == ASSUME NEW s, IsSeq(s) PROVE Len(s) \in Nat
BY DEF IsSeq

\* The two halves of a concatenation lie side by side.
LEMMA LiesCat ==
  ASSUME NEW octets, NEW p, NEW a, NEW b, IsSeq(a), IsSeq(b), Lies(octets, p, Cat(a, b))
  PROVE  Lies(octets, p, a) /\ Lies(octets, p + Len(a), b)
<1>1. PICK m \in Nat, n \in Nat, l \in Nat : m = Len(a) /\ n = Len(b) /\ l = Len(octets)
  <2>1. Len(a) \in Nat /\ Len(b) \in Nat /\ Len(octets) \in Nat  BY SeqLength DEF Lies
  <2> QED BY <2>1
<1>2. /\ Len(Cat(a, b)) = m + n
      /\ \A i \in 1 .. m : Cat(a, b)[i] = a[i]
      /\ \A i \in 1 .. n : Cat(a, b)[m + i] = b[i]
  BY <1>1, CatPlaces
<1>3. PICK q \in Nat : q = p /\ q # 0  BY DEF Lies
<1>4. q + (m + n) <= l + 1  BY <1>1, <1>2, <1>3 DEF Lies
<1>5. \A i \in 1 .. m + n : octets[q + i - 1] = Cat(a, b)[i]  BY <1>1, <1>2, <1>3 DEF Lies
<1>6. \A i \in 1 .. m : octets[q + i - 1] = a[i]
  <2> TAKE i \in 1 .. m
  <2>1. i \in 1 .. m + n  OBVIOUS
  <2> QED BY <1>2, <1>5, <2>1
<1>7. \A i \in 1 .. n : octets[(q + m) + i - 1] = b[i]
  <2> TAKE i \in 1 .. n
  <2>1. m + i \in 1 .. m + n  OBVIOUS
  <2>2. q + (m + i) - 1 = (q + m) + i - 1  OBVIOUS
  <2> QED BY <1>2, <1>5, <2>1, <2>2
<1>8. IsSeq(octets)  BY DEF Lies
<1>9. q \in Nat \ {0} /\ q + m \in Nat \ {0} /\ q + m <= l + 1 /\ (q + m) + n <= l + 1
  BY <1>3, <1>4
<1> QED BY <1>1, <1>3, <1>6, <1>7, <1>8, <1>9 DEF Lies

\* One octet lies where it is.
LEMMA LiesOne ==
  ASSUME NEW octets, NEW p, NEW e, Lies(octets, p, <<e>>)
  PROVE  octets[p] = e /\ p <= Len(octets)
<1>1. Len(<<e>>) = 1 /\ <<e>>[1] = e  OBVIOUS
<1>2. PICK one : one = <<e>>  OBVIOUS
<1>3. Len(one) = 1 /\ one[1] = e  BY <1>1, <1>2
<1>4. Lies(octets, p, one)  BY <1>2
<1>5. Len(octets) \in Nat  BY SeqLength DEF Lies
<1>6. p \in Nat /\ p + 1 - 1 = p  BY DEF Lies
<1> QED BY <1>3, <1>4, <1>5, <1>6 DEF Lies

\* What lies at a place is the part of the octets from there on.
LEMMA LiesSub ==
  ASSUME NEW octets, NEW p, NEW v, Lies(octets, p, v)
  PROVE  SubSeq(octets, p, p + Len(v) - 1) = v
<1>1. PICK T : octets \in Seq(T) /\ v \in Seq(T)  BY OneSet DEF Lies
<1>2. PICK n \in Nat, l \in Nat : n = Len(v) /\ l = Len(octets)
  <2>1. Len(v) \in Nat /\ Len(octets) \in Nat  BY <1>1
  <2> QED BY <2>1
<1>3. PICK q \in Nat : q = p /\ q # 0  BY DEF Lies
<1>4. q + n <= l + 1 /\ \A i \in 1 .. n : octets[q + i - 1] = v[i]
  BY <1>2, <1>3 DEF Lies
<1>5. PICK s : s = SubSeq(octets, q, q + n - 1)  OBVIOUS
<1>6. s = [i \in 1 .. n |-> octets[q + i - 1]]
  <2>1. s \in Seq(T)  BY <1>1, <1>2, <1>4, <1>5
  <2>2. Len(s) = n /\ \A i \in 1 .. n : s[i] = octets[q + i - 1]
    BY <1>1, <1>2, <1>4, <1>3, <1>5
  <2>3. s = [i \in 1 .. Len(s) |-> s[i]]  BY <2>1
  <2> QED BY <2>2, <2>3
<1>7. v = [i \in 1 .. n |-> v[i]]
  <2>1. v = [i \in 1 .. Len(v) |-> v[i]]  BY <1>1
  <2> QED BY <1>2, <2>1
<1>8. s = v  BY <1>4, <1>6, <1>7
<1> QED BY <1>2, <1>3, <1>5, <1>8

-----------------------------------------------------------------------------
(* Definite values *)

\* An octet and its number.
LEMMA OctetFacts ==
  /\ \A octets, p, n : octets[p] = Octet(n) => ValueOf(octets, p) = n
  /\ \A m, n : Octet(m) = Octet(n) => m = n
  /\ \A n : Octet(n)[2] = n
BY DEF Octet, ValueOf

\* The octets of a length are read as this length.
LEMMA LengthRead ==
  ASSUME NEW octets, NEW p \in Nat, NEW n \in Nat, n <= Len(octets),
         Lies(octets, p + 1, WriteLength(n))
  PROVE  /\ IsSeq(WriteLength(n)) /\ Len(WriteLength(n)) >= 1
         /\ MoreOctets(octets, p) = Len(WriteLength(n)) - 1 /\ BodyLength(octets, p) = n
         /\ octets[p + 1] # Octet(128)
<1>1. CASE n < 128
  <2>1. PICK one : one = <<Octet(n)>>  OBVIOUS
  <2>2. IsSeq(one) /\ Len(one) = 1  BY <2>1, OneIsSeq
  <2>3. WriteLength(n) = one  BY <1>1, <2>1 DEF WriteLength
  <2>4. octets[p + 1] = Octet(n)  BY <2>1, <2>3, LiesOne
  <2>5. ValueOf(octets, p + 1) = n  BY <2>4, OctetFacts
  <2>6. octets[p + 1] # Octet(128)  BY <1>1, <2>4, OctetFacts
  <2>7. MoreOctets(octets, p) = 0 /\ BodyLength(octets, p) = n
    BY <1>1, <2>5 DEF MoreOctets, BodyLength
  <2>8. IsSeq(WriteLength(n)) /\ Len(WriteLength(n)) = 1  BY <2>2, <2>3, Zenon
  <2> QED BY <2>6, <2>7, <2>8
<1>2. CASE ~ (n < 128)
  <2>1. PICK digits : digits = BigEndian[n]  OBVIOUS
  <2>2. Len(octets) \in Nat  BY SeqLength DEF Lies
  <2>3. /\ digits \in Seq(Octets) /\ digits # <<>>
        /\ FromBigEndian(Values(digits), Len(octets)) = n
    BY <1>2, <2>1, <2>2, LengthReadBack
  <2>4. PICK k \in Nat : k = Len(digits)  BY <2>3
  <2>5. k >= 1
    <3> HIDE DEF Octets
    <3> QED BY <2>3, <2>4
  <2>6. PICK one : one = <<Octet(128 + k)>>  OBVIOUS
  <2>7. IsSeq(one) /\ Len(one) = 1  BY <2>6, OneIsSeq
  <2>8. IsSeq(digits)  BY <2>3 DEF IsSeq
  <2>9. WriteLength(n) = Cat(one, digits)
    BY <1>2, <2>1, <2>4, <2>6 DEF WriteLength, Cat
  <2>10. Len(WriteLength(n)) = 1 + k /\ IsSeq(WriteLength(n))
    <3>1. Len(Cat(one, digits)) = Len(one) + Len(digits)  BY <2>7, <2>8, CatPlaces, Zenon
    <3>2. IsSeq(Cat(one, digits))  BY <2>7, <2>8, CatFacts, Zenon
    <3> QED BY <2>4, <2>7, <2>9, <3>1, <3>2
  <2>11. Lies(octets, p + 1, one) /\ Lies(octets, (p + 1) + 1, digits)
    BY <2>7, <2>8, <2>9, LiesCat
  <2>12. octets[p + 1] = Octet(128 + k)  BY <2>6, <2>11, LiesOne
  <2>13. ValueOf(octets, p + 1) = 128 + k  BY <2>12, OctetFacts
  <2>14. octets[p + 1] # Octet(128)  BY <2>5, <2>12, OctetFacts
  <2>15. MoreOctets(octets, p) = k  BY <2>13 DEF MoreOctets
  <2>16. \A i \in 1 .. k : ValueOf(octets, p + 1 + i) = digits[i][2]
    <3> TAKE i \in 1 .. k
    <3>1. octets[((p + 1) + 1) + i - 1] = digits[i]  BY <2>4, <2>11 DEF Lies
    <3>2. ((p + 1) + 1) + i - 1 = p + 1 + i  OBVIOUS
    <3>3. digits[i] \in Octets
      <4> HIDE DEF Octets
      <4> QED BY <2>3, <2>4
    <3>4. PICK v \in 0 .. 255 : digits[i] = Octet(v)  BY <3>3 DEF Octets
    <3>5. ValueOf(octets, p + 1 + i) = v  BY <3>1, <3>2, <3>4, OctetFacts
    <3> QED BY <3>4, <3>5, OctetFacts
  <2>17. [i \in 1 .. k |-> ValueOf(octets, p + 1 + i)] = Values(digits)
    BY <2>4, <2>16 DEF Values
  <2>18. BodyLength(octets, p) = n
    <3>1. BodyLength(octets, p) = FromBigEndian([i \in 1 .. k |-> ValueOf(octets, p + 1 + i)], Len(octets))
      BY <2>13, <2>15 DEF BodyLength
    <3> QED BY <2>3, <2>17, <3>1
  <2> QED BY <2>5, <2>10, <2>14, <2>15, <2>18
<1> QED BY <1>1, <1>2

\* A length is written in at least one octet.
LEMMA LengthIsSeq ==
  ASSUME NEW n \in Nat
  PROVE  IsSeq(WriteLength(n)) /\ Len(WriteLength(n)) \in Nat /\ Len(WriteLength(n)) >= 1
<1>1. CASE n < 128
  <2>1. PICK one : one = <<Octet(n)>>  OBVIOUS
  <2>2. IsSeq(one) /\ Len(one) = 1  BY <2>1, OneIsSeq
  <2>3. WriteLength(n) = one  BY <1>1, <2>1 DEF WriteLength
  <2>4. IsSeq(WriteLength(n)) /\ Len(WriteLength(n)) = 1  BY <2>2, <2>3, Zenon
  <2> QED BY <2>4
<1>2. CASE ~ (n < 128)
  <2>1. PICK digits : digits = BigEndian[n]  OBVIOUS
  <2>2. IsSeq(digits)  BY <2>1, BigEndianUnfolds DEF IsSeq
  <2>3. PICK one : one = <<Octet(128 + Len(digits))>>  OBVIOUS
  <2>4. IsSeq(one) /\ Len(one) = 1  BY <2>3, OneIsSeq
  <2>5. WriteLength(n) = Cat(one, digits)  BY <1>2, <2>1, <2>3 DEF WriteLength, Cat
  <2>6. Len(Cat(one, digits)) = Len(one) + Len(digits)  BY <2>2, <2>4, CatPlaces, Zenon
  <2>7. IsSeq(Cat(one, digits))  BY <2>2, <2>4, CatFacts, Zenon
  <2>8. Len(digits) \in Nat  BY <2>2, SeqLength
  <2> QED BY <2>4, <2>5, <2>6, <2>7, <2>8
<1> QED BY <1>1, <1>2

\* What comes before the body of a definite value.
Header(tag, n) == Cat(<<Octet(tag)>>, WriteLength(n))

\* A definite value is a header and a body.
LEMMA TlvParts ==
  ASSUME NEW tag, NEW body, IsSeq(body)
  PROVE  /\ Tlv(tag, body) = Cat(Header(tag, Len(body)), body)
         /\ IsSeq(Header(tag, Len(body))) /\ IsSeq(Tlv(tag, body)) /\ Len(body) \in Nat
         /\ Len(Header(tag, Len(body))) = 1 + Len(WriteLength(Len(body)))
         /\ Len(Tlv(tag, body)) = Len(Header(tag, Len(body))) + Len(body)
<1>1. PICK n \in Nat : n = Len(body)  BY SeqLength
<1>2. PICK one : one = <<Octet(tag)>>  OBVIOUS
<1>3. IsSeq(one) /\ Len(one) = 1  BY <1>2, OneIsSeq
<1>4. IsSeq(WriteLength(n))  BY LengthIsSeq
<1>5. PICK h : h = Header(tag, n)  OBVIOUS
<1>6. h = Cat(one, WriteLength(n))  BY <1>2, <1>5, Zenon DEF Header
<1>7. IsSeq(h)  BY <1>3, <1>4, <1>6, CatFacts, Zenon
<1>8. Len(h) = Len(one) + Len(WriteLength(n))  BY <1>3, <1>4, <1>6, CatPlaces, Zenon
<1>9. Tlv(tag, body) = Cat(h, body)
  BY <1>1, <1>2, <1>6, Zenon DEF Tlv, Cat
<1>10. IsSeq(Tlv(tag, body))  BY <1>7, <1>9, CatFacts, ZenonT(40)
<1>11. Len(Tlv(tag, body)) = Len(h) + Len(body)  BY <1>7, <1>9, CatPlaces, Zenon
<1> QED BY <1>1, <1>3, <1>5, <1>7, <1>8, <1>9, <1>10, <1>11

\* A definite value is read to its end, whatever its length.
LEMMA TlvRead ==
  ASSUME NEW octets, NEW p, NEW tag, NEW body, IsSeq(body), Lies(octets, p, Tlv(tag, body))
  PROVE  /\ octets[p] = Octet(tag) /\ octets[p + 1] # Octet(128)
         /\ p \in 1 .. Len(octets) - 1 /\ Len(Tlv(tag, body)) \in Nat /\ Len(Tlv(tag, body)) >= 2
         /\ BodyEnd(octets, p) = p + Len(Tlv(tag, body))
         /\ BodyFrom(octets, p) + Len(body) = p + Len(Tlv(tag, body))
         /\ Lies(octets, BodyFrom(octets, p), body)
<1>1. PICK n \in Nat, l \in Nat, q \in Nat : n = Len(body) /\ l = Len(octets) /\ q = p /\ q # 0
  <2>1. Len(body) \in Nat /\ Len(octets) \in Nat /\ p \in Nat \ {0}  BY SeqLength DEF Lies
  <2> QED BY <2>1
<1>2. PICK h : h = Header(tag, n)  OBVIOUS
<1>3. PICK w \in Nat : w = Len(WriteLength(n)) /\ w >= 1  BY LengthIsSeq
<1>4. /\ Tlv(tag, body) = Cat(h, body) /\ IsSeq(h)
      /\ Len(h) = 1 + w /\ Len(Tlv(tag, body)) = (1 + w) + n
  BY <1>1, <1>2, <1>3, TlvParts
<1>5. Lies(octets, q, h) /\ Lies(octets, q + (1 + w), body)
  <2>1. Lies(octets, q, Cat(h, body))  BY <1>1, <1>4
  <2>2. Lies(octets, q, h) /\ Lies(octets, q + Len(h), body)  BY <1>4, <2>1, LiesCat, Zenon
  <2> QED BY <1>4, <2>2
<1>6. q + ((1 + w) + n) <= l + 1  BY <1>1, <1>4 DEF Lies
<1>7. PICK one : one = <<Octet(tag)>>  OBVIOUS
<1>8. IsSeq(one) /\ Len(one) = 1  BY <1>7, OneIsSeq
<1>9. h = Cat(one, WriteLength(n))  BY <1>2, <1>7, Zenon DEF Header
<1>10. Lies(octets, q, one) /\ Lies(octets, q + 1, WriteLength(n))
  <2>1. IsSeq(WriteLength(n))  BY LengthIsSeq
  <2>2. Lies(octets, q, one) /\ Lies(octets, q + Len(one), WriteLength(n))
    BY <1>5, <1>8, <1>9, <2>1, LiesCat, Zenon
  <2> QED BY <1>8, <2>2
<1>11. octets[q] = Octet(tag)  BY <1>7, <1>10, LiesOne
<1>12. n <= Len(octets)  BY <1>1, <1>6
<1>13. /\ MoreOctets(octets, q) = w - 1 /\ BodyLength(octets, q) = n
       /\ octets[q + 1] # Octet(128)
  BY <1>3, <1>10, <1>12, LengthRead
<1>14. BodyFrom(octets, q) = q + (1 + w)  BY <1>3, <1>13 DEF BodyFrom
<1>15. BodyEnd(octets, q) = q + ((1 + w) + n)
  BY <1>1, <1>3, <1>6, <1>13, <1>14 DEF BodyEnd
<1>16. q \in 1 .. l - 1 /\ (1 + w) + n >= 2  BY <1>1, <1>3, <1>6
<1>17. BodyFrom(octets, q) + n = q + ((1 + w) + n)  BY <1>14
<1> QED BY <1>1, <1>4, <1>5, <1>11, <1>13, <1>14, <1>15, <1>16, <1>17

-----------------------------------------------------------------------------
(* Indefinite values *)

\* What Closed does at p, with the places f of what follows.
CloseStep(octets, f, p, depth) ==
  IF depth = 0 THEN p
  ELSE IF p \notin 1 .. Len(octets) - 1 THEN 0
  ELSE IF IsEndOfContents(octets, p) THEN f[p + 2][depth - 1]
  ELSE IF IsIndefinite(octets, p) THEN f[p + 2][depth + 1]
  ELSE f[BodyEnd(octets, p)][depth]

CloseRow(octets, f, p) == [depth \in Nat |-> CloseStep(octets, f, p, depth)]

\* A definite value ends behind its beginning, or nowhere.
LEMMA EndIsLater ==
  ASSUME NEW octets, IsSeq(octets), NEW p \in Nat
  PROVE  BodyEnd(octets, p) = 0 \/ (BodyEnd(octets, p) \in Nat /\ BodyEnd(octets, p) >= p + 2)
<1>1. Len(octets) \in Nat  BY SeqLength
<1> QED BY <1>1 DEF BodyEnd

\* The step at p looks at no earlier place but 0.
LEMMA StepLooksAhead ==
  ASSUME NEW octets, IsSeq(octets), NEW f, NEW g, NEW p \in Nat,
         \A q \in Nat : q = 0 \/ q > p => f[q] = g[q]
  PROVE  CloseRow(octets, f, p) = CloseRow(octets, g, p)
<1>1. f[p + 2] = g[p + 2]
  <2>1. p + 2 \in Nat /\ p + 2 > p  OBVIOUS
  <2> QED BY <2>1
<1>2. f[BodyEnd(octets, p)] = g[BodyEnd(octets, p)]
  <2>1. PICK e : e = BodyEnd(octets, p)  OBVIOUS
  <2>2. e \in Nat /\ (e = 0 \/ e > p)
    <3>1. e = 0 \/ (e \in Nat /\ e >= p + 2)  BY <2>1, EndIsLater
    <3> QED BY <3>1
  <2> QED BY <2>1, <2>2
<1>3. \A d \in Nat : CloseStep(octets, f, p, d) = CloseStep(octets, g, p, d)
  BY <1>1, <1>2, Zenon DEF CloseStep
<1> QED BY <1>3 DEF CloseRow

NoRow == [depth \in Nat |-> 0]

\* Right from place m on.
ClosesFrom(octets, f, m) ==
  f = [p \in Nat |-> IF p \in 1 .. m - 1 THEN NoRow ELSE CloseRow(octets, f, p)]

\* A function right from m + 1 on can be made right from m on.
LEMMA OneMoreCloses ==
  ASSUME NEW octets, IsSeq(octets), NEW m \in Nat \ {0}, NEW f, ClosesFrom(octets, f, m + 1)
  PROVE  \E g : ClosesFrom(octets, g, m)
<1> DEFINE g == [p \in Nat |-> IF p = m THEN CloseRow(octets, f, m) ELSE f[p]]
<1>1. \A p \in Nat : g[p] = IF p = m THEN CloseRow(octets, f, m) ELSE f[p]
  OBVIOUS
<1>2. g = [p \in Nat |-> g[p]]
  OBVIOUS
<1> HIDE DEF g
<1>3. ASSUME NEW p \in Nat
      PROVE  f[p] = IF p \in 1 .. m THEN NoRow ELSE CloseRow(octets, f, p)
  <2>1. (m + 1) - 1 = m  OBVIOUS
  <2> QED BY <2>1 DEF ClosesFrom
<1>4. ASSUME NEW p \in Nat
      PROVE  g[p] = IF p \in 1 .. m - 1 THEN NoRow ELSE CloseRow(octets, g, p)
  <2>1. CASE p = m
    <3>1. \A q \in Nat : q = 0 \/ q > p => f[q] = g[q]
      BY <1>1, <2>1
    <3>2. CloseRow(octets, f, p) = CloseRow(octets, g, p)
      BY <3>1, StepLooksAhead
    <3>3. p \notin 1 .. m - 1  BY <2>1
    <3> QED BY <1>1, <2>1, <3>2, <3>3
  <2>2. CASE p \in 1 .. m - 1
    <3>1. p \in 1 .. m /\ p # m  BY <2>2
    <3> QED BY <1>1, <1>3, <2>2, <3>1
  <2>3. CASE p = 0 \/ p > m
    <3>1. p \notin 1 .. m /\ p # m /\ p \notin 1 .. m - 1  BY <2>3
    <3>2. CASE p > m
      <4>1. \A q \in Nat : q = 0 \/ q > p => f[q] = g[q]
        BY <1>1, <3>2
      <4>2. CloseRow(octets, f, p) = CloseRow(octets, g, p)
        BY <4>1, StepLooksAhead
      <4> QED BY <1>1, <1>3, <3>1, <4>2
    <3>3. CASE p = 0
      <4>1. p \notin 1 .. Len(octets) - 1  BY <3>3
      <4>2. \A d : CloseStep(octets, f, p, d) = CloseStep(octets, g, p, d)
        BY <4>1, Zenon DEF CloseStep
      <4>3. CloseRow(octets, f, p) = CloseRow(octets, g, p)
        BY <4>2 DEF CloseRow
      <4> QED BY <1>1, <1>3, <3>1, <4>3
    <3> QED BY <2>3, <3>2, <3>3
  <2> QED BY <2>1, <2>2, <2>3
<1> QED BY <1>2, <1>4 DEF ClosesFrom

\* Places past the end.
LEMMA ClosesPast ==
  ASSUME NEW octets, NEW l \in Nat, l = Len(octets)
  PROVE  \E f : ClosesFrom(octets, f, l + 1)
<1> DEFINE f == [p \in Nat |-> IF p \in 1 .. l THEN NoRow
                               ELSE [depth \in Nat |-> IF depth = 0 THEN p ELSE 0]]
<1>1. ASSUME NEW p \in Nat
      PROVE  f[p] = IF p \in 1 .. l THEN NoRow ELSE CloseRow(octets, f, p)
  <2>1. f[p] = IF p \in 1 .. l THEN NoRow ELSE [depth \in Nat |-> IF depth = 0 THEN p ELSE 0]
    OBVIOUS
  <2> HIDE DEF f
  <2>2. CASE p \notin 1 .. l
    <3>1. p \notin 1 .. Len(octets) - 1  BY <2>2
    <3>2. \A d \in Nat : CloseStep(octets, f, p, d) = IF d = 0 THEN p ELSE 0
      BY <3>1 DEF CloseStep
    <3> QED BY <2>1, <2>2, <3>2 DEF CloseRow
  <2> QED BY <2>1, <2>2
<1>2. f = [p \in Nat |-> f[p]]  OBVIOUS
<1> HIDE DEF f
<1>3. (l + 1) - 1 = l  OBVIOUS
<1> QED BY <1>1, <1>2, <1>3 DEF ClosesFrom

\* There is a function that is right everywhere.
LEMMA ClosingExists ==
  ASSUME NEW octets, IsSeq(octets)
  PROVE  \E f : ClosesFrom(octets, f, 1)
<1>1. PICK l \in Nat : l = Len(octets)  BY SeqLength
<1> DEFINE P(k) == k <= l => \E f : ClosesFrom(octets, f, (l + 1) - k)
<1>2. P(0)
  <2>1. (l + 1) - 0 = l + 1  OBVIOUS
  <2> QED BY <1>1, <2>1, ClosesPast
<1>3. ASSUME NEW k \in Nat, P(k)  PROVE P(k + 1)
  <2> SUFFICES ASSUME k + 1 <= l  PROVE \E f : ClosesFrom(octets, f, (l + 1) - (k + 1))
    OBVIOUS
  <2>1. PICK m \in Nat \ {0} : m = (l + 1) - (k + 1)  OBVIOUS
  <2>2. (l + 1) - k = m + 1  BY <2>1
  <2>3. PICK f : ClosesFrom(octets, f, m + 1)  BY <1>3, <2>2
  <2>4. \E g : ClosesFrom(octets, g, m)  BY <2>3, OneMoreCloses
  <2> QED BY <2>1, <2>4
<1>4. \A k \in Nat : P(k)
  <2> DEFINE N == {k \in Nat : P(k)}
  <2> HIDE DEF P
  <2>1. 0 \in N /\ \A k \in Nat : k \in N => k + 1 \in N  BY <1>2, <1>3
  <2>2. \A k \in Nat : k \in N
    <3> HIDE DEF N
    <3> QED BY <2>1, NatInduct
  <2> QED BY <2>2
<1>5. P(l)  BY <1>4
<1>6. (l + 1) - l = 1 /\ l <= l  OBVIOUS
<1> QED BY <1>5, <1>6

\* Closed, one step at a time.
LEMMA ClosedUnfolds ==
  ASSUME NEW octets, IsSeq(octets), NEW p \in Nat, NEW depth \in Nat
  PROVE  Closed(octets, p, depth) =
           IF depth = 0 THEN p
           ELSE IF p \notin 1 .. Len(octets) - 1 THEN 0
           ELSE IF IsEndOfContents(octets, p) THEN Closed(octets, p + 2, depth - 1)
           ELSE IF IsIndefinite(octets, p) THEN Closed(octets, p + 2, depth + 1)
           ELSE Closed(octets, BodyEnd(octets, p), depth)
<1> DEFINE Solves(f) == f = [q \in Nat |-> CloseRow(octets, f, q)]
           at == CHOOSE f : Solves(f)
<1>1. \A q, d : Closed(octets, q, d) = at[q][d]
  BY DEF Closed, CloseRow, CloseStep
<1>2. \E f : Solves(f)
  <2>1. PICK f : ClosesFrom(octets, f, 1)  BY ClosingExists
  <2>2. \A q \in Nat : q \notin 1 .. 1 - 1  OBVIOUS
  <2>3. Solves(f)  BY <2>1, <2>2 DEF ClosesFrom
  <2> QED BY <2>3
<1>3. Solves(at)
  <2> HIDE DEF Solves
  <2> QED BY <1>2
<1>4. \A q \in Nat, d \in Nat : at[q][d] = CloseStep(octets, at, q, d)
  <2>1. at = [q \in Nat |-> CloseRow(octets, at, q)]  BY <1>3
  <2> HIDE DEF at
  <2> QED BY <2>1 DEF CloseRow
<1> HIDE DEF at
<1>5. Closed(octets, p, depth) = CloseStep(octets, at, p, depth)  BY <1>1, <1>4, Zenon
<1>6. /\ at[p + 2][depth - 1] = Closed(octets, p + 2, depth - 1)
      /\ at[p + 2][depth + 1] = Closed(octets, p + 2, depth + 1)
      /\ at[BodyEnd(octets, p)][depth] = Closed(octets, BodyEnd(octets, p), depth)
  BY <1>1, Zenon
<1> QED BY <1>5, <1>6 DEF CloseStep

\* From p as from q, for a reader inside indefinite values.
Skips(octets, p, q) == \A d \in Nat \ {0} : Closed(octets, p, d) = Closed(octets, q, d)

\* What a reader can pass over, inside an indefinite value.
IsContents(s) ==
  IsSeq(s) /\ \A octets, p : Lies(octets, p, s) => Skips(octets, p, p + Len(s))

\* One value, definite or not: its end is found.
IsValue(v) ==
  /\ IsContents(v) /\ Len(v) >= 2
  /\ \A octets, p : Lies(octets, p, v) => After(octets, p) = p + Len(v)

\* Nothing is passed over.
LEMMA NothingIsContents == IsContents(<<>>)
<1>1. PICK none : none = <<>>  OBVIOUS
<1>2. IsSeq(none) /\ Len(none) = 0  BY <1>1, EmptyIsSeq
<1>3. ASSUME NEW octets, NEW p, Lies(octets, p, none)  PROVE Skips(octets, p, p + Len(none))
  <2>1. p \in Nat  BY <1>3 DEF Lies
  <2>2. p + Len(none) = p  BY <1>2, <2>1
  <2> QED BY <2>2 DEF Skips
<1> QED BY <1>1, <1>2, <1>3 DEF IsContents

\* Passed over one after the other.
LEMMA ContentsCat ==
  ASSUME NEW a, NEW b, IsContents(a), IsContents(b)
  PROVE  IsContents(Cat(a, b))
<1>1. IsSeq(a) /\ IsSeq(b)  BY DEF IsContents
<1>2. IsSeq(Cat(a, b)) /\ Len(Cat(a, b)) = Len(a) + Len(b) /\ Len(a) \in Nat /\ Len(b) \in Nat
  <2>1. IsSeq(Cat(a, b))  BY <1>1, CatFacts, Zenon
  <2>2. Len(a) \in Nat /\ Len(b) \in Nat /\ Len(Cat(a, b)) = Len(a) + Len(b)
    BY <1>1, CatPlaces, Zenon
  <2> QED BY <2>1, <2>2
<1>3. ASSUME NEW octets, NEW p, Lies(octets, p, Cat(a, b))
      PROVE  Skips(octets, p, p + Len(Cat(a, b)))
  <2>1. Lies(octets, p, a) /\ Lies(octets, p + Len(a), b)  BY <1>1, <1>3, LiesCat, Zenon
  <2>2. Skips(octets, p, p + Len(a)) /\ Skips(octets, p + Len(a), (p + Len(a)) + Len(b))
    BY <2>1, Zenon DEF IsContents
  <2>3. (p + Len(a)) + Len(b) = p + Len(Cat(a, b))
    <3>1. p \in Nat  BY <1>3 DEF Lies
    <3> QED BY <1>2, <3>1
  <2> QED BY <2>2, <2>3, Zenon DEF Skips
<1> QED BY <1>2, <1>3 DEF IsContents

\* A definite value.
LEMMA TlvIsValue ==
  ASSUME NEW tag, tag # 0, NEW body, IsSeq(body)
  PROVE  IsValue(Tlv(tag, body))
<1>1. PICK v : v = Tlv(tag, body)  OBVIOUS
<1>2. PICK m \in Nat : m = Len(v)
  <2>1. IsSeq(v)  BY <1>1, TlvParts
  <2> QED BY <2>1, SeqLength
<1>3. IsSeq(v) /\ m >= 2
  <2>1. IsSeq(v)  BY <1>1, TlvParts
  <2>2. /\ Len(v) = Len(Header(tag, Len(body))) + Len(body) /\ Len(body) \in Nat
        /\ Len(Header(tag, Len(body))) = 1 + Len(WriteLength(Len(body)))
    BY <1>1, TlvParts
  <2>3. Len(WriteLength(Len(body))) \in Nat /\ Len(WriteLength(Len(body))) >= 1
    BY <2>2, LengthIsSeq
  <2> QED BY <1>2, <2>1, <2>2, <2>3
<1>4. ASSUME NEW octets, NEW p, Lies(octets, p, v)
      PROVE  After(octets, p) = p + Len(v) /\ Skips(octets, p, p + Len(v))
  <2>1. /\ octets[p] = Octet(tag) /\ octets[p + 1] # Octet(128)
        /\ p \in 1 .. Len(octets) - 1 /\ BodyEnd(octets, p) = p + Len(v)
    BY <1>1, <1>4, TlvRead
  <2>2. IsSeq(octets) /\ p \in Nat  BY <1>4 DEF Lies
  <2>3. ~ IsEndOfContents(octets, p)
    <3>1. Octet(tag) # Octet(0)  BY OctetFacts
    <3> QED BY <2>1, <3>1 DEF IsEndOfContents
  <2>4. ~ IsIndefinite(octets, p)
    <3>1. Octet(\h80) = Octet(128)  OBVIOUS
    <3> QED BY <2>1, <3>1 DEF IsIndefinite
  <2>5. After(octets, p) = p + Len(v)  BY <2>1, <2>4 DEF After
  <2>6. ASSUME NEW d \in Nat \ {0}
        PROVE  Closed(octets, p, d) = Closed(octets, p + Len(v), d)
    <3>1. Closed(octets, p, d) =
            IF d = 0 THEN p
            ELSE IF p \notin 1 .. Len(octets) - 1 THEN 0
            ELSE IF IsEndOfContents(octets, p) THEN Closed(octets, p + 2, d - 1)
            ELSE IF IsIndefinite(octets, p) THEN Closed(octets, p + 2, d + 1)
            ELSE Closed(octets, BodyEnd(octets, p), d)
      BY <2>2, ClosedUnfolds
    <3> QED BY <2>1, <2>3, <2>4, <3>1
  <2> QED BY <2>5, <2>6 DEF Skips
<1> QED BY <1>1, <1>2, <1>3, <1>4 DEF IsValue, IsContents

\* The tags of constructed values.
Constructed == {\h30, \h31, \ha0}

Opener(tag) == <<Octet(tag), Octet(\h80)>>
Closer      == <<Octet(0), Octet(0)>>

\* Two octets.
LEMMA LiesTwo ==
  ASSUME NEW octets, NEW p, NEW d, NEW e, Lies(octets, p, <<d, e>>)
  PROVE  octets[p] = d /\ octets[p + 1] = e /\ p \in 1 .. Len(octets) - 1
<1>1. PICK two : two = <<d, e>>  OBVIOUS
<1>2. Len(two) = 2 /\ two[1] = d /\ two[2] = e  BY <1>1
<1>3. Lies(octets, p, two)  BY <1>1
<1>4. Len(octets) \in Nat  BY SeqLength DEF Lies
<1>5. p \in Nat \ {0} /\ p + 1 - 1 = p /\ p + 2 - 1 = p + 1  BY DEF Lies
<1> QED BY <1>2, <1>3, <1>4, <1>5 DEF Lies

\* Two octets are a sequence.
LEMMA TwoIsSeq == ASSUME NEW d, NEW e PROVE IsSeq(<<d, e>>) /\ Len(<<d, e>>) = 2
<1>1. <<d, e>> \in Seq({d, e})  OBVIOUS
<1> QED BY <1>1 DEF IsSeq

\* What an indefinite value is made of.
LEMMA IndefiniteParts ==
  ASSUME NEW tag, NEW elements, NEW s, IsSeq(s), FlattenSeq(elements) = s
  PROVE  /\ Indefinite(tag, elements) = Cat(Cat(Opener(tag), s), Closer)
         /\ IsSeq(Indefinite(tag, elements)) /\ Len(s) \in Nat
         /\ Len(Indefinite(tag, elements)) = Len(s) + 4
         /\ IsSeq(Opener(tag)) /\ IsSeq(Closer) /\ IsSeq(Cat(Opener(tag), s))
         /\ Len(Opener(tag)) = 2 /\ Len(Cat(Opener(tag), s)) = 2 + Len(s)
<1>1. PICK o, c : o = Opener(tag) /\ c = Closer  OBVIOUS
<1>2. IsSeq(o) /\ Len(o) = 2 /\ IsSeq(c) /\ Len(c) = 2
  BY <1>1, TwoIsSeq DEF Opener, Closer
<1>3. Indefinite(tag, elements) = Cat(Cat(o, s), c)
  BY <1>1, Zenon DEF Indefinite, Cat, Opener, Closer
<1>4. IsSeq(Cat(o, s)) /\ IsSeq(Cat(Cat(o, s), c))  BY <1>2, CatFacts, Zenon
<1>5. Len(Cat(o, s)) = Len(o) + Len(s) /\ Len(Cat(Cat(o, s), c)) = Len(Cat(o, s)) + Len(c)
  BY <1>2, <1>4, CatPlaces, Zenon
<1>6. Len(s) \in Nat  BY SeqLength
<1> QED BY <1>1, <1>2, <1>3, <1>4, <1>5, <1>6

\* An octet that opens a constructed value does not end one.
LEMMA OpenersDiffer ==
  ASSUME NEW tag \in Constructed
  PROVE  /\ Octet(tag) # Octet(0)
         /\ Octet(tag) \in {Octet(\h30), Octet(\h31), Octet(\ha0)}
<1>1. tag # 0  BY DEF Constructed
<1>2. Octet(tag) # Octet(0)  BY <1>1, OctetFacts
<1>3. tag = \h30 \/ tag = \h31 \/ tag = \ha0  BY DEF Constructed
<1>4. Octet(tag) \in {Octet(\h30), Octet(\h31), Octet(\ha0)}  BY <1>3, Zenon
<1> QED BY <1>2, <1>4

\* Where the parts of an indefinite value lie.
LEMMA IndefiniteLies ==
  ASSUME NEW octets, NEW p, NEW tag \in Constructed, NEW elements, NEW s, IsSeq(s),
         FlattenSeq(elements) = s, Lies(octets, p, Indefinite(tag, elements))
  PROVE  /\ IsSeq(octets) /\ p \in Nat /\ p \in 1 .. Len(octets) - 1 /\ Len(s) \in Nat
         /\ ~ IsEndOfContents(octets, p) /\ IsIndefinite(octets, p)
         /\ octets[p] = Octet(tag)
         /\ Lies(octets, p + 2, s)
         /\ (p + 2) + Len(s) \in 1 .. Len(octets) - 1
         /\ IsEndOfContents(octets, (p + 2) + Len(s))
<1>1. PICK o, c, os : o = Opener(tag) /\ c = Closer /\ os = Cat(o, s)  OBVIOUS
<1>2. /\ Indefinite(tag, elements) = Cat(os, c)
      /\ IsSeq(o) /\ IsSeq(c) /\ IsSeq(os) /\ Len(o) = 2 /\ Len(os) = 2 + Len(s)
      /\ Len(s) \in Nat
  BY <1>1, IndefiniteParts
<1>3. Lies(octets, p, os) /\ Lies(octets, p + Len(os), c)
  BY <1>2, LiesCat, Zenon
<1>4. Lies(octets, p, o) /\ Lies(octets, p + Len(o), s)
  <2>1. Lies(octets, p, Cat(o, s))  BY <1>1, <1>3
  <2> QED BY <1>2, <2>1, LiesCat, Zenon
<1>5. IsSeq(octets) /\ p \in Nat  BY <1>3 DEF Lies
<1>6. p + Len(os) = (p + 2) + Len(s)  BY <1>2, <1>5
<1>7. octets[p] = Octet(tag) /\ octets[p + 1] = Octet(\h80) /\ p \in 1 .. Len(octets) - 1
  <2>1. Lies(octets, p, <<Octet(tag), Octet(\h80)>>)  BY <1>1, <1>4, Zenon DEF Opener
  <2> QED BY <2>1, LiesTwo, Zenon
<1>8. /\ octets[(p + 2) + Len(s)] = Octet(0) /\ octets[((p + 2) + Len(s)) + 1] = Octet(0)
      /\ (p + 2) + Len(s) \in 1 .. Len(octets) - 1
  <2>1. Lies(octets, (p + 2) + Len(s), <<Octet(0), Octet(0)>>)
    BY <1>1, <1>3, <1>6, Zenon DEF Closer
  <2> QED BY <2>1, LiesTwo, Zenon
<1>9. IsEndOfContents(octets, (p + 2) + Len(s))  BY <1>8, Zenon DEF IsEndOfContents
<1>10. IsIndefinite(octets, p)  BY <1>7, OpenersDiffer, ZenonT(40) DEF IsIndefinite
<1>11. ~ IsEndOfContents(octets, p)  BY <1>7, OpenersDiffer, ZenonT(40) DEF IsEndOfContents
<1>12. Lies(octets, p + 2, s)  BY <1>2, <1>4
<1> QED BY <1>2, <1>5, <1>7, <1>8, <1>9, <1>10, <1>11, <1>12

\* An indefinite value ends behind what closes it.
LEMMA IndefiniteIsValue ==
  ASSUME NEW tag \in Constructed, NEW elements, NEW s, IsContents(s), FlattenSeq(elements) = s
  PROVE  IsValue(Indefinite(tag, elements))
<1>1. PICK v : v = Indefinite(tag, elements)  OBVIOUS
<1>2. IsSeq(s)  BY DEF IsContents
<1>3. IsSeq(v) /\ Len(v) = Len(s) + 4 /\ Len(s) \in Nat  BY <1>1, <1>2, IndefiniteParts
<1>4. ASSUME NEW octets, NEW p, Lies(octets, p, v)
      PROVE  After(octets, p) = p + Len(v) /\ Skips(octets, p, p + Len(v))
  <2>1. /\ IsSeq(octets) /\ p \in Nat /\ p \in 1 .. Len(octets) - 1
        /\ ~ IsEndOfContents(octets, p) /\ IsIndefinite(octets, p)
        /\ Lies(octets, p + 2, s)
        /\ (p + 2) + Len(s) \in 1 .. Len(octets) - 1
        /\ IsEndOfContents(octets, (p + 2) + Len(s))
    <3>1. Lies(octets, p, Indefinite(tag, elements))  BY <1>1, <1>4
    <3> QED BY <1>2, <3>1, IndefiniteLies, Zenon
  <2>2. PICK e \in Nat : e = (p + 2) + Len(s) /\ e + 2 = p + Len(v)
    <3>1. (p + 2) + Len(s) \in Nat /\ ((p + 2) + Len(s)) + 2 = p + Len(v)
      BY <1>3, <2>1
    <3> QED BY <3>1
  <2>3. \A d \in Nat \ {0} : Closed(octets, p + 2, d) = Closed(octets, e, d)
    BY <2>1, <2>2, Zenon DEF IsContents, Skips
  <2>4. ASSUME NEW d \in Nat \ {0}
        PROVE  Closed(octets, e, d) = Closed(octets, e + 2, d - 1)
    <3>1. Closed(octets, e, d) =
            IF d = 0 THEN e
            ELSE IF e \notin 1 .. Len(octets) - 1 THEN 0
            ELSE IF IsEndOfContents(octets, e) THEN Closed(octets, e + 2, d - 1)
            ELSE IF IsIndefinite(octets, e) THEN Closed(octets, e + 2, d + 1)
            ELSE Closed(octets, BodyEnd(octets, e), d)
      BY <2>1, ClosedUnfolds
    <3> QED BY <2>1, <2>2, <3>1
  <2>5. ASSUME NEW d \in Nat \ {0}
        PROVE  Closed(octets, p, d) = Closed(octets, p + 2, d + 1)
    <3>1. Closed(octets, p, d) =
            IF d = 0 THEN p
            ELSE IF p \notin 1 .. Len(octets) - 1 THEN 0
            ELSE IF IsEndOfContents(octets, p) THEN Closed(octets, p + 2, d - 1)
            ELSE IF IsIndefinite(octets, p) THEN Closed(octets, p + 2, d + 1)
            ELSE Closed(octets, BodyEnd(octets, p), d)
      BY <2>1, ClosedUnfolds
    <3> QED BY <2>1, <3>1
  <2>6. Skips(octets, p, p + Len(v))
    <3> SUFFICES ASSUME NEW d \in Nat \ {0}
                 PROVE  Closed(octets, p, d) = Closed(octets, p + Len(v), d)
      BY DEF Skips
    <3>1. d + 1 \in Nat \ {0} /\ (d + 1) - 1 = d  OBVIOUS
    <3>2. Closed(octets, e, d + 1) = Closed(octets, e + 2, d)  BY <2>4, <3>1
    <3> QED BY <2>2, <2>3, <2>5, <3>1, <3>2
  <2>7. After(octets, p) = p + Len(v)
    <3>1. After(octets, p) = Closed(octets, p + 2, 1)  BY <2>1 DEF After
    <3>2. Closed(octets, e, 1) = Closed(octets, e + 2, 0)
      <4>1. 1 \in Nat \ {0} /\ 1 - 1 = 0  OBVIOUS
      <4> QED BY <2>4, <4>1
    <3>3. Closed(octets, e + 2, 0) = e + 2
      <4>1. e + 2 \in Nat /\ 0 \in Nat  OBVIOUS
      <4> QED BY <2>1, <4>1, ClosedUnfolds
    <3>4. 1 \in Nat \ {0}  OBVIOUS
    <3> QED BY <2>2, <2>3, <3>1, <3>2, <3>3, <3>4
  <2> QED BY <2>6, <2>7
<1>5. Len(v) >= 2  BY <1>3
<1> QED BY <1>1, <1>3, <1>4, <1>5 DEF IsValue, IsContents

-----------------------------------------------------------------------------
(* Elements of a value *)

\* The body of a definite value.
LEMMA TlvBody ==
  ASSUME NEW octets, NEW p, NEW tag, tag # 0, NEW body, IsSeq(body),
         Lies(octets, p, Tlv(tag, body))
  PROVE  /\ Lies(octets, Inside(octets, p), body) /\ Body(octets, p, tag) = body
         /\ ~ IsIndefinite(octets, p)
<1>1. /\ octets[p] = Octet(tag) /\ octets[p + 1] # Octet(128)
      /\ p \in 1 .. Len(octets) - 1
      /\ Len(Tlv(tag, body)) \in Nat /\ Len(Tlv(tag, body)) >= 2
      /\ BodyEnd(octets, p) = p + Len(Tlv(tag, body))
      /\ BodyFrom(octets, p) + Len(body) = p + Len(Tlv(tag, body))
      /\ Lies(octets, BodyFrom(octets, p), body)
  BY TlvRead
<1>2. ~ IsIndefinite(octets, p)
  <2>1. Octet(\h80) = Octet(128)  OBVIOUS
  <2> QED BY <1>1, <2>1, Zenon DEF IsIndefinite
<1>3. Inside(octets, p) = BodyFrom(octets, p) /\ After(octets, p) = BodyEnd(octets, p)
  BY <1>1, <1>2, Zenon DEF Inside, After
<1>4. PICK q \in Nat, n \in Nat : q = BodyFrom(octets, p) /\ n = Len(body)
  <2>1. BodyFrom(octets, p) \in Nat /\ Len(body) \in Nat  BY <1>1, SeqLength DEF Lies
  <2> QED BY <2>1
<1>5. BodyEnd(octets, p) = q + n  BY <1>1, <1>4
<1>6. SubSeq(octets, q, q + n - 1) = body
  BY <1>1, <1>4, LiesSub
<1>7. BodyEnd(octets, p) # 0  BY <1>1
<1>8. Body(octets, p, tag) = SubSeq(octets, q, BodyEnd(octets, p) - 1)
  BY <1>1, <1>2, <1>3, <1>4, <1>7 DEF Body
<1> QED BY <1>1, <1>2, <1>3, <1>5, <1>6, <1>8

\* The elements of an indefinite value.
LEMMA IndefiniteBody ==
  ASSUME NEW octets, NEW p, NEW tag \in Constructed, NEW elements, NEW s, IsContents(s),
         FlattenSeq(elements) = s, Lies(octets, p, Indefinite(tag, elements))
  PROVE  Lies(octets, Inside(octets, p), s) /\ Body(octets, p, tag) = s
<1>1. IsSeq(s)  BY DEF IsContents
<1>2. /\ IsSeq(octets) /\ p \in Nat /\ p \in 1 .. Len(octets) - 1 /\ Len(s) \in Nat
      /\ IsIndefinite(octets, p) /\ octets[p] = Octet(tag)
      /\ Lies(octets, p + 2, s)
  BY <1>1, IndefiniteLies, Zenon
<1>3. Inside(octets, p) = p + 2  BY <1>2, Zenon DEF Inside
<1>4. After(octets, p) = p + Len(Indefinite(tag, elements))
  BY IndefiniteIsValue, Zenon DEF IsValue
<1>5. Len(Indefinite(tag, elements)) = Len(s) + 4  BY <1>1, IndefiniteParts
<1>6. PICK n \in Nat : n = Len(s)  BY <1>2
<1>7. After(octets, p) # 0 /\ After(octets, p) - 3 = (p + 2) + n - 1
  BY <1>2, <1>4, <1>5, <1>6
<1>8. SubSeq(octets, p + 2, (p + 2) + n - 1) = s
  BY <1>2, <1>6, LiesSub
<1>9. Body(octets, p, tag) = SubSeq(octets, p + 2, After(octets, p) - 3)
  BY <1>2, <1>3, <1>7 DEF Body
<1> QED BY <1>2, <1>3, <1>7, <1>8, <1>9

\* Each element begins where the one before it ends.
LEMMA WithinStep ==
  ASSUME NEW octets, NEW p
  PROVE  /\ Within(octets, p, 1) = Inside(octets, p)
         /\ \A n \in 1 .. 4 : Within(octets, p, n + 1) = After(octets, Within(octets, p, n))
<1>1. PICK a, b, c, d, e : /\ a = Inside(octets, p) /\ b = After(octets, a)
                           /\ c = After(octets, b) /\ d = After(octets, c)
                           /\ e = After(octets, d)
  OBVIOUS
<1> DEFINE fives == [k \in 1 .. 5 |-> IF k = 1 THEN a ELSE IF k = 2 THEN b
                                       ELSE IF k = 3 THEN c ELSE IF k = 4 THEN d ELSE e]
<1>2. ASSUME NEW n \in 1 .. 5
      PROVE  Within(octets, p, n) = fives[n]
  <2> DEFINE Solves(f) == f = [k \in 1 .. n |-> IF k = 1 THEN Inside(octets, p)
                                                ELSE After(octets, f[k - 1])]
             f == CHOOSE g : Solves(g)
             h == [k \in 1 .. n |-> fives[k]]
  <2>1. Within(octets, p, n) = f[n]  BY Zenon DEF Within
  <2>2. fives[1] = a /\ fives[2] = b /\ fives[3] = c /\ fives[4] = d /\ fives[5] = e
    OBVIOUS
  <2> HIDE DEF fives
  <2>3. \A k \in 2 .. 5 : fives[k] = After(octets, fives[k - 1])
    <3> SUFFICES ASSUME NEW k \in 2 .. 5  PROVE fives[k] = After(octets, fives[k - 1])
      OBVIOUS
    <3>1. CASE k = 2
      <4>1. k - 1 = 1  BY <3>1
      <4> QED BY <1>1, <2>2, <3>1, <4>1, Zenon
    <3>2. CASE k = 3
      <4>1. k - 1 = 2  BY <3>2
      <4> QED BY <1>1, <2>2, <3>2, <4>1, Zenon
    <3>3. CASE k = 4
      <4>1. k - 1 = 3  BY <3>3
      <4> QED BY <1>1, <2>2, <3>3, <4>1, Zenon
    <3>4. CASE k = 5
      <4>1. k - 1 = 4  BY <3>4
      <4> QED BY <1>1, <2>2, <3>4, <4>1, Zenon
    <3>5. k = 2 \/ k = 3 \/ k = 4 \/ k = 5  OBVIOUS
    <3> QED BY <3>1, <3>2, <3>3, <3>4, <3>5
  <2>4. Solves(h)
    <3>1. ASSUME NEW k \in 1 .. n
          PROVE  h[k] = IF k = 1 THEN Inside(octets, p) ELSE After(octets, h[k - 1])
      <4>1. CASE k = 1  BY <1>1, <2>2, <4>1
      <4>2. CASE k # 1
        <5>1. k \in 2 .. 5 /\ k - 1 \in 1 .. n  BY <4>2
        <5>2. fives[k] = After(octets, fives[k - 1])  BY <2>3, <5>1
        <5> QED BY <4>2, <5>1, <5>2
      <4> QED BY <4>1, <4>2
    <3>2. h = [k \in 1 .. n |-> h[k]]  OBVIOUS
    <3> HIDE DEF h
    <3> QED BY <3>1, <3>2
  <2>5. Solves(f)
    <3> HIDE DEF Solves, h
    <3> QED BY <2>4
  <2>6. ASSUME NEW k \in 1 .. n
        PROVE  f[k] = IF k = 1 THEN a ELSE After(octets, f[k - 1])
    <3> HIDE DEF f
    <3> QED BY <1>1, <2>5
  <2> HIDE DEF f, h, Solves
  <2>7. f[1] = a  BY <2>6
  <2>8. n >= 2 => f[2] = b  BY <1>1, <2>6, <2>7
  <2>9. n >= 3 => f[3] = c  BY <1>1, <2>6, <2>8
  <2>10. n >= 4 => f[4] = d  BY <1>1, <2>6, <2>9
  <2>11. n >= 5 => f[5] = e  BY <1>1, <2>6, <2>10
  <2>12. n = 1 \/ n = 2 \/ n = 3 \/ n = 4 \/ n = 5  OBVIOUS
  <2>13. f[n] = fives[n]
    BY <2>2, <2>7, <2>8, <2>9, <2>10, <2>11, <2>12
  <2> QED BY <2>1, <2>13
<1>3. fives[1] = a /\ fives[2] = b /\ fives[3] = c /\ fives[4] = d /\ fives[5] = e
  OBVIOUS
<1> HIDE DEF fives
<1>4. /\ Within(octets, p, 1) = a /\ Within(octets, p, 2) = b /\ Within(octets, p, 3) = c
      /\ Within(octets, p, 4) = d /\ Within(octets, p, 5) = e
  BY <1>2, <1>3
<1>5. ASSUME NEW n \in 1 .. 4
      PROVE  Within(octets, p, n + 1) = After(octets, Within(octets, p, n))
  <2>1. n = 1 \/ n = 2 \/ n = 3 \/ n = 4  OBVIOUS
  <2>2. 1 + 1 = 2 /\ 2 + 1 = 3 /\ 3 + 1 = 4 /\ 4 + 1 = 5  OBVIOUS
  <2>3. CASE n = 1  BY <1>1, <1>4, <2>2, <2>3
  <2>4. CASE n = 2  BY <1>1, <1>4, <2>2, <2>4
  <2>5. CASE n = 3  BY <1>1, <1>4, <2>2, <2>5
  <2>6. CASE n = 4  BY <1>1, <1>4, <2>2, <2>6
  <2> QED BY <2>1, <2>3, <2>4, <2>5, <2>6
<1> QED BY <1>1, <1>4, <1>5

\* One element, and the next one.
LEMMA Stepped ==
  ASSUME NEW octets, NEW p, NEW n \in 1 .. 4, NEW v, IsValue(v), NEW rest, IsSeq(rest),
         Lies(octets, Within(octets, p, n), Cat(v, rest))
  PROVE  /\ Lies(octets, Within(octets, p, n), v)
         /\ Lies(octets, Within(octets, p, n + 1), rest)
<1>1. IsSeq(v)  BY DEF IsValue, IsContents
<1>2. PICK q : q = Within(octets, p, n)  OBVIOUS
<1>3. Lies(octets, q, v) /\ Lies(octets, q + Len(v), rest)
  BY <1>1, <1>2, LiesCat, Zenon
<1>4. After(octets, q) = q + Len(v)  BY <1>3, Zenon DEF IsValue
<1>5. Within(octets, p, n + 1) = After(octets, q)  BY <1>2, WithinStep
<1> QED BY <1>2, <1>3, <1>4, <1>5

-----------------------------------------------------------------------------
(* Lists of a few values *)

AreLists(seqs) == \E T : seqs \in Seq(Seq(T))

\* A list more.
LEMMA ListMore ==
  ASSUME NEW seqs, AreLists(seqs), NEW last, IsSeq(last)
  PROVE  /\ AreLists(Add(seqs, last)) /\ IsSeq(FlattenSeq(seqs))
         /\ FlattenSeq(Add(seqs, last)) = Cat(FlattenSeq(seqs), last)
<1>1. PICK T, L : seqs \in Seq(Seq(T)) /\ last \in Seq(L)  BY DEF AreLists, IsSeq
<1>2. PICK U : U = T \cup L  OBVIOUS
<1>3. ASSUME NEW s \in Seq(T)  PROVE s \in Seq(U)
  <2>1. \A i \in 1 .. Len(s) : s[i] \in U  BY <1>2
  <2> QED BY <2>1
<1>4. last \in Seq(U)
  <2>1. \A i \in 1 .. Len(last) : last[i] \in U  BY <1>1, <1>2
  <2> QED BY <1>1, <2>1
<1>5. PICK V : V = Seq(U)  OBVIOUS
<1>6. seqs \in Seq(V)
  <2>1. PICK S : S = Seq(T)  OBVIOUS
  <2>2. seqs \in Seq(S) /\ \A s \in S : s \in V  BY <1>1, <1>3, <1>5, <2>1
  <2>3. \A i \in 1 .. Len(seqs) : seqs[i] \in V  BY <2>2
  <2> QED BY <2>2, <2>3
<1>7. Add(seqs, last) \in Seq(V)  BY <1>4, <1>5, <1>6 DEF Add
<1>8. AreLists(Add(seqs, last))  BY <1>5, <1>7, Zenon DEF AreLists
<1>9. seqs \in Seq(Seq(U))  BY <1>5, <1>6, Zenon
<1> QED BY <1>4, <1>8, <1>9, FlattenAdd, Zenon

\* No list.
LEMMA NoLists == AreLists(<<>>) /\ FlattenSeq(<<>>) = <<>>
<1>1. <<>> \in Seq(Seq({}))  OBVIOUS
<1>2. FlattenSeq(<<>>) = <<>>  BY <1>1, FlattenAdd, EmptyIsSeq DEF FlattenSeq
<1> QED BY <1>1, <1>2 DEF AreLists

\* Sequences with the same elements are the same.
LEMMA SameSeq ==
  ASSUME NEW T, NEW s \in Seq(T), NEW t \in Seq(T), Len(s) = Len(t),
         \A i \in 1 .. Len(s) : s[i] = t[i]
  PROVE  s = t
<1>1. s = [i \in 1 .. Len(s) |-> s[i]] /\ t = [i \in 1 .. Len(t) |-> t[i]]  OBVIOUS
<1> QED BY <1>1

\* Concatenation nests to the right.
LEMMA CatNests ==
  ASSUME NEW x, NEW y, NEW z, IsSeq(x), IsSeq(y), IsSeq(z)
  PROVE  Cat(Cat(x, y), z) = Cat(x, Cat(y, z))
BY CatFacts

\* A sequence with one element more.
LEMMA AppendType ==
  ASSUME NEW T, NEW s \in Seq(T), NEW z \in T
  PROVE  Append(s, z) \in Seq(T) /\ Len(Append(s, z)) = Len(s) + 1
OBVIOUS

\* Five of them.
LEMMA FlattenFive ==
  ASSUME NEW a, NEW b, NEW c, NEW d, NEW e,
         IsSeq(a), IsSeq(b), IsSeq(c), IsSeq(d), IsSeq(e),
         NEW five, five = <<a, b, c, d, e>>
  PROVE  FlattenSeq(five) = Cat(a, Cat(b, Cat(c, Cat(d, e))))
<1>1. PICK l0, l1, l2, l3, l4, l5 :
        /\ l0 = <<>> /\ l1 = Add(l0, a) /\ l2 = Add(l1, b) /\ l3 = Add(l2, c)
        /\ l4 = Add(l3, d) /\ l5 = Add(l4, e)
  OBVIOUS
<1>2. l1 = <<a>> /\ l2 = <<a, b>> /\ l5 = <<a, b, c, d, e>>
  <2>1. l1 = <<a>>  BY <1>1 DEF Add
  <2>2. l2 = <<a, b>>
    <3>1. PICK T : T = {a, b}  OBVIOUS
    <3>2. PICK t : t = <<a, b>>  OBVIOUS
    <3>3. PICK s : s = <<a>>  OBVIOUS
    <3>4. s \in Seq(T) /\ t \in Seq(T) /\ b \in T  BY <3>1, <3>2, <3>3
    <3>5. Len(s) = 1 /\ Len(t) = 2  BY <3>2, <3>3
    <3>6. Append(s, b) \in Seq(T) /\ Len(Append(s, b)) = 2
      <4>1. PICK m \in Nat : m = Len(s) /\ m + 1 = 2  BY <3>5
      <4>2. Append(s, b) \in Seq(T) /\ Len(Append(s, b)) = Len(s) + 1
        BY <3>4, AppendType, Zenon
      <4> QED BY <4>1, <4>2
    <3>7. \A i \in 1 .. 2 : Append(s, b)[i] = t[i]
      BY <3>2, <3>3, <3>4, <3>5
    <3>8. Append(s, b) = t  BY <3>4, <3>5, <3>6, <3>7, SameSeq
    <3> QED BY <1>1, <2>1, <3>2, <3>3, <3>8, Zenon DEF Add
  <2>3. l3 = <<a, b, c>>
    <3>1. PICK T : T = {a, b, c}  OBVIOUS
    <3>2. PICK t : t = <<a, b, c>>  OBVIOUS
    <3>3. PICK s : s = <<a, b>>  OBVIOUS
    <3>4. s \in Seq(T) /\ t \in Seq(T) /\ c \in T  BY <3>1, <3>2, <3>3
    <3>5. Len(s) = 2 /\ Len(t) = 3  BY <3>2, <3>3
    <3>6. Append(s, c) \in Seq(T) /\ Len(Append(s, c)) = 3
      <4>1. PICK m \in Nat : m = Len(s) /\ m + 1 = 3  BY <3>5
      <4>2. Append(s, c) \in Seq(T) /\ Len(Append(s, c)) = Len(s) + 1
        BY <3>4, AppendType, Zenon
      <4> QED BY <4>1, <4>2
    <3>7. \A i \in 1 .. 3 : Append(s, c)[i] = t[i]
      BY <3>2, <3>3, <3>4, <3>5
    <3>8. Append(s, c) = t  BY <3>4, <3>5, <3>6, <3>7, SameSeq
    <3> QED BY <1>1, <2>2, <3>2, <3>3, <3>8, Zenon DEF Add
  <2>4. l4 = <<a, b, c, d>>
    <3>1. PICK T : T = {a, b, c, d}  OBVIOUS
    <3>2. PICK t : t = <<a, b, c, d>>  OBVIOUS
    <3>3. PICK s : s = <<a, b, c>>  OBVIOUS
    <3>4. s \in Seq(T) /\ t \in Seq(T) /\ d \in T  BY <3>1, <3>2, <3>3
    <3>5. Len(s) = 3 /\ Len(t) = 4  BY <3>2, <3>3
    <3>6. Append(s, d) \in Seq(T) /\ Len(Append(s, d)) = 4
      <4>1. PICK m \in Nat : m = Len(s) /\ m + 1 = 4  BY <3>5
      <4>2. Append(s, d) \in Seq(T) /\ Len(Append(s, d)) = Len(s) + 1
        BY <3>4, AppendType, Zenon
      <4> QED BY <4>1, <4>2
    <3>7. \A i \in 1 .. 4 : Append(s, d)[i] = t[i]
      BY <3>2, <3>3, <3>4, <3>5
    <3>8. Append(s, d) = t  BY <3>4, <3>5, <3>6, <3>7, SameSeq
    <3> QED BY <1>1, <2>3, <3>2, <3>3, <3>8, Zenon DEF Add
  <2>5. l5 = <<a, b, c, d, e>>
    <3>1. PICK T : T = {a, b, c, d, e}  OBVIOUS
    <3>2. PICK t : t = <<a, b, c, d, e>>  OBVIOUS
    <3>3. PICK s : s = <<a, b, c, d>>  OBVIOUS
    <3>4. s \in Seq(T) /\ t \in Seq(T) /\ e \in T  BY <3>1, <3>2, <3>3
    <3>5. Len(s) = 4 /\ Len(t) = 5  BY <3>2, <3>3
    <3>6. Append(s, e) \in Seq(T) /\ Len(Append(s, e)) = 5
      <4>1. PICK m \in Nat : m = Len(s) /\ m + 1 = 5  BY <3>5
      <4>2. Append(s, e) \in Seq(T) /\ Len(Append(s, e)) = Len(s) + 1
        BY <3>4, AppendType, Zenon
      <4> QED BY <4>1, <4>2
    <3>7. \A i \in 1 .. 5 : Append(s, e)[i] = t[i]
      BY <3>2, <3>3, <3>4, <3>5
    <3>8. Append(s, e) = t  BY <3>4, <3>5, <3>6, <3>7, SameSeq
    <3> QED BY <1>1, <2>4, <3>2, <3>3, <3>8, Zenon DEF Add
  <2> QED BY <2>1, <2>2, <2>5
<1>3. AreLists(l0) /\ FlattenSeq(l0) = <<>>  BY <1>1, NoLists, Zenon
<1>4. AreLists(l1) /\ FlattenSeq(l1) = a
  <2>1. AreLists(l1) /\ FlattenSeq(l1) = Cat(FlattenSeq(l0), a)
    BY <1>1, <1>3, ListMore, Zenon
  <2>2. FlattenSeq(l1) = Cat(<<>>, a)  BY <1>3, <2>1, Zenon
  <2>3. Cat(<<>>, a) = a  BY CatFacts, Zenon
  <2> QED BY <2>1, <2>2, <2>3
<1>5. AreLists(l2) /\ FlattenSeq(l2) = Cat(a, b)
  BY <1>1, <1>4, ListMore, Zenon
<1>6. AreLists(l3) /\ FlattenSeq(l3) = Cat(Cat(a, b), c)
  BY <1>1, <1>5, ListMore, Zenon
<1>7. AreLists(l4) /\ FlattenSeq(l4) = Cat(Cat(Cat(a, b), c), d)
  BY <1>1, <1>6, ListMore, Zenon
<1>8. FlattenSeq(l5) = Cat(Cat(Cat(Cat(a, b), c), d), e)
  BY <1>1, <1>7, ListMore, Zenon
<1>9. IsSeq(Cat(a, b)) /\ IsSeq(Cat(Cat(a, b), c)) /\ IsSeq(Cat(d, e)) /\ IsSeq(Cat(c, Cat(d, e)))
  BY CatFacts, Zenon
<1>13. PICK ab, abc, de, cde : /\ ab = Cat(a, b) /\ abc = Cat(ab, c)
                               /\ de = Cat(d, e) /\ cde = Cat(c, de)
  OBVIOUS
<1>14. IsSeq(ab) /\ IsSeq(abc) /\ IsSeq(de) /\ IsSeq(cde)  BY <1>9, <1>13
<1>10. Cat(Cat(abc, d), e) = Cat(abc, de)
  BY <1>13, <1>14, CatNests
<1>11. Cat(abc, de) = Cat(ab, cde)
  BY <1>13, <1>14, CatNests
<1>12. Cat(ab, cde) = Cat(a, Cat(b, cde))
  BY <1>13, <1>14, CatNests
<1> QED BY <1>2, <1>4, <1>5, <1>8, <1>10, <1>11, <1>12, <1>13

\* One of them, or two.
LEMMA FlattenFew ==
  ASSUME NEW a, NEW b, IsSeq(a), IsSeq(b)
  PROVE  FlattenSeq(<<a>>) = a /\ FlattenSeq(<<a, b>>) = Cat(a, b)
<1>1. PICK l0, l1, l2 : l0 = <<>> /\ l1 = Add(l0, a) /\ l2 = Add(l1, b)
  OBVIOUS
<1>2. l1 = <<a>> /\ l2 = <<a, b>>
  <2>1. l1 = <<a>>  BY <1>1 DEF Add
  <2>2. l2 = <<a, b>>
    <3>1. PICK T : T = {a, b}  OBVIOUS
    <3>2. PICK t : t = <<a, b>>  OBVIOUS
    <3>3. PICK s : s = <<a>>  OBVIOUS
    <3>4. s \in Seq(T) /\ t \in Seq(T) /\ b \in T  BY <3>1, <3>2, <3>3
    <3>5. Len(s) = 1 /\ Len(t) = 2  BY <3>2, <3>3
    <3>6. Append(s, b) \in Seq(T) /\ Len(Append(s, b)) = 2
      <4>1. PICK m \in Nat : m = Len(s) /\ m + 1 = 2  BY <3>5
      <4>2. Append(s, b) \in Seq(T) /\ Len(Append(s, b)) = Len(s) + 1
        BY <3>4, AppendType, Zenon
      <4> QED BY <4>1, <4>2
    <3>7. \A i \in 1 .. 2 : Append(s, b)[i] = t[i]
      BY <3>2, <3>3, <3>4, <3>5
    <3>8. Append(s, b) = t  BY <3>4, <3>5, <3>6, <3>7, SameSeq
    <3> QED BY <1>1, <2>1, <3>2, <3>3, <3>8, Zenon DEF Add
  <2> QED BY <2>1, <2>2
<1>3. AreLists(l0) /\ FlattenSeq(l0) = <<>>  BY <1>1, NoLists, Zenon
<1>4. AreLists(l1) /\ FlattenSeq(l1) = a
  <2>1. AreLists(l1) /\ FlattenSeq(l1) = Cat(FlattenSeq(l0), a)
    BY <1>1, <1>3, ListMore, Zenon
  <2>2. FlattenSeq(l1) = Cat(<<>>, a)  BY <1>3, <2>1, Zenon
  <2>3. Cat(<<>>, a) = a  BY CatFacts, Zenon
  <2> QED BY <2>1, <2>2, <2>3
<1>5. AreLists(l2) /\ FlattenSeq(l2) = Cat(a, b)
  BY <1>1, <1>4, ListMore, Zenon
<1> QED BY <1>2, <1>4, <1>5

\* Values one after the other.
LEMMA ValuesAreContents ==
  ASSUME NEW a, NEW b, IsValue(a), IsContents(b)
  PROVE  IsSeq(a) /\ IsSeq(b) /\ IsContents(a) /\ IsContents(Cat(a, b)) /\ IsSeq(Cat(a, b))
<1>1. IsContents(a)  BY DEF IsValue
<1>2. IsContents(Cat(a, b))  BY <1>1, ContentsCat
<1> QED BY <1>1, <1>2 DEF IsContents

-----------------------------------------------------------------------------
(* The values of the encoder *)

\* Values that are written out.
LEMMA SmallValues ==
  /\ IntegerOne = Tlv(2, <<Octet(1)>>)
  /\ \A name : ObjectIdentifier(name) = Tlv(6, <<<<"oid", name>>>>)
  /\ <<Octet(\h05), Octet(0)>> = Tlv(5, <<>>)
<1>1. 1 \in Nat /\ 0 \in Nat /\ 1 < 128 /\ 0 < 128  OBVIOUS
<1>2. WriteLength(1) = <<Octet(1)>> /\ WriteLength(0) = <<Octet(0)>>
  BY <1>1, Zenon DEF WriteLength
<1>3. ASSUME NEW d, NEW e, NEW f  PROVE (<<d>> \o <<e>>) \o <<f>> = <<d, e, f>>
  <2>1. PICK T : T = {d, e, f}  OBVIOUS
  <2>2. PICK r, s, t, u : r = <<d>> /\ s = <<e>> /\ t = <<f>> /\ u = <<d, e, f>>  OBVIOUS
  <2>3. r \in Seq(T) /\ s \in Seq(T) /\ t \in Seq(T) /\ u \in Seq(T)  BY <2>1, <2>2
  <2>4. Len(r) = 1 /\ Len(s) = 1 /\ Len(t) = 1 /\ Len(u) = 3  BY <2>2
  <2>5. (r \o s) \in Seq(T) /\ Len(r \o s) = 2 /\ (r \o s)[1] = d /\ (r \o s)[2] = e
    BY <2>2, <2>3, <2>4
  <2>6. PICK v : v = r \o s  OBVIOUS
  <2>7. (v \o t) \in Seq(T) /\ Len(v \o t) = 3
    BY <2>3, <2>4, <2>5, <2>6
  <2>8. (v \o t)[1] = d /\ (v \o t)[2] = e /\ (v \o t)[3] = f
    BY <2>2, <2>3, <2>4, <2>5, <2>6
  <2>9. u[1] = d /\ u[2] = e /\ u[3] = f  BY <2>2
  <2>10. \A i \in 1 .. 3 : i = 1 \/ i = 2 \/ i = 3  OBVIOUS
  <2>11. v \o t = u  BY <2>3, <2>4, <2>7, <2>8, <2>9, <2>10, SameSeq
  <2> QED BY <2>2, <2>6, <2>11, Zenon
<1>4. ASSUME NEW d, NEW e  PROVE (<<d>> \o <<e>>) \o <<>> = <<d, e>>
  <2>1. PICK T : T = {d, e}  OBVIOUS
  <2>2. PICK r, s, u : r = <<d>> /\ s = <<e>> /\ u = <<d, e>>  OBVIOUS
  <2>3. r \in Seq(T) /\ s \in Seq(T) /\ u \in Seq(T)  BY <2>1, <2>2
  <2>4. Len(r) = 1 /\ Len(s) = 1 /\ Len(u) = 2  BY <2>2
  <2>5. (r \o s) \in Seq(T) /\ Len(r \o s) = 2 /\ (r \o s)[1] = d /\ (r \o s)[2] = e
    BY <2>2, <2>3, <2>4
  <2>9. u[1] = d /\ u[2] = e  BY <2>2
  <2>10. \A i \in 1 .. 2 : i = 1 \/ i = 2  OBVIOUS
  <2>11. r \o s = u  BY <2>3, <2>4, <2>5, <2>9, <2>10, SameSeq
  <2>12. Cat(r \o s, <<>>) = r \o s
    <3>1. IsSeq(r \o s)  BY <2>5 DEF IsSeq
    <3> QED BY <3>1, CatFacts, Zenon
  <2> QED BY <2>2, <2>11, <2>12, Zenon DEF Cat
<1>5. \A d : Len(<<d>>) = 1 OBVIOUS
<1>6. Len(<<>>) = 0  OBVIOUS
<1>7. ASSUME NEW tag, NEW d  PROVE Tlv(tag, <<d>>) = <<Octet(tag), Octet(1), d>>
  <2>1. Tlv(tag, <<d>>) = (<<Octet(tag)>> \o WriteLength(Len(<<d>>))) \o <<d>>  BY Zenon DEF Tlv
  <2>2. Tlv(tag, <<d>>) = (<<Octet(tag)>> \o <<Octet(1)>>) \o <<d>>
    BY <1>2, <1>5, <2>1, Zenon
  <2> QED BY <1>3, <2>2, Zenon
<1>8. IntegerOne = Tlv(2, <<Octet(1)>>)
  <2>1. \h02 = 2  OBVIOUS
  <2> QED BY <1>7, <2>1, Zenon DEF IntegerOne
<1>9. \A name : ObjectIdentifier(name) = Tlv(6, <<<<"oid", name>>>>)
  <2>1. \h06 = 6  OBVIOUS
  <2> QED BY <1>7, <2>1, Zenon DEF ObjectIdentifier
<1>10. <<Octet(\h05), Octet(0)>> = Tlv(5, <<>>)
  <2>1. \h05 = 5  OBVIOUS
  <2>2. Tlv(5, <<>>) = (<<Octet(5)>> \o <<Octet(0)>>) \o <<>>  BY <1>2, <1>6, Zenon DEF Tlv
  <2> QED BY <1>4, <2>1, <2>2, Zenon
<1> QED BY <1>8, <1>9, <1>10

\* They are values.
LEMMA SmallAreValues ==
  /\ IsValue(IntegerOne) /\ \A name : IsValue(ObjectIdentifier(name))
  /\ IsValue(<<Octet(\h05), Octet(0)>>)
<1>1. \A tag, body : tag # 0 /\ IsSeq(body) => IsValue(Tlv(tag, body))  BY TlvIsValue
<1>2. 2 # 0 /\ 6 # 0 /\ 5 # 0  OBVIOUS
<1>3. IsSeq(<<>>) /\ \A d : IsSeq(<<d>>)  BY EmptyIsSeq, OneIsSeq
<1>4. IsValue(Tlv(2, <<Octet(1)>>))  BY <1>1, <1>2, <1>3, Zenon
<1>5. \A name : IsValue(Tlv(6, <<<<"oid", name>>>>))  BY <1>1, <1>2, <1>3, Zenon
<1>6. IsValue(Tlv(5, <<>>))  BY <1>1, <1>2, <1>3, Zenon
<1> QED BY <1>4, <1>5, <1>6, SmallValues, Zenon

-----------------------------------------------------------------------------
(* Values in DER *)

\* Where the parts of a definite value in DER are.
LEMMA DerFacts ==
  ASSUME NEW der, IsDerSequence(der)
  PROVE  /\ IsSeq(der) /\ Len(der) \in Nat /\ Len(der) > 1
         /\ der[1] = Octet(\h30) /\ der[2] # Octet(\h80)
         /\ \A i \in 1 .. Len(der) : ValueOf(der, i) \in Nat
         /\ MoreOctets(der, 1) \in Nat /\ BodyLength(der, 1) \in Nat
         /\ MoreOctets(der, 1) + 2 <= Len(der)
         /\ BodyFrom(der, 1) = 3 + MoreOctets(der, 1)
         /\ BodyFrom(der, 1) + BodyLength(der, 1) = Len(der) + 1
<1>1. /\ IsSeq(der) /\ Len(der) \in Nat /\ Len(der) > 1 /\ DOMAIN der = 1 .. Len(der)
  <2>1. der \in Seq(ToSet(der)) /\ Len(der) > 1  BY DEF IsDerSequence
  <2> QED BY <2>1 DEF IsSeq
<1>2. /\ der[1] = Octet(\h30) /\ ~ IsIndefinite(der, 1)
      /\ BodyEnd(der, 1) = Len(der) + 1
      /\ \A i \in DOMAIN der : ValueOf(der, i) \in 0 .. 255
  BY DEF IsDerSequence
<1>3. \A i \in 1 .. Len(der) : ValueOf(der, i) \in Nat
  <2> TAKE i \in 1 .. Len(der)
  <2>1. PICK v : v = ValueOf(der, i)  OBVIOUS
  <2>2. v \in 0 .. 255  BY <1>1, <1>2, <2>1
  <2>3. v \in Nat  BY <2>2
  <2> QED BY <2>1, <2>3, Zenon
<1>4. der[2] # Octet(\h80)
  <2>1. 1 + 1 = 2  OBVIOUS
  <2> QED BY <1>2, <2>1, Zenon DEF IsIndefinite
<1>5. PICK l \in Nat : l = Len(der) /\ l > 1  BY <1>1
<1>6. PICK v \in Nat : v = ValueOf(der, 2)
  <2>1. 2 \in 1 .. Len(der)  BY <1>5
  <2> QED BY <1>3, <2>1
<1>7. PICK m : m = MoreOctets(der, 1)  OBVIOUS
<1>8. m \in Nat /\ m = IF v < 128 THEN 0 ELSE v - 128
  <2>1. 1 + 1 = 2  OBVIOUS
  <2> QED BY <1>6, <1>7, <2>1 DEF MoreOctets
<1>9. PICK n : n = BodyLength(der, 1)  OBVIOUS
<1>10. BodyFrom(der, 1) = 3 + m  BY <1>7, <1>8 DEF BodyFrom
<1>11. 3 + m <= l + 1 /\ (3 + m) + n = l + 1
  <2>1. BodyEnd(der, 1) # 0 /\ BodyEnd(der, 1) = l + 1  BY <1>2, <1>5
  <2> QED BY <1>5, <1>9, <1>10, <2>1 DEF BodyEnd
<1>12. n \in Nat
  <2>1. CASE v < 128
    <3>1. BodyLength(der, 1) = v
      <4>1. 1 + 1 = 2  OBVIOUS
      <4> QED BY <1>6, <2>1, <4>1 DEF BodyLength
    <3> QED BY <1>9, <3>1
  <2>2. CASE ~ (v < 128)
    <3> DEFINE digits == [k \in 1 .. m |-> ValueOf(der, 1 + 1 + k)]
    <3>1. n = FromBigEndian(digits, l)
      <4>1. 1 + 1 = 2  OBVIOUS
      <4> QED BY <1>5, <1>6, <1>7, <1>9, <2>2, <4>1 DEF BodyLength
    <3>2. digits \in Seq(Nat)
      <4>1. \A k \in 1 .. m : ValueOf(der, 1 + 1 + k) \in Nat
        <5>1. \A k \in 1 .. m : 1 + 1 + k \in 1 .. Len(der)  BY <1>5, <1>8, <1>11
        <5> QED BY <1>3, <5>1
      <4> QED BY <1>8, <4>1
    <3> HIDE DEF digits
    <3> QED BY <3>1, <3>2, LengthAppend
  <2> QED BY <2>1, <2>2
<1>13. m + 2 <= Len(der)  BY <1>5, <1>8, <1>11
<1> QED BY <1>1, <1>2, <1>3, <1>4, <1>5, <1>7, <1>8, <1>9, <1>10, <1>11, <1>12, <1>13

\* A value in DER is found where it lies.
LEMMA DerRead ==
  ASSUME NEW der, IsDerSequence(der), NEW octets, NEW p, Lies(octets, p, der)
  PROVE  /\ octets[p] = Octet(\h30) /\ octets[p + 1] # Octet(\h80)
         /\ p \in 1 .. Len(octets) - 1 /\ p \in Nat
         /\ BodyFrom(octets, p) = (p + 2) + MoreOctets(der, 1)
         /\ BodyEnd(octets, p) = p + Len(der)
<1>1. /\ IsSeq(der) /\ Len(der) \in Nat /\ Len(der) > 1
      /\ der[1] = Octet(\h30) /\ der[2] # Octet(\h80)
      /\ \A i \in 1 .. Len(der) : ValueOf(der, i) \in Nat
      /\ MoreOctets(der, 1) \in Nat /\ BodyLength(der, 1) \in Nat
      /\ MoreOctets(der, 1) + 2 <= Len(der)
      /\ BodyFrom(der, 1) = 3 + MoreOctets(der, 1)
      /\ BodyFrom(der, 1) + BodyLength(der, 1) = Len(der) + 1
  BY DerFacts
<1>2. PICK q \in Nat, l \in Nat, o \in Nat, m \in Nat, n \in Nat :
        /\ q = p /\ q # 0 /\ l = Len(der) /\ o = Len(octets)
        /\ m = MoreOctets(der, 1) /\ n = BodyLength(der, 1)
  <2>1. p \in Nat \ {0} /\ Len(octets) \in Nat  BY SeqLength DEF Lies
  <2> QED BY <1>1, <2>1, SMTT(40)
<1>3. q + l <= o + 1 /\ \A i \in 1 .. l : octets[q + i - 1] = der[i]
  BY <1>2 DEF Lies
<1>4. l > 1 /\ m + 2 <= l /\ (3 + m) + n = l + 1  BY <1>1, <1>2
<1>5. \A i \in 1 .. l : ValueOf(octets, q + i - 1) = ValueOf(der, i)
  BY <1>3 DEF ValueOf
<1>6. octets[q] = der[1] /\ octets[q + 1] = der[2] /\ ValueOf(octets, q + 1) = ValueOf(der, 2)
  <2>1. 1 \in 1 .. l /\ 2 \in 1 .. l /\ q + 1 - 1 = q /\ q + 2 - 1 = q + 1  BY <1>4
  <2> QED BY <1>3, <1>5, <2>1
<1>7. 1 + 1 = 2  OBVIOUS
<1>8. MoreOctets(octets, q) = m  BY <1>2, <1>6, <1>7 DEF MoreOctets
<1>9. BodyLength(octets, q) = n
  <2>1. CASE ValueOf(der, 2) < 128
    BY <1>2, <1>6, <1>7, <2>1 DEF BodyLength
  <2>2. CASE ~ (ValueOf(der, 2) < 128)
    <3> DEFINE digits == [k \in 1 .. m |-> ValueOf(der, 1 + 1 + k)]
               found == [k \in 1 .. m |-> ValueOf(octets, q + 1 + k)]
    <3>1. n = FromBigEndian(digits, l) /\ BodyLength(octets, q) = FromBigEndian(found, o)
      BY <1>2, <1>6, <1>7, <1>8, <2>2 DEF BodyLength
    <3>2. found = digits
      <4>1. \A k \in 1 .. m : ValueOf(octets, q + 1 + k) = ValueOf(der, 1 + 1 + k)
        <5> TAKE k \in 1 .. m
        <5>1. 1 + 1 + k \in 1 .. l /\ q + (1 + 1 + k) - 1 = q + 1 + k  BY <1>4
        <5> QED BY <1>5, <5>1
      <4> QED BY <4>1
    <3>3. digits \in Seq(Nat)
      <4>1. \A k \in 1 .. m : ValueOf(der, 1 + 1 + k) \in Nat
        <5>1. \A k \in 1 .. m : 1 + 1 + k \in 1 .. Len(der)  BY <1>2, <1>4
        <5> QED BY <1>1, <5>1
      <4> QED BY <4>1
    <3> HIDE DEF digits, found
    <3>4. l <= o /\ n <= l  BY <1>2, <1>3, <1>4, SMTT(40)
    <3>5. FromBigEndian(digits, o) = FromBigEndian(digits, l)
      BY <3>1, <3>3, <3>4, LengthUnderHigher
    <3> QED BY <3>1, <3>2, <3>5
  <2> QED BY <2>1, <2>2
<1>10. BodyFrom(octets, q) = (q + 2) + m  BY <1>8 DEF BodyFrom
<1>11. BodyEnd(octets, q) = q + l
  <2>1. ((q + 2) + m) + n = q + l  BY <1>4
  <2>2. (q + 2) + m <= o + 1 /\ q + l \in q + 2 .. o + 1  BY <1>3, <1>4
  <2> QED BY <1>2, <1>9, <1>10, <2>1, <2>2 DEF BodyEnd
<1>12. q \in 1 .. o - 1  BY <1>2, <1>3, <1>4
<1> QED BY <1>1, <1>2, <1>6, <1>10, <1>11, <1>12

\* A value that starts like a definite one and is found to its end.
LEMMA DefiniteIsValue ==
  ASSUME NEW octets, IsSeq(octets), NEW p, p \in Nat, p \in 1 .. Len(octets) - 1,
         NEW e, BodyEnd(octets, p) = e, octets[p] # Octet(0), octets[p + 1] # Octet(\h80)
  PROVE  After(octets, p) = e /\ Inside(octets, p) = BodyFrom(octets, p) /\ Skips(octets, p, e)
<1>1. ~ IsEndOfContents(octets, p) /\ ~ IsIndefinite(octets, p)
  BY Zenon DEF IsEndOfContents, IsIndefinite
<1>2. After(octets, p) = e /\ Inside(octets, p) = BodyFrom(octets, p)
  BY <1>1, Zenon DEF After, Inside
<1>3. ASSUME NEW d \in Nat \ {0}
      PROVE  Closed(octets, p, d) = Closed(octets, e, d)
  <2>1. Closed(octets, p, d) =
          IF d = 0 THEN p
          ELSE IF p \notin 1 .. Len(octets) - 1 THEN 0
          ELSE IF IsEndOfContents(octets, p) THEN Closed(octets, p + 2, d - 1)
          ELSE IF IsIndefinite(octets, p) THEN Closed(octets, p + 2, d + 1)
          ELSE Closed(octets, BodyEnd(octets, p), d)
    BY ClosedUnfolds
  <2> QED BY <1>1, <2>1
<1> QED BY <1>2, <1>3 DEF Skips

\* A part of a sequence.
LEMMA PartOfSeq ==
  ASSUME NEW T, NEW s \in Seq(T), NEW a \in Nat, NEW b \in Nat, NEW c \in Nat,
         1 <= a, b <= Len(s), (b - a) + 1 = c
  PROVE  /\ SubSeq(s, a, b) \in Seq(T) /\ Len(SubSeq(s, a, b)) = c
         /\ \A i \in 1 .. c : SubSeq(s, a, b)[i] = s[a + i - 1]
<1>1. Len(SubSeq(s, a, b)) = c  OBVIOUS
<1>2. SubSeq(s, a, b) \in Seq(T)  OBVIOUS
<1>3. \A i \in 1 .. c : SubSeq(s, a, b)[i] = s[a + i - 1]  BY <1>1
<1> QED BY <1>1, <1>2, <1>3

\* So it is a value, and its body is found.
LEMMA DerIsValue ==
  ASSUME NEW der, IsDerSequence(der)
  PROVE  /\ IsValue(der)
         /\ \A octets, p : Lies(octets, p, der) => Body(octets, p, \h30) = Body(der, 1, \h30)
<1>1. /\ IsSeq(der) /\ Len(der) \in Nat /\ Len(der) > 1
      /\ MoreOctets(der, 1) \in Nat /\ MoreOctets(der, 1) + 2 <= Len(der)
  BY DerFacts
<1>2. Octet(\h30) # Octet(0)
  <2>1. \h30 # 0  OBVIOUS
  <2> QED BY <2>1, OctetFacts
<1>3. ASSUME NEW octets, NEW p, Lies(octets, p, der)
      PROVE  /\ After(octets, p) = p + Len(der) /\ Skips(octets, p, p + Len(der))
             /\ Inside(octets, p) = (p + 2) + MoreOctets(der, 1)
             /\ octets[p] = Octet(\h30) /\ ~ IsIndefinite(octets, p)
             /\ IsSeq(octets) /\ p \in Nat /\ p \in 1 .. Len(octets) - 1
  <2>1. /\ octets[p] = Octet(\h30) /\ octets[p + 1] # Octet(\h80)
        /\ p \in 1 .. Len(octets) - 1 /\ p \in Nat
        /\ BodyFrom(octets, p) = (p + 2) + MoreOctets(der, 1)
        /\ BodyEnd(octets, p) = p + Len(der)
    BY <1>3, DerRead
  <2>2. IsSeq(octets)  BY <1>3 DEF Lies
  <2>3. octets[p] # Octet(0)  BY <1>2, <2>1
  <2>4. /\ After(octets, p) = p + Len(der) /\ Inside(octets, p) = BodyFrom(octets, p)
        /\ Skips(octets, p, p + Len(der))
    BY <2>1, <2>2, <2>3, DefiniteIsValue, Zenon
  <2>5. ~ IsIndefinite(octets, p)  BY <2>1, Zenon DEF IsIndefinite
  <2> QED BY <2>1, <2>2, <2>4, <2>5
<1>4. Len(der) >= 2  BY <1>1
<1>5. IsValue(der)  BY <1>1, <1>3, <1>4, Zenon DEF IsValue, IsContents
<1>6. PICK l \in Nat, m \in Nat : l = Len(der) /\ m = MoreOctets(der, 1) /\ m + 2 <= l /\ l > 1
  BY <1>1
<1>7. ASSUME NEW octets, NEW p, Lies(octets, p, der)
      PROVE  Body(octets, p, \h30) = SubSeq(octets, (p + 2) + m, (p + l) - 1)
  <2>1. After(octets, p) = p + l /\ After(octets, p) # 0  BY <1>3, <1>6, <1>7
  <2>2. Inside(octets, p) = (p + 2) + m /\ octets[p] = Octet(\h30) /\ ~ IsIndefinite(octets, p)
    BY <1>3, <1>6, <1>7
  <2> QED BY <2>1, <2>2 DEF Body
<1>8. Lies(der, 1, der)
  <2>1. \A i \in 1 .. l : 1 + i - 1 = i  OBVIOUS
  <2>2. \A i \in 1 .. l : der[1 + i - 1] = der[i]  BY <2>1
  <2>3. 1 \in Nat \ {0} /\ 1 + l <= l + 1  OBVIOUS
  <2> QED BY <1>1, <1>6, <2>2, <2>3 DEF Lies
<1>9. Body(der, 1, \h30) = SubSeq(der, 3 + m, l)
  <2>1. Body(der, 1, \h30) = SubSeq(der, (1 + 2) + m, (1 + l) - 1)  BY <1>7, <1>8
  <2>2. (1 + 2) + m = 3 + m /\ (1 + l) - 1 = l  OBVIOUS
  <2> QED BY <2>1, <2>2
<1>10. ASSUME NEW octets, NEW p, Lies(octets, p, der)
       PROVE  SubSeq(octets, (p + 2) + m, (p + l) - 1) = SubSeq(der, 3 + m, l)
  <2>1. PICK T : octets \in Seq(T) /\ der \in Seq(T)  BY <1>10, OneSet DEF Lies
  <2>2. PICK q \in Nat, o \in Nat : q = p /\ q # 0 /\ o = Len(octets)
    <3>1. p \in Nat \ {0} /\ Len(octets) \in Nat  BY <1>10, SeqLength DEF Lies
    <3> QED BY <3>1
  <2>3. q + l <= o + 1 /\ \A i \in 1 .. l : octets[q + i - 1] = der[i]
    BY <1>6, <1>10, <2>2 DEF Lies
  <2>4. PICK s, t : s = SubSeq(octets, (q + 2) + m, (q + l) - 1) /\ t = SubSeq(der, 3 + m, l)
    OBVIOUS
  <2>9. PICK a \in Nat, b \in Nat, c \in Nat :
          /\ a = (q + 2) + m /\ b = (q + l) - 1 /\ c = l - 2 - m
          /\ 1 <= a /\ b <= o /\ (b - a) + 1 = c
    <3>1. (q + l) - 1 \in Nat /\ l - 2 - m \in Nat  BY <1>6
    <3>2. 1 <= (q + 2) + m /\ (q + l) - 1 <= o  BY <2>2, <2>3
    <3>3. (((q + l) - 1) - ((q + 2) + m)) + 1 = l - 2 - m  OBVIOUS
    <3> QED BY <3>1, <3>2, <3>3
  <2>5. /\ s \in Seq(T) /\ Len(s) = l - 2 - m
        /\ \A i \in 1 .. l - 2 - m : s[i] = octets[(q + 2) + m + i - 1]
    <3>1. s = SubSeq(octets, a, b)  BY <2>4, <2>9
    <3>2. s \in Seq(T) /\ Len(s) = c /\ \A i \in 1 .. c : s[i] = octets[a + i - 1]
      BY <2>1, <2>2, <2>9, <3>1, PartOfSeq
    <3> QED BY <2>9, <3>2
  <2>6. /\ t \in Seq(T) /\ Len(t) = l - 2 - m
        /\ \A i \in 1 .. l - 2 - m : t[i] = der[(3 + m) + i - 1]
    <3>3. l <= l /\ 3 + m \in Nat /\ 1 <= 3 + m  OBVIOUS
    <3>4. (l - (3 + m)) + 1 = l - 2 - m  OBVIOUS
    <3>1. 3 + m \in Nat /\ 1 <= 3 + m /\ l <= Len(der) /\ (l - (3 + m)) + 1 = c
      BY <1>6, <2>9, <3>3, <3>4, Zenon
    <3>2. t \in Seq(T) /\ Len(t) = c /\ \A i \in 1 .. c : t[i] = der[(3 + m) + i - 1]
      BY <2>1, <2>4, <2>9, <3>1, PartOfSeq
    <3> QED BY <2>9, <3>2
  <2>7. \A i \in 1 .. l - 2 - m : s[i] = t[i]
    <3> TAKE i \in 1 .. l - 2 - m
    <3>1. (3 + m) + i - 1 \in 1 .. l /\ q + ((3 + m) + i - 1) - 1 = (q + 2) + m + i - 1
      BY <1>6, SMTT(40)
    <3> QED BY <2>3, <2>5, <2>6, <3>1
  <2>8. s = t  BY <2>5, <2>6, <2>7, SameSeq
  <2> QED BY <2>2, <2>4, <2>8
<1> QED BY <1>5, <1>7, <1>9, <1>10, ZenonT(40)

-----------------------------------------------------------------------------
(* Integers *)

\* Where the leading zero octets end.
LEMMA MagnitudeIs ==
  ASSUME NEW octets, IsSeq(octets), NEW n \in Nat, n <= Len(octets),
         \A i \in 1 .. n : octets[i] = Octet(0),
         n = Len(octets) \/ octets[n + 1] # Octet(0)
  PROVE  Magnitude(octets) = SubSeq(octets, n + 1, Len(octets))
<1>1. PICK l \in Nat : l = Len(octets)  BY SeqLength
<1> DEFINE Zeros(k) == /\ \A i \in 1 .. k : octets[i] = Octet(0)
                       /\ k = l \/ octets[k + 1] # Octet(0)
<1>2. n \in 0 .. l /\ Zeros(n)  BY <1>1
<1>3. \A k \in 0 .. l : Zeros(k) => k = n
  <2> SUFFICES ASSUME NEW k \in 0 .. l, Zeros(k)  PROVE k = n  OBVIOUS
  <2>1. CASE k < n
    <3>1. k + 1 \in 1 .. n /\ k # l  BY <1>2, <2>1
    <3> QED BY <1>2, <3>1
  <2>2. CASE n < k
    <3>1. n + 1 \in 1 .. k /\ n # l  BY <1>2, <2>2
    <3> QED BY <1>2, <3>1
  <2> QED BY <1>2, <2>1, <2>2
<1>4. (CHOOSE k \in 0 .. l : Zeros(k)) = n
  <2> HIDE DEF Zeros
  <2> QED BY <1>2, <1>3
<1>5. Magnitude(octets) = SubSeq(octets, (CHOOSE k \in 0 .. l : Zeros(k)) + 1, l)
  BY <1>1 DEF Magnitude
<1> QED BY <1>1, <1>4, <1>5

\* A set of numbers has a first one.
LEMMA FirstOf ==
  ASSUME NEW S, S \subseteq Nat, S # {}
  PROVE  \E i \in S : \A j \in S : i <= j
<1> DEFINE N == {n \in Nat : \A m \in 0 .. n : m \in S => \E i \in S : \A j \in S : i <= j}
<1>1. 0 \in N
  <2>1. \A m \in 0 .. 0 : m \in S => \E i \in S : \A j \in S : i <= j
    <3> SUFFICES ASSUME 0 \in S  PROVE \E i \in S : \A j \in S : i <= j  OBVIOUS
    <3>1. \A j \in S : 0 <= j  OBVIOUS
    <3> QED BY <3>1
  <2> QED BY <2>1
<1>2. ASSUME NEW n \in Nat, n \in N  PROVE n + 1 \in N
  <2>1. ASSUME NEW m \in 0 .. n + 1, m \in S  PROVE \E i \in S : \A j \in S : i <= j
    <3>1. CASE m \in 0 .. n  BY <1>2, <2>1, <3>1
    <3>2. CASE m = n + 1
      <4>1. CASE \A j \in S : m <= j  BY <2>1, <4>1
      <4>2. CASE \E j \in S : ~ (m <= j)
        <5>1. PICK j \in S : ~ (m <= j)  BY <4>2
        <5>2. j \in 0 .. n  BY <3>2, <5>1
        <5> QED BY <1>2, <5>1, <5>2
      <4> QED BY <4>1, <4>2
    <3> QED BY <2>1, <3>1, <3>2
  <2> QED BY <2>1
<1>3. \A n \in Nat : n \in N
  <2> HIDE DEF N
  <2> QED BY <1>1, <1>2, NatInduct
<1>4. PICK n \in S : TRUE  OBVIOUS
<1>5. n \in Nat /\ n \in 0 .. n  BY <1>4
<1> QED BY <1>3, <1>4, <1>5

\* An octet that is put before others.
LEMMA ZeroBefore ==
  ASSUME NEW s, IsSeq(s), NEW e
  PROVE  /\ IsSeq(Cat(<<e>>, s)) /\ Len(Cat(<<e>>, s)) = Len(s) + 1
         /\ Cat(<<e>>, s)[1] = e
         /\ \A i \in 1 .. Len(s) : Cat(<<e>>, s)[i + 1] = s[i]
<1>1. PICK one : one = <<e>>  OBVIOUS
<1>2. IsSeq(one) /\ Len(one) = 1 /\ one[1] = e  BY <1>1, OneIsSeq
<1>7. IsSeq(one)  BY <1>2
<1>3. /\ Len(s) \in Nat /\ Len(Cat(one, s)) = Len(one) + Len(s)
      /\ \A i \in 1 .. Len(one) : Cat(one, s)[i] = one[i]
      /\ \A i \in 1 .. Len(s) : Cat(one, s)[Len(one) + i] = s[i]
  <2>1. Len(s) \in Nat /\ Len(Cat(one, s)) = Len(one) + Len(s)  BY <1>2, CatPlaces, Zenon
  <2>2. \A i \in 1 .. Len(one) : Cat(one, s)[i] = one[i]  BY <1>2, CatPlaces, Zenon
  <2>3. \A i \in 1 .. Len(s) : Cat(one, s)[Len(one) + i] = s[i]  BY <1>7, CatPlaces
  <2> QED BY <2>1, <2>2, <2>3
<1>4. IsSeq(Cat(one, s))  BY <1>2, CatFacts, Zenon
<1>5. 1 \in 1 .. 1  OBVIOUS
<1>6. \A i \in 1 .. Len(s) : 1 + i = i + 1  BY <1>3
<1> QED BY <1>1, <1>2, <1>3, <1>4, <1>5, <1>6

\* What PositiveInteger writes for an octet that is no leading zero and what
\* follows.
Signed(body) == IF body[1][2] >= 128 THEN Cat(<<Octet(0)>>, body) ELSE body

\* It is positive and has this magnitude.
LEMMA SignedReads ==
  ASSUME NEW body \in Seq(Octets), Len(body) >= 1, body[1] # Octet(0)
  PROVE  /\ IsSeq(Signed(body)) /\ Positive(Signed(body)) /\ Magnitude(Signed(body)) = body
<1>1. PICK l \in Nat : l = Len(body) /\ l >= 1
  <2> HIDE DEF Octets
  <2> QED OBVIOUS
<1>2. IsSeq(body)  BY DEF IsSeq
<1>3. PICK n \in 0 .. 255 : body[1] = Octet(n)
  <2>1. body[1] \in Octets
    <3> HIDE DEF Octets
    <3> QED BY <1>1
  <2> QED BY <2>1 DEF Octets
<1>4. body[1][2] = n  BY <1>3, OctetFacts
<1>5. body # <<>>
  <2>1. Len(<<>>) = 0  OBVIOUS
  <2> QED BY <1>1, <2>1
<1>6. CASE n >= 128
  <2>1. PICK s : s = Cat(<<Octet(0)>>, body)  OBVIOUS
  <2>2. Signed(body) = s  BY <1>4, <1>6, <2>1, Zenon DEF Signed
  <2>3. /\ IsSeq(s) /\ Len(s) = l + 1 /\ s[1] = Octet(0)
        /\ \A i \in 1 .. l : s[i + 1] = body[i]
    BY <1>1, <1>2, <2>1, ZeroBefore
  <2>4. s # <<>>
    <3>1. Len(<<>>) = 0  OBVIOUS
    <3> QED BY <2>3, <3>1
  <2>5. Positive(s)
    <3>1. s[1][2] = 0  BY <2>3, OctetFacts
    <3>2. 0 < 128  OBVIOUS
    <3> QED BY <2>4, <3>1, <3>2, Zenon DEF Positive
  <2>6. Magnitude(s) = SubSeq(s, 1 + 1, Len(s))
    <3>1. 1 <= Len(s)  BY <2>3
    <3>2. s[1 + 1] # Octet(0)
      <4>1. 1 \in 1 .. l  BY <1>1
      <4> QED BY <2>3, <4>1
    <3>3. \A i \in 1 .. 1 : s[i] = Octet(0)  BY <2>3
    <3>4. 1 \in Nat  OBVIOUS
    <3> QED BY <2>3, <3>1, <3>2, <3>3, <3>4, MagnitudeIs
  <2>7. SubSeq(s, 1 + 1, l + 1) = body
    <3>1. Lies(s, 2, body)
      <4>1. \A i \in 1 .. l : 2 + i - 1 = i + 1  OBVIOUS
      <4>2. \A i \in 1 .. l : s[2 + i - 1] = body[i]  BY <2>3, <4>1
      <4>3. 2 + l <= (l + 1) + 1 /\ 2 \in Nat \ {0}  OBVIOUS
      <4> QED BY <1>1, <1>2, <2>3, <4>2, <4>3 DEF Lies
    <3>2. 2 + l - 1 = l + 1 /\ 1 + 1 = 2  OBVIOUS
    <3>3. SubSeq(s, 2, 2 + Len(body) - 1) = body  BY <3>1, LiesSub
    <3> QED BY <1>1, <3>2, <3>3
  <2> QED BY <2>2, <2>3, <2>5, <2>6, <2>7
<1>7. CASE ~ (n >= 128)
  <2>1. Signed(body) = body  BY <1>4, <1>7, Zenon DEF Signed
  <2>2. Positive(body)
    <3>1. body[1][2] < 128  BY <1>4, <1>7
    <3> QED BY <1>5, <3>1 DEF Positive
  <2>3. Magnitude(body) = SubSeq(body, 0 + 1, l)
    <3>1. \A i \in 1 .. 0 : body[i] = Octet(0)  OBVIOUS
    <3>2. 0 + 1 = 1 /\ 0 <= l /\ 0 \in Nat  OBVIOUS
    <3> QED BY <1>1, <1>2, <3>1, <3>2, MagnitudeIs
  <2>4. SubSeq(body, 1, l) = body
    <3>1. Lies(body, 1, body)
      <4>1. \A i \in 1 .. l : 1 + i - 1 = i  OBVIOUS
      <4>2. \A i \in 1 .. l : body[1 + i - 1] = body[i]  BY <4>1
      <4>3. 1 + l <= l + 1 /\ 1 \in Nat \ {0}  OBVIOUS
      <4> QED BY <1>1, <1>2, <4>2, <4>3 DEF Lies
    <3>2. 1 + l - 1 = l  OBVIOUS
    <3>3. SubSeq(body, 1, 1 + Len(body) - 1) = body  BY <3>1, LiesSub
    <3> QED BY <1>1, <3>2, <3>3
  <2>5. 0 + 1 = 1  OBVIOUS
  <2> QED BY <1>2, <2>1, <2>2, <2>3, <2>4, <2>5
<1> QED BY <1>6, <1>7

\* The part after the end is empty.
LEMMA NothingAfter ==
  ASSUME NEW s, IsSeq(s), NEW n \in Nat, n = Len(s)
  PROVE  SubSeq(s, n + 1, n) = <<>>
<1>1. PICK T : s \in Seq(T)  BY DEF IsSeq
<1>2. SubSeq(s, n + 1, n) \in Seq(T) /\ Len(SubSeq(s, n + 1, n)) = 0  BY <1>1
<1> QED BY <1>2

\* Zero is written as one octet.
LEMMA ZeroReads ==
  LET zero == <<Octet(0)>>
  IN  /\ IsSeq(Signed(zero)) /\ Positive(Signed(zero)) /\ Magnitude(Signed(zero)) = <<>>
<1>1. PICK z : z = <<Octet(0)>>  OBVIOUS
<1>2. IsSeq(z) /\ Len(z) = 1 /\ z[1] = Octet(0) /\ z # <<>>  BY <1>1, OneIsSeq
<1>3. z[1][2] = 0  BY <1>2, OctetFacts
<1>4. ~ (0 >= 128) /\ 0 < 128  OBVIOUS
<1>5. Signed(z) = z  BY <1>3, <1>4, Zenon DEF Signed
<1>6. Positive(z)  BY <1>2, <1>3, <1>4, Zenon DEF Positive
<1>7. Magnitude(z) = SubSeq(z, 1 + 1, 1)
  <2>1. \A i \in 1 .. 1 : z[i] = Octet(0)  BY <1>2
  <2>2. 1 \in Nat /\ 1 <= 1  OBVIOUS
  <2> QED BY <1>2, <2>1, <2>2, MagnitudeIs
<1>8. SubSeq(z, 1 + 1, 1) = <<>>
  <2>1. 1 \in Nat  OBVIOUS
  <2> QED BY <1>2, <2>1, NothingAfter
<1> QED BY <1>1, <1>2, <1>5, <1>6, <1>7, <1>8, Zenon

\* positive_integer keeps the number and its sign.
LEMMA PositiveRead ==
  ASSUME NEW serial \in Seq(Octets)
  PROVE  \E x : /\ PositiveInteger(serial) = Tlv(\h02, x) /\ IsSeq(x)
                /\ Positive(x) /\ Magnitude(x) = Magnitude(serial)
<1> DEFINE nonzero == {i \in DOMAIN serial : serial[i] # Octet(0)}
           first   == IF nonzero = {} THEN Len(serial)
                      ELSE CHOOSE i \in nonzero : \A j \in nonzero : i <= j
           body    == IF serial = <<>> THEN <<Octet(0)>> ELSE SubSeq(serial, first, Len(serial))
<1>1. PICK l \in Nat : l = Len(serial) /\ DOMAIN serial = 1 .. l
  <2> HIDE DEF Octets
  <2> QED OBVIOUS
<1>2. IsSeq(serial)  BY DEF IsSeq
<1>3. PositiveInteger(serial) = Tlv(\h02, Signed(body))  BY Zenon DEF PositiveInteger, Signed, Cat
<1>4. CASE nonzero = {}
  <2>1. \A i \in 1 .. l : serial[i] = Octet(0)  BY <1>1, <1>4
  <2>2. Magnitude(serial) = <<>>
    <3>1. Magnitude(serial) = SubSeq(serial, l + 1, l)
      <4>1. l <= l  OBVIOUS
      <4> QED BY <1>1, <1>2, <2>1, <4>1, MagnitudeIs
    <3> QED BY <1>1, <1>2, <3>1, NothingAfter
  <2>3. body = <<Octet(0)>>
    <3>1. CASE serial = <<>>  BY <3>1
    <3>2. CASE serial # <<>>
      <4>1. l >= 1
        <5> HIDE DEF Octets
        <5> QED BY <1>1, <3>2
      <4>2. PICK z : z = <<Octet(0)>>  OBVIOUS
      <4>3. IsSeq(z) /\ Len(z) = 1 /\ z[1] = Octet(0)  BY <4>2, OneIsSeq
      <4>4. Lies(serial, l, z)
        <5>1. serial[l] = Octet(0)  BY <2>1, <4>1
        <5>2. \A i \in 1 .. 1 : l + i - 1 = l /\ i = 1  OBVIOUS
        <5>3. \A i \in 1 .. Len(z) : serial[l + i - 1] = z[i]  BY <4>3, <5>1, <5>2
        <5> QED BY <1>1, <1>2, <4>1, <4>3, <5>3 DEF Lies
      <4>5. SubSeq(serial, l, l + 1 - 1) = z  BY <4>3, <4>4, LiesSub
      <4>6. l + 1 - 1 = l  OBVIOUS
      <4>7. body = SubSeq(serial, l, l)  BY <1>1, <1>4, <3>2
      <4> QED BY <4>2, <4>5, <4>6, <4>7
    <3> QED BY <3>1, <3>2
  <2> HIDE DEF body
  <2> QED BY <1>3, <2>2, <2>3, ZeroReads, Zenon
<1>5. CASE nonzero # {}
  <2>1. PICK m \in nonzero : m = first /\ \A j \in nonzero : m <= j
    <3>1. nonzero \subseteq Nat  BY <1>1
    <3>2. \E i \in nonzero : \A j \in nonzero : i <= j
      <4> HIDE DEF nonzero
      <4> QED BY <1>5, <3>1, FirstOf
    <3>3. first = CHOOSE i \in nonzero : \A j \in nonzero : i <= j  BY <1>5
    <3> HIDE DEF nonzero, first
    <3> QED BY <3>2, <3>3
  <2>2. m \in 1 .. l /\ serial[m] # Octet(0) /\ serial # <<>>  BY <1>1
  <2>3. PICK n \in Nat : n + 1 = m /\ n <= l
    <3>1. m - 1 \in Nat /\ (m - 1) + 1 = m /\ m - 1 <= l  BY <2>2
    <3> QED BY <3>1
  <2>4. \A i \in 1 .. n : serial[i] = Octet(0)
    <3> SUFFICES ASSUME NEW i \in 1 .. n  PROVE serial[i] = Octet(0)  OBVIOUS
    <3>1. ~ (m <= i) /\ i \in DOMAIN serial  BY <1>1, <2>2, <2>3
    <3> QED BY <2>1, <3>1
  <2>5. Magnitude(serial) = SubSeq(serial, n + 1, l)
    BY <1>1, <1>2, <2>2, <2>3, <2>4, MagnitudeIs
  <2>6. body = SubSeq(serial, m, l)  BY <1>1, <2>1, <2>2
  <2>7. PICK b : b = SubSeq(serial, m, l)  OBVIOUS
  <2>8. PICK k \in Nat : k = l - n /\ k >= 1  BY <2>2, <2>3
  <2>9. b \in Seq(Octets) /\ Len(b) = k /\ b[1] = serial[m]
    <3>1. 1 <= m /\ l <= Len(serial) /\ (l - m) + 1 = k /\ m \in Nat
      BY <1>1, <2>2, <2>3, <2>8
    <3>2. /\ SubSeq(serial, m, l) \in Seq(Octets) /\ Len(SubSeq(serial, m, l)) = k
          /\ \A i \in 1 .. k : SubSeq(serial, m, l)[i] = serial[m + i - 1]
      <4> HIDE DEF Octets
      <4> QED BY <3>1, PartOfSeq
    <3>3. 1 \in 1 .. k /\ m + 1 - 1 = m  BY <2>2, <2>8
    <3> HIDE DEF Octets
    <3> QED BY <2>7, <3>2, <3>3
  <2>10. IsSeq(Signed(b)) /\ Positive(Signed(b)) /\ Magnitude(Signed(b)) = b
    <3>1. Len(b) >= 1 /\ b[1] # Octet(0)  BY <2>2, <2>8, <2>9
    <3> HIDE DEF Octets
    <3> QED BY <2>9, <3>1, SignedReads
  <2>11. Magnitude(serial) = b  BY <2>3, <2>5, <2>7
  <2>12. PositiveInteger(serial) = Tlv(\h02, Signed(b))  BY <1>3, <2>6, <2>7
  <2> QED BY <2>10, <2>11, <2>12, Zenon
<1> QED BY <1>4, <1>5

-----------------------------------------------------------------------------
(* The parts of a CMS message *)

\* Two elements are found in their places.
LEMMA PairWithin ==
  ASSUME NEW octets, NEW p, NEW a, NEW b, IsValue(a), IsSeq(b),
         Lies(octets, Inside(octets, p), Cat(a, b))
  PROVE  Lies(octets, Within(octets, p, 1), a) /\ Lies(octets, Within(octets, p, 2), b)
<1>1. Within(octets, p, 1) = Inside(octets, p)  BY WithinStep
<1>2. Lies(octets, Within(octets, p, 1), Cat(a, b))  BY <1>1
<1>3. 1 \in 1 .. 4 /\ 1 + 1 = 2  OBVIOUS
<1> QED BY <1>2, <1>3, Stepped

\* So are five.
LEMMA FiveWithin ==
  ASSUME NEW octets, NEW p, NEW a, NEW b, NEW c, NEW d, NEW e,
         IsValue(a), IsValue(b), IsValue(c), IsValue(d), IsSeq(e),
         Lies(octets, Inside(octets, p), Cat(a, Cat(b, Cat(c, Cat(d, e)))))
  PROVE  /\ Lies(octets, Within(octets, p, 1), a) /\ Lies(octets, Within(octets, p, 2), b)
         /\ Lies(octets, Within(octets, p, 3), c) /\ Lies(octets, Within(octets, p, 4), d)
         /\ Lies(octets, Within(octets, p, 5), e)
<1>1. IsSeq(b) /\ IsSeq(c) /\ IsSeq(d)  BY DEF IsValue, IsContents
<1>2. PICK de, cde, bcde : de = Cat(d, e) /\ cde = Cat(c, de) /\ bcde = Cat(b, cde)
  OBVIOUS
<1>3. IsSeq(de) /\ IsSeq(cde) /\ IsSeq(bcde)  BY <1>1, <1>2, CatFacts
<1>4. Within(octets, p, 1) = Inside(octets, p)  BY WithinStep
<1>5. Lies(octets, Within(octets, p, 1), Cat(a, bcde))  BY <1>2, <1>4
<1>6. Lies(octets, Within(octets, p, 1), a) /\ Lies(octets, Within(octets, p, 2), bcde)
  <2>1. 1 \in 1 .. 4 /\ 1 + 1 = 2  OBVIOUS
  <2> QED BY <1>3, <1>5, <2>1, Stepped
<1>7. Lies(octets, Within(octets, p, 2), b) /\ Lies(octets, Within(octets, p, 3), cde)
  <2>1. 2 \in 1 .. 4 /\ 2 + 1 = 3  OBVIOUS
  <2>2. Lies(octets, Within(octets, p, 2), Cat(b, cde))  BY <1>2, <1>6
  <2> QED BY <1>3, <2>1, <2>2, Stepped
<1>8. Lies(octets, Within(octets, p, 3), c) /\ Lies(octets, Within(octets, p, 4), de)
  <2>1. 3 \in 1 .. 4 /\ 3 + 1 = 4  OBVIOUS
  <2>2. Lies(octets, Within(octets, p, 3), Cat(c, de))  BY <1>2, <1>7
  <2> QED BY <1>3, <2>1, <2>2, Stepped
<1>9. Lies(octets, Within(octets, p, 4), d) /\ Lies(octets, Within(octets, p, 5), e)
  <2>1. 4 \in 1 .. 4 /\ 4 + 1 = 5  OBVIOUS
  <2>2. Lies(octets, Within(octets, p, 4), Cat(d, e))  BY <1>2, <1>8
  <2> QED BY <2>1, <2>2, Stepped
<1> QED BY <1>6, <1>7, <1>8, <1>9

\* Values are sequences that can be passed over.
LEMMA ValueFacts ==
  /\ \A v : IsValue(v) => IsSeq(v) /\ IsContents(v)
  /\ \A a, b : IsValue(a) /\ IsContents(b) => IsContents(Cat(a, b))
<1>1. \A v : IsValue(v) => IsContents(v)  BY DEF IsValue
<1>2. \A a, b : IsValue(a) /\ IsContents(b) => IsContents(Cat(a, b))  BY <1>1, ContentsCat
<1> QED BY <1>1, <1>2 DEF IsContents

\* The tags that are used are none of the end of contents.
LEMMA TagFacts ==
  /\ \h30 # 0 /\ \h31 # 0 /\ \h04 # 0 /\ \h02 # 0
  /\ \h30 \in Constructed /\ \ha0 \in Constructed /\ \h06 = 6
BY DEF Constructed

\* The NULL of an algorithm.
NullOctets == <<Octet(\h05), Octet(0)>>

\* An algorithm, an octet string and a set of one.
LEMMA PartForms ==
  /\ \A name : /\ AlgorithmIdentifier(name) = Tlv(\h30, Cat(ObjectIdentifier(name), NullOctets))
               /\ IsSeq(Cat(ObjectIdentifier(name), NullOctets))
               /\ IsValue(AlgorithmIdentifier(name))
  /\ \A s : IsSeq(s) => OctetString(s) = Tlv(\h04, s) /\ IsValue(OctetString(s))
  /\ \A v : IsSeq(v) => SetOf(<<v>>) = Tlv(\h31, v) /\ IsValue(SetOf(<<v>>))
<1>1. ASSUME NEW name
      PROVE  /\ AlgorithmIdentifier(name) = Tlv(\h30, Cat(ObjectIdentifier(name), NullOctets))
             /\ IsSeq(Cat(ObjectIdentifier(name), NullOctets))
             /\ IsValue(AlgorithmIdentifier(name))
  <2>1. PICK i, n : i = ObjectIdentifier(name) /\ n = NullOctets  OBVIOUS
  <2>2. IsSeq(i) /\ IsSeq(n)
    <3>1. IsValue(i) /\ IsValue(n)  BY <2>1, SmallAreValues, Zenon DEF NullOctets
    <3> QED BY <3>1, ValueFacts
  <2>3. FlattenSeq(<<i, n>>) = Cat(i, n)  BY <2>2, FlattenFew
  <2>4. AlgorithmIdentifier(name) = Tlv(\h30, Cat(i, n))
    BY <2>1, <2>3, Zenon DEF AlgorithmIdentifier, Sequence, NullOctets
  <2>5. IsSeq(Cat(i, n))  BY <2>2, CatFacts
  <2>6. IsValue(AlgorithmIdentifier(name))  BY <2>4, <2>5, TagFacts, TlvIsValue
  <2> QED BY <2>1, <2>4, <2>5, <2>6
<1>2. ASSUME NEW s, IsSeq(s)  PROVE OctetString(s) = Tlv(\h04, s) /\ IsValue(OctetString(s))
  BY <1>2, TagFacts, TlvIsValue DEF OctetString
<1>3. ASSUME NEW v, IsSeq(v)  PROVE SetOf(<<v>>) = Tlv(\h31, v) /\ IsValue(SetOf(<<v>>))
  <2>1. FlattenSeq(<<v>>) = v  BY <1>3, FlattenFew
  <2>2. SetOf(<<v>>) = Tlv(\h31, v)  BY <2>1, Zenon DEF SetOf
  <2> QED BY <1>3, <2>2, TagFacts, TlvIsValue
<1> QED BY <1>1, <1>2, <1>3

\* The parts of EncodeTurnkeySignedData.
DigestPart          == AlgorithmIdentifier("sha256")
IdentityPart(parts) == Sequence(<<parts.issuer, PositiveInteger(parts.serial)>>)
SignerPart(parts)   ==
  Sequence(<<IntegerOne, IdentityPart(parts), DigestPart,
             AlgorithmIdentifier(parts.algorithm), OctetString(parts.signature)>>)
WrappedPart(parts)  == Indefinite(\ha0, <<OctetString(parts.content)>>)
ContentPart(parts)  == Indefinite(\h30, <<ObjectIdentifier("data"), WrappedPart(parts)>>)
CertificatePart(parts) == Indefinite(\ha0, <<parts.certificate>>)
SignedPart(parts)   ==
  Indefinite(\h30, <<IntegerOne, SetOf(<<DigestPart>>), ContentPart(parts),
                     CertificatePart(parts), SetOf(<<SignerPart(parts)>>)>>)
CarriedPart(parts)  == Indefinite(\ha0, <<SignedPart(parts)>>)

\* It is made of them.
LEMMA EncodedParts ==
  ASSUME NEW parts
  PROVE  EncodeTurnkeySignedData(parts)
           = Indefinite(\h30, <<ObjectIdentifier("signedData"), CarriedPart(parts)>>)
BY Zenon DEF EncodeTurnkeySignedData, DigestPart, IdentityPart, SignerPart, WrappedPart,
     ContentPart, CertificatePart, SignedPart, CarriedPart

\* What the values of these parts are.
Signable(parts) ==
  /\ IsSeq(parts.content) /\ IsSeq(parts.signature)
  /\ IsDerSequence(parts.certificate) /\ IsDerSequence(parts.issuer)
  /\ parts.serial \in Seq(Octets)

\* An indefinite value of one value, and of an identifier and a value.
LEMMA IndefiniteFew ==
  /\ \A tag \in Constructed : \A v : IsValue(v) =>
       FlattenSeq(<<v>>) = v /\ IsContents(v) /\ IsValue(Indefinite(tag, <<v>>))
  /\ \A tag \in Constructed : \A u, v : IsValue(u) /\ IsValue(v) =>
       /\ FlattenSeq(<<u, v>>) = Cat(u, v) /\ IsContents(Cat(u, v))
       /\ IsValue(Indefinite(tag, <<u, v>>))
<1>1. ASSUME NEW tag \in Constructed, NEW v, IsValue(v)
      PROVE  FlattenSeq(<<v>>) = v /\ IsContents(v) /\ IsValue(Indefinite(tag, <<v>>))
  <2>1. IsSeq(v) /\ IsContents(v)  BY <1>1, ValueFacts
  <2>2. PICK few : few = <<v>>  OBVIOUS
  <2>3. FlattenSeq(few) = v  BY <2>1, <2>2, FlattenFew
  <2>4. IsValue(Indefinite(tag, few))  BY <2>1, <2>3, IndefiniteIsValue
  <2> QED BY <2>1, <2>2, <2>3, <2>4
<1>2. ASSUME NEW tag \in Constructed, NEW u, NEW v, IsValue(u), IsValue(v)
      PROVE  /\ FlattenSeq(<<u, v>>) = Cat(u, v) /\ IsContents(Cat(u, v))
             /\ IsValue(Indefinite(tag, <<u, v>>))
  <2>1. IsSeq(u) /\ IsSeq(v) /\ IsContents(Cat(u, v))  BY <1>2, ValueFacts
  <2>2. PICK few : few = <<u, v>>  OBVIOUS
  <2>3. FlattenSeq(few) = Cat(u, v)  BY <2>1, <2>2, FlattenFew
  <2>4. IsValue(Indefinite(tag, few))  BY <2>1, <2>3, IndefiniteIsValue
  <2> QED BY <2>1, <2>2, <2>3, <2>4
<1> QED BY <1>1, <1>2

\* The signer's part.
LEMMA SignerForm ==
  ASSUME NEW parts, Signable(parts)
  PROVE  /\ IsValue(PositiveInteger(parts.serial)) /\ IsValue(parts.issuer)
         /\ IdentityPart(parts) = Tlv(\h30, Cat(parts.issuer, PositiveInteger(parts.serial)))
         /\ IsSeq(Cat(parts.issuer, PositiveInteger(parts.serial)))
         /\ IsValue(IdentityPart(parts))
         /\ SignerPart(parts) =
              Tlv(\h30, Cat(IntegerOne, Cat(IdentityPart(parts), Cat(DigestPart,
                Cat(AlgorithmIdentifier(parts.algorithm), OctetString(parts.signature))))))
         /\ IsSeq(Cat(IntegerOne, Cat(IdentityPart(parts), Cat(DigestPart,
                Cat(AlgorithmIdentifier(parts.algorithm), OctetString(parts.signature))))))
         /\ IsValue(SignerPart(parts))
<1>1. PICK s, i : s = PositiveInteger(parts.serial) /\ i = parts.issuer  OBVIOUS
<1>2. IsValue(s)
  <2>1. PICK x : s = Tlv(\h02, x) /\ IsSeq(x)
    <3> HIDE DEF Octets
    <3> QED BY <1>1, PositiveRead DEF Signable
  <2> QED BY <2>1, TagFacts, TlvIsValue
<1>3. IsValue(i)  BY <1>1, DerIsValue DEF Signable
<1>4. IsSeq(s) /\ IsSeq(i)  BY <1>2, <1>3, ValueFacts
<1>5. FlattenSeq(<<i, s>>) = Cat(i, s) /\ IsSeq(Cat(i, s))  BY <1>4, FlattenFew, CatFacts
<1>6. IdentityPart(parts) = Tlv(\h30, Cat(i, s))
  BY <1>1, <1>5, Zenon DEF IdentityPart, Sequence
<1>7. IsValue(IdentityPart(parts))  BY <1>5, <1>6, TagFacts, TlvIsValue
<1>8. PICK a, b, c, d, e : /\ a = IntegerOne /\ b = IdentityPart(parts) /\ c = DigestPart
                           /\ d = AlgorithmIdentifier(parts.algorithm)
                           /\ e = OctetString(parts.signature)
  OBVIOUS
<1>9. IsSeq(a) /\ IsSeq(b) /\ IsSeq(c) /\ IsSeq(d) /\ IsSeq(e)
  <2>1. IsValue(a)  BY <1>8, SmallAreValues, Zenon
  <2>2. IsValue(c) /\ IsValue(d)  BY <1>8, PartForms, Zenon DEF DigestPart
  <2>3. IsValue(e)  BY <1>8, PartForms, Zenon DEF Signable
  <2> QED BY <1>7, <1>8, <2>1, <2>2, <2>3, ValueFacts, Zenon
<1>10. FlattenSeq(<<a, b, c, d, e>>) = Cat(a, Cat(b, Cat(c, Cat(d, e))))
  <2>1. PICK five : five = <<a, b, c, d, e>>  OBVIOUS
  <2>2. FlattenSeq(five) = Cat(a, Cat(b, Cat(c, Cat(d, e))))  BY <1>9, <2>1, FlattenFive
  <2> QED BY <2>1, <2>2, Zenon
<1>11. SignerPart(parts) = Tlv(\h30, Cat(a, Cat(b, Cat(c, Cat(d, e)))))
  BY <1>8, <1>10, Zenon DEF SignerPart, Sequence
<1>12. IsSeq(Cat(a, Cat(b, Cat(c, Cat(d, e)))))
  <2>1. IsSeq(Cat(d, e))  BY <1>9, CatFacts
  <2>2. IsSeq(Cat(c, Cat(d, e)))  BY <1>9, <2>1, CatFacts
  <2>3. IsSeq(Cat(b, Cat(c, Cat(d, e))))  BY <1>9, <2>2, CatFacts
  <2> QED BY <1>9, <2>3, CatFacts
<1>13. IsValue(SignerPart(parts))  BY <1>11, <1>12, TagFacts, TlvIsValue
<1> QED BY <1>1, <1>2, <1>3, <1>5, <1>6, <1>7, <1>8, <1>11, <1>12, <1>13

\* The content's part, and the whole.
LEMMA SignedForm ==
  ASSUME NEW parts, Signable(parts)
  PROVE  /\ IsValue(OctetString(parts.content)) /\ IsValue(WrappedPart(parts))
         /\ FlattenSeq(<<OctetString(parts.content)>>) = OctetString(parts.content)
         /\ FlattenSeq(<<ObjectIdentifier("data"), WrappedPart(parts)>>)
              = Cat(ObjectIdentifier("data"), WrappedPart(parts))
         /\ IsContents(Cat(ObjectIdentifier("data"), WrappedPart(parts)))
         /\ IsValue(ContentPart(parts))
         /\ IsValue(parts.certificate) /\ FlattenSeq(<<parts.certificate>>) = parts.certificate
         /\ IsValue(CertificatePart(parts))
<1>1. PICK o, c, i : /\ o = OctetString(parts.content) /\ c = parts.certificate
                     /\ i = ObjectIdentifier("data")
  OBVIOUS
<1>2. IsValue(o)  BY <1>1, PartForms, Zenon DEF Signable
<1>3. IsValue(c)  BY <1>1, DerIsValue DEF Signable
<1>4. IsValue(i)  BY <1>1, SmallAreValues, Zenon
<1>5. PICK t, u : t = \h30 /\ u = \ha0 /\ t \in Constructed /\ u \in Constructed  BY TagFacts
<1>6. FlattenSeq(<<o>>) = o /\ IsValue(Indefinite(u, <<o>>))  BY <1>2, <1>5, IndefiniteFew, Zenon
<1>7. PICK w : w = WrappedPart(parts)  OBVIOUS
<1>8. IsValue(w)  BY <1>1, <1>5, <1>6, <1>7, Zenon DEF WrappedPart
<1>9. /\ FlattenSeq(<<i, w>>) = Cat(i, w) /\ IsContents(Cat(i, w))
      /\ IsValue(Indefinite(t, <<i, w>>))
  BY <1>4, <1>5, <1>8, IndefiniteFew, Zenon
<1>10. IsValue(ContentPart(parts))  BY <1>1, <1>5, <1>7, <1>9, Zenon DEF ContentPart
<1>11. FlattenSeq(<<c>>) = c /\ IsValue(Indefinite(u, <<c>>))  BY <1>3, <1>5, IndefiniteFew, Zenon
<1>12. IsValue(CertificatePart(parts))  BY <1>1, <1>5, <1>11, Zenon DEF CertificatePart
<1> QED BY <1>1, <1>2, <1>3, <1>6, <1>7, <1>8, <1>9, <1>10, <1>11, <1>12, Zenon

\* The elements of SignedData.
SignedElements(parts) ==
  Cat(IntegerOne, Cat(SetOf(<<DigestPart>>), Cat(ContentPart(parts),
    Cat(CertificatePart(parts), SetOf(<<SignerPart(parts)>>)))))

SignedList(parts) ==
  <<IntegerOne, SetOf(<<DigestPart>>), ContentPart(parts), CertificatePart(parts),
    SetOf(<<SignerPart(parts)>>)>>

\* They are values, one after the other.
LEMMA ElementsForm ==
  ASSUME NEW parts, Signable(parts)
  PROVE  /\ IsValue(IntegerOne) /\ IsValue(SetOf(<<DigestPart>>))
         /\ IsValue(SetOf(<<SignerPart(parts)>>))
         /\ FlattenSeq(SignedList(parts)) = SignedElements(parts)
         /\ IsContents(SignedElements(parts))
         /\ SignedPart(parts) = Indefinite(\h30, SignedList(parts))
         /\ IsValue(SignedPart(parts))
<1>1. PICK a, b, c, d, e :
        /\ a = IntegerOne /\ b = SetOf(<<DigestPart>>) /\ c = ContentPart(parts)
        /\ d = CertificatePart(parts) /\ e = SetOf(<<SignerPart(parts)>>)
  OBVIOUS
<1>2. IsValue(a)  BY <1>1, SmallAreValues, Zenon
<1>3. IsValue(b)
  <2>1. IsValue(DigestPart)  BY PartForms, Zenon DEF DigestPart
  <2>2. IsSeq(DigestPart)  BY <2>1, ValueFacts, Zenon
  <2> QED BY <1>1, <2>2, PartForms, Zenon
<1>4. IsValue(c) /\ IsValue(d)  BY <1>1, SignedForm, Zenon
<1>5. IsValue(e)
  <2>1. IsValue(SignerPart(parts))  BY SignerForm, Zenon
  <2>2. IsSeq(SignerPart(parts))  BY <2>1, ValueFacts, Zenon
  <2> QED BY <1>1, <2>2, PartForms, Zenon
<1>6. IsSeq(a) /\ IsSeq(b) /\ IsSeq(c) /\ IsSeq(d) /\ IsSeq(e)
  BY <1>2, <1>3, <1>4, <1>5, ValueFacts, Zenon
<1>7. PICK l : l = SignedList(parts)  OBVIOUS
<1>8. l = <<a, b, c, d, e>>  BY <1>1, <1>7, Zenon DEF SignedList
<1>9. PICK s : s = Cat(a, Cat(b, Cat(c, Cat(d, e))))  OBVIOUS
<1>10. FlattenSeq(l) = s  BY <1>6, <1>8, <1>9, FlattenFive
<1>11. IsContents(s)
  <2>1. PICK de, cde, bcde : de = Cat(d, e) /\ cde = Cat(c, de) /\ bcde = Cat(b, cde)
    OBVIOUS
  <2>2. IsContents(e)  BY <1>5, ValueFacts, Zenon
  <2>3. IsContents(de)  BY <1>4, <2>1, <2>2, ValueFacts, Zenon
  <2>4. IsContents(cde)  BY <1>4, <2>1, <2>3, ValueFacts, Zenon
  <2>5. IsContents(bcde)  BY <1>3, <2>1, <2>4, ValueFacts, Zenon
  <2>6. IsContents(Cat(a, bcde))  BY <1>2, <2>5, ValueFacts, Zenon
  <2>7. s = Cat(a, bcde)  BY <1>9, <2>1, Zenon
  <2> QED BY <2>6, <2>7, Zenon
<1>12. s = SignedElements(parts)  BY <1>1, <1>9, Zenon DEF SignedElements
<1>13. SignedPart(parts) = Indefinite(\h30, l)
  BY <1>7, Zenon DEF SignedPart, SignedList
<1>14. IsValue(SignedPart(parts))
  BY <1>10, <1>11, <1>13, TagFacts, IndefiniteIsValue, Zenon
<1> QED BY <1>1, <1>2, <1>3, <1>5, <1>7, <1>10, <1>11, <1>12, <1>13, <1>14, Zenon

\* The whole message.
LEMMA MessageForm ==
  ASSUME NEW parts, Signable(parts)
  PROVE  /\ FlattenSeq(<<SignedPart(parts)>>) = SignedPart(parts) /\ IsContents(SignedPart(parts))
         /\ IsValue(CarriedPart(parts))
         /\ FlattenSeq(<<ObjectIdentifier("signedData"), CarriedPart(parts)>>)
              = Cat(ObjectIdentifier("signedData"), CarriedPart(parts))
         /\ IsContents(Cat(ObjectIdentifier("signedData"), CarriedPart(parts)))
         /\ IsValue(ObjectIdentifier("signedData"))
         /\ IsValue(EncodeTurnkeySignedData(parts))
<1>1. PICK s, i : s = SignedPart(parts) /\ i = ObjectIdentifier("signedData")  OBVIOUS
<1>2. IsValue(s)  BY <1>1, ElementsForm, Zenon
<1>3. IsValue(i)  BY <1>1, SmallAreValues, Zenon
<1>4. PICK t, u : t = \h30 /\ u = \ha0 /\ t \in Constructed /\ u \in Constructed  BY TagFacts
<1>5. FlattenSeq(<<s>>) = s /\ IsContents(s) /\ IsValue(Indefinite(u, <<s>>))
  BY <1>2, <1>4, IndefiniteFew, Zenon
<1>6. PICK w : w = CarriedPart(parts)  OBVIOUS
<1>7. IsValue(w)  BY <1>1, <1>4, <1>5, <1>6, Zenon DEF CarriedPart
<1>8. /\ FlattenSeq(<<i, w>>) = Cat(i, w) /\ IsContents(Cat(i, w))
      /\ IsValue(Indefinite(t, <<i, w>>))
  BY <1>3, <1>4, <1>7, IndefiniteFew, Zenon
<1>9. IsValue(EncodeTurnkeySignedData(parts))
  BY <1>1, <1>4, <1>6, <1>8, EncodedParts, Zenon
<1> QED BY <1>1, <1>3, <1>5, <1>6, <1>7, <1>8, <1>9, Zenon

\* A value lies in itself.
LEMMA LiesInItself == ASSUME NEW v, IsSeq(v) PROVE Lies(v, 1, v)
<1>1. PICK l \in Nat : l = Len(v)  BY SeqLength
<1>2. \A i \in 1 .. l : 1 + i - 1 = i  OBVIOUS
<1>3. \A i \in 1 .. l : v[1 + i - 1] = v[i]  BY <1>2
<1>4. 1 \in Nat \ {0} /\ 1 + l <= l + 1  OBVIOUS
<1> QED BY <1>1, <1>3, <1>4 DEF Lies

\* The place of SignedData.
SignedPlace(cms) == Within(cms, Within(cms, 1, 2), 1)

\* It is found there, and so are its elements.
LEMMA SignedLies ==
  ASSUME NEW parts, Signable(parts), NEW cms, cms = EncodeTurnkeySignedData(parts)
  PROVE  /\ Lies(cms, Within(cms, SignedPlace(cms), 3), ContentPart(parts))
         /\ Lies(cms, Within(cms, SignedPlace(cms), 4), CertificatePart(parts))
         /\ Lies(cms, Within(cms, SignedPlace(cms), 5), SetOf(<<SignerPart(parts)>>))
<1>1. PICK t, u : t = \h30 /\ u = \ha0 /\ t \in Constructed /\ u \in Constructed  BY TagFacts
<1>2. Lies(cms, 1, cms)
  <2>1. IsValue(cms)  BY MessageForm, Zenon
  <2>2. IsSeq(cms)  BY <2>1, ValueFacts, Zenon
  <2> QED BY <2>2, LiesInItself, Zenon
<1>3. PICK i, w : i = ObjectIdentifier("signedData") /\ w = CarriedPart(parts)  OBVIOUS
<1>4. Lies(cms, 1, Indefinite(t, <<i, w>>))
  <2>1. cms = Indefinite(t, <<i, w>>)  BY <1>1, <1>3, EncodedParts, Zenon
  <2> QED BY <1>2, <2>1, Zenon
<1>5. /\ FlattenSeq(<<i, w>>) = Cat(i, w) /\ IsContents(Cat(i, w)) /\ IsValue(i) /\ IsValue(w)
  BY <1>3, MessageForm, Zenon
<1>6. Lies(cms, Inside(cms, 1), Cat(i, w))
  BY <1>1, <1>4, <1>5, IndefiniteBody, ZenonT(40)
<1>7. Lies(cms, Within(cms, 1, 2), w)
  <2>1. IsSeq(w)  BY <1>5, ValueFacts, Zenon
  <2> QED BY <1>5, <1>6, <2>1, PairWithin, Zenon
<1>8. PICK s : s = SignedPart(parts)  OBVIOUS
<1>9. PICK p : p = Within(cms, 1, 2)  OBVIOUS
<1>10. Lies(cms, p, Indefinite(u, <<s>>))
  BY <1>1, <1>3, <1>7, <1>8, <1>9, Zenon DEF CarriedPart
<1>11. FlattenSeq(<<s>>) = s /\ IsContents(s)  BY <1>8, MessageForm, Zenon
<1>12. Lies(cms, Inside(cms, p), s)
  <2>1. PICK few : few = <<s>>  OBVIOUS
  <2>2. FlattenSeq(few) = s /\ Lies(cms, p, Indefinite(u, few))  BY <1>10, <1>11, <2>1, Zenon
  <2> QED BY <1>1, <1>11, <2>2, IndefiniteBody
<1>13. PICK q : q = SignedPlace(cms)  OBVIOUS
<1>14. Lies(cms, q, s)
  <2>1. Within(cms, p, 1) = Inside(cms, p)  BY WithinStep
  <2>2. q = Inside(cms, p)  BY <1>9, <1>13, <2>1, Zenon DEF SignedPlace
  <2> QED BY <1>12, <2>2, Zenon
<1>15. PICK l, e : l = SignedList(parts) /\ e = SignedElements(parts)  OBVIOUS
<1>16. FlattenSeq(l) = e /\ IsContents(e) /\ s = Indefinite(t, l)
  BY <1>1, <1>8, <1>15, ElementsForm, Zenon
<1>17. Lies(cms, q, Indefinite(t, l))  BY <1>14, <1>16, Zenon
<1>18. Lies(cms, Inside(cms, q), e)
  BY <1>1, <1>16, <1>17, IndefiniteBody, ZenonT(40)
<1>19. PICK a, b, c, d, f :
        /\ a = IntegerOne /\ b = SetOf(<<DigestPart>>) /\ c = ContentPart(parts)
        /\ d = CertificatePart(parts) /\ f = SetOf(<<SignerPart(parts)>>)
  OBVIOUS
<1>20. IsValue(a) /\ IsValue(b) /\ IsValue(c) /\ IsValue(d) /\ IsSeq(f)
  <2>1. IsValue(a) /\ IsValue(b) /\ IsValue(f)  BY <1>19, ElementsForm, Zenon
  <2>2. IsValue(c) /\ IsValue(d)  BY <1>19, SignedForm, Zenon
  <2> QED BY <2>1, <2>2, ValueFacts, Zenon
<1>21. Lies(cms, Inside(cms, q), Cat(a, Cat(b, Cat(c, Cat(d, f)))))
  BY <1>15, <1>18, <1>19, Zenon DEF SignedElements
<1>22. /\ Lies(cms, Within(cms, q, 1), a) /\ Lies(cms, Within(cms, q, 2), b)
       /\ Lies(cms, Within(cms, q, 3), c) /\ Lies(cms, Within(cms, q, 4), d)
       /\ Lies(cms, Within(cms, q, 5), f)
  BY <1>20, <1>21, FiveWithin, ZenonT(60)
<1> QED BY <1>13, <1>19, <1>22, Zenon

\* Where the body of a definite value begins.
LEMMA TlvInside ==
  ASSUME NEW octets, NEW p, NEW tag, tag # 0, NEW body, IsSeq(body),
         Lies(octets, p, Tlv(tag, body))
  PROVE  Lies(octets, Inside(octets, p), body)
BY TlvBody

\* The message of these parts, and the place of the signer's part in it.
Encodes(cms, parts) == cms = EncodeTurnkeySignedData(parts)
SignerPlace(cms) == Within(cms, Within(cms, SignedPlace(cms), 5), 1)

\* The content and the certificate are read back.
LEMMA CarriedRead ==
  ASSUME NEW parts, Signable(parts), NEW cms, Encodes(cms, parts)
  PROVE  /\ Body(cms, Within(cms, Within(cms, Within(cms, SignedPlace(cms), 3), 2), 1), \h04)
              = parts.content
         /\ Body(cms, Within(cms, SignedPlace(cms), 4), \ha0) = parts.certificate
<1>1. PICK t, u : t = \h30 /\ u = \ha0 /\ t \in Constructed /\ u \in Constructed  BY TagFacts
<1>2. PICK p, q : /\ p = Within(cms, SignedPlace(cms), 3)
                  /\ q = Within(cms, SignedPlace(cms), 4)
  OBVIOUS
<1>3. Lies(cms, p, ContentPart(parts)) /\ Lies(cms, q, CertificatePart(parts))
  BY <1>2, SignedLies, Zenon DEF Encodes
<1>4. PICK i, w, o, c : /\ i = ObjectIdentifier("data") /\ w = WrappedPart(parts)
                        /\ o = OctetString(parts.content) /\ c = parts.certificate
  OBVIOUS
<1>5. /\ FlattenSeq(<<i, w>>) = Cat(i, w) /\ IsContents(Cat(i, w)) /\ IsValue(w) /\ IsValue(o)
      /\ FlattenSeq(<<o>>) = o /\ IsValue(c) /\ FlattenSeq(<<c>>) = c
  BY <1>4, SignedForm, Zenon
<1>6. IsValue(i)  BY <1>4, SmallAreValues, Zenon
<1>7. PICK two, one, only : two = <<i, w>> /\ one = <<o>> /\ only = <<c>>  OBVIOUS
<1>8. /\ FlattenSeq(two) = Cat(i, w) /\ FlattenSeq(one) = o /\ FlattenSeq(only) = c
  BY <1>5, <1>7, Zenon
<1>9. /\ ContentPart(parts) = Indefinite(t, two) /\ w = Indefinite(u, one)
      /\ CertificatePart(parts) = Indefinite(u, only)
  BY <1>1, <1>4, <1>7, Zenon DEF ContentPart, WrappedPart, CertificatePart
<1>10. Lies(cms, Inside(cms, p), Cat(i, w))
  <2>1. Lies(cms, p, Indefinite(t, two))  BY <1>3, <1>9, Zenon
  <2> QED BY <1>1, <1>5, <1>8, <2>1, IndefiniteBody
<1>11. IsSeq(w) /\ IsSeq(o) /\ IsContents(o) /\ IsContents(c)  BY <1>5, ValueFacts, Zenon
<1>12. Lies(cms, Within(cms, p, 2), w)  BY <1>6, <1>10, <1>11, PairWithin, Zenon
<1>13. PICK r : r = Within(cms, p, 2)  OBVIOUS
<1>14. Lies(cms, Inside(cms, r), o)
  <2>1. Lies(cms, r, Indefinite(u, one))  BY <1>9, <1>12, <1>13, Zenon
  <2> QED BY <1>1, <1>8, <1>11, <2>1, IndefiniteBody
<1>15. Within(cms, r, 1) = Inside(cms, r)  BY WithinStep
<1>16. o = Tlv(\h04, parts.content) /\ IsSeq(parts.content)
  BY <1>4, PartForms, Zenon DEF Signable
<1>17. Body(cms, Within(cms, r, 1), \h04) = parts.content
  <2>1. Lies(cms, Within(cms, r, 1), Tlv(\h04, parts.content))  BY <1>14, <1>15, <1>16, Zenon
  <2> QED BY <1>16, <2>1, TagFacts, TlvBody
<1>18. Body(cms, q, u) = c
  <2>1. Lies(cms, q, Indefinite(u, only))  BY <1>3, <1>9, Zenon
  <2> QED BY <1>1, <1>8, <1>11, <2>1, IndefiniteBody
<1> QED BY <1>1, <1>2, <1>4, <1>13, <1>17, <1>18, Zenon

\* The elements of the signer's part are found in their places.
LEMMA SignerLies ==
  ASSUME NEW parts, Signable(parts), NEW cms, Encodes(cms, parts)
  PROVE  /\ Lies(cms, Within(cms, SignerPlace(cms), 2), IdentityPart(parts))
         /\ Lies(cms, Within(cms, SignerPlace(cms), 4), AlgorithmIdentifier(parts.algorithm))
         /\ Lies(cms, Within(cms, SignerPlace(cms), 5), OctetString(parts.signature))
<1>1. PICK q, s : q = Within(cms, SignedPlace(cms), 5) /\ s = SignerPart(parts)  OBVIOUS
<1>2. Lies(cms, q, SetOf(<<s>>))  BY <1>1, SignedLies, Zenon DEF Encodes
<1>3. IsSeq(s)
  <2>1. IsValue(s)  BY <1>1, SignerForm, Zenon
  <2> QED BY <2>1, ValueFacts, Zenon
<1>4. Lies(cms, q, Tlv(\h31, s))
  <2>1. SetOf(<<s>>) = Tlv(\h31, s)  BY <1>3, PartForms, Zenon
  <2> QED BY <1>2, <2>1, Zenon
<1>5. Lies(cms, SignerPlace(cms), s)
  <2>1. Lies(cms, Inside(cms, q), s)
    <3>1. PICK t : t = \h31 /\ t # 0  BY TagFacts
    <3>2. Lies(cms, q, Tlv(t, s))  BY <1>4, <3>1, Zenon
    <3> QED BY <1>3, <3>1, <3>2, TlvInside, Zenon
  <2>2. Within(cms, q, 1) = Inside(cms, q)  BY WithinStep
  <2> QED BY <1>1, <2>1, <2>2, Zenon DEF SignerPlace
<1>6. PICK a, b, c, d, e : /\ a = IntegerOne /\ b = IdentityPart(parts) /\ c = DigestPart
                           /\ d = AlgorithmIdentifier(parts.algorithm)
                           /\ e = OctetString(parts.signature)
  OBVIOUS
<1>7. IsValue(a) /\ IsValue(b) /\ IsValue(c) /\ IsValue(d) /\ IsSeq(e)
  <2>1. IsValue(a)  BY <1>6, SmallAreValues, Zenon
  <2>2. IsValue(b)  BY <1>6, SignerForm, Zenon
  <2>3. IsValue(c) /\ IsValue(d)  BY <1>6, PartForms, Zenon DEF DigestPart
  <2>4. IsValue(e)  BY <1>6, PartForms, Zenon DEF Signable
  <2> QED BY <2>1, <2>2, <2>3, <2>4, ValueFacts, Zenon
<1>8. PICK x : x = Cat(a, Cat(b, Cat(c, Cat(d, e))))  OBVIOUS
<1>9. s = Tlv(\h30, x) /\ IsSeq(x)  BY <1>1, <1>6, <1>8, SignerForm, Zenon
<1>10. Lies(cms, Inside(cms, SignerPlace(cms)), x)
  <2>1. PICK t : t = \h30 /\ t # 0  BY TagFacts
  <2>2. Lies(cms, SignerPlace(cms), Tlv(t, x))  BY <1>5, <1>9, <2>1, Zenon
  <2> QED BY <1>9, <2>1, <2>2, TlvInside, Zenon
<1>11. Lies(cms, Inside(cms, SignerPlace(cms)), Cat(a, Cat(b, Cat(c, Cat(d, e)))))  BY <1>8, <1>10, Zenon
<1>12. /\ Lies(cms, Within(cms, SignerPlace(cms), 2), b) /\ Lies(cms, Within(cms, SignerPlace(cms), 4), d)
       /\ Lies(cms, Within(cms, SignerPlace(cms), 5), e)
  <2>1. PICK p : p = SignerPlace(cms)  OBVIOUS
  <2>2. Lies(cms, Inside(cms, p), Cat(a, Cat(b, Cat(c, Cat(d, e)))))  BY <1>11, <2>1, Zenon
  <2>3. /\ Lies(cms, Within(cms, p, 1), a) /\ Lies(cms, Within(cms, p, 2), b)
        /\ Lies(cms, Within(cms, p, 3), c) /\ Lies(cms, Within(cms, p, 4), d)
        /\ Lies(cms, Within(cms, p, 5), e)
    BY <1>7, <2>2, FiveWithin, ZenonT(60)
  <2> QED BY <2>1, <2>3, Zenon
<1> QED BY <1>6, <1>12, Zenon

\* What is read of the signer.
LEMMA SignerRead ==
  ASSUME NEW parts, Signable(parts), NEW cms, Encodes(cms, parts)
  PROVE  /\ Body(cms, Within(cms, Within(cms, SignerPlace(cms), 2), 1), \h30) = Body(parts.issuer, 1, \h30)
         /\ Positive(Body(cms, Within(cms, Within(cms, SignerPlace(cms), 2), 2), \h02))
         /\ Magnitude(Body(cms, Within(cms, Within(cms, SignerPlace(cms), 2), 2), \h02)) =
              Magnitude(parts.serial)
         /\ Body(cms, Within(cms, Within(cms, SignerPlace(cms), 4), 1), \h06) = <<<<"oid", parts.algorithm>>>>
         /\ Body(cms, Within(cms, SignerPlace(cms), 5), \h04) = parts.signature
<1>1. PICK i, a, s : /\ i = Within(cms, SignerPlace(cms), 2) /\ a = Within(cms, SignerPlace(cms), 4)
                     /\ s = Within(cms, SignerPlace(cms), 5)
  OBVIOUS
<1>2. /\ Lies(cms, i, IdentityPart(parts)) /\ Lies(cms, a, AlgorithmIdentifier(parts.algorithm))
      /\ Lies(cms, s, OctetString(parts.signature))
  BY <1>1, SignerLies, Zenon
<1>3. PICK iss, ser : iss = parts.issuer /\ ser = PositiveInteger(parts.serial)  OBVIOUS
<1>4. /\ IsValue(ser) /\ IsValue(iss) /\ IdentityPart(parts) = Tlv(\h30, Cat(iss, ser))
      /\ IsSeq(Cat(iss, ser)) /\ IsSeq(ser)
  <2>1. /\ IsValue(ser) /\ IsValue(iss) /\ IdentityPart(parts) = Tlv(\h30, Cat(iss, ser))
        /\ IsSeq(Cat(iss, ser))
    BY <1>3, SignerForm, Zenon
  <2> QED BY <2>1, ValueFacts, Zenon
<1>5. Lies(cms, Within(cms, i, 1), iss) /\ Lies(cms, Within(cms, i, 2), ser)
  <2>1. PICK x : x = Cat(iss, ser)  OBVIOUS
  <2>2. Lies(cms, i, Tlv(\h30, x)) /\ IsSeq(x)  BY <1>2, <1>4, <2>1, Zenon
  <2>3. Lies(cms, Inside(cms, i), x)
    <3>1. PICK t : t = \h30 /\ t # 0  BY TagFacts
    <3>2. Lies(cms, i, Tlv(t, x))  BY <2>2, <3>1, Zenon
    <3> QED BY <2>2, <3>1, <3>2, TlvInside, Zenon
  <2>4. Lies(cms, Inside(cms, i), Cat(iss, ser))  BY <2>1, <2>3, Zenon
  <2> QED BY <1>4, <2>4, PairWithin, Zenon
<1>6. Body(cms, Within(cms, i, 1), \h30) = Body(iss, 1, \h30)
  <2>1. IsDerSequence(iss)  BY <1>3 DEF Signable
  <2> QED BY <1>5, <2>1, DerIsValue, Zenon
<1>7. PICK x : /\ ser = Tlv(\h02, x) /\ IsSeq(x) /\ Positive(x)
               /\ Magnitude(x) = Magnitude(parts.serial)
  <2>1. parts.serial \in Seq(Octets)  BY DEF Signable
  <2> HIDE DEF Octets
  <2> QED BY <1>3, <2>1, PositiveRead, Zenon
<1>8. Body(cms, Within(cms, i, 2), \h02) = x
  <2>1. Lies(cms, Within(cms, i, 2), Tlv(\h02, x))  BY <1>5, <1>7, Zenon
  <2> QED BY <1>7, <2>1, TagFacts, TlvBody
<1>9. Body(cms, Within(cms, a, 1), \h06) = <<<<"oid", parts.algorithm>>>>
  <2>1. PICK o, n, y : /\ o = ObjectIdentifier(parts.algorithm) /\ n = NullOctets
                       /\ y = <<<<"oid", parts.algorithm>>>>
    OBVIOUS
  <2>2. IsValue(o) /\ IsValue(n)  BY <2>1, SmallAreValues, Zenon DEF NullOctets
  <2>3. IsSeq(n)  BY <2>2, ValueFacts, Zenon
  <2>4. PICK z : z = Cat(o, n)  OBVIOUS
  <2>5. AlgorithmIdentifier(parts.algorithm) = Tlv(\h30, z) /\ IsSeq(z)
    BY <2>1, <2>4, PartForms, Zenon
  <2>6. Lies(cms, a, Tlv(\h30, z))  BY <1>2, <2>5, Zenon
  <2>7. Lies(cms, Inside(cms, a), z)
    <3>1. PICK t : t = \h30 /\ t # 0  BY TagFacts
    <3>2. Lies(cms, a, Tlv(t, z))  BY <2>6, <3>1, Zenon
    <3> QED BY <2>5, <3>1, <3>2, TlvInside, Zenon
  <2>8. Lies(cms, Inside(cms, a), Cat(o, n))  BY <2>4, <2>7, Zenon
  <2>9. Lies(cms, Within(cms, a, 1), o)  BY <2>2, <2>3, <2>8, PairWithin, Zenon
  <2>10. o = Tlv(6, y)  BY <2>1, SmallValues, Zenon
  <2>11. IsSeq(y)  BY <2>1, OneIsSeq, Zenon
  <2>12. Lies(cms, Within(cms, a, 1), Tlv(6, y)) /\ 6 # 0  BY <2>9, <2>10
  <2>13. Body(cms, Within(cms, a, 1), 6) = y  BY <2>11, <2>12, TlvBody
  <2> QED BY <2>1, <2>13, TagFacts, Zenon
<1>10. Body(cms, s, \h04) = parts.signature
  <2>1. OctetString(parts.signature) = Tlv(\h04, parts.signature) /\ IsSeq(parts.signature)
    BY PartForms, Zenon DEF Signable
  <2>2. Lies(cms, s, Tlv(\h04, parts.signature))  BY <1>2, <2>1, Zenon
  <2> QED BY <2>1, <2>2, TagFacts, TlvBody
<1> QED BY <1>1, <1>3, <1>6, <1>7, <1>8, <1>9, <1>10, Zenon

\* A reader of the standard finds in the message what was put into it.
LEMMA SignedDataRead ==
  ASSUME NEW parts, Signable(parts), NEW cms, Encodes(cms, parts)
  PROVE  LET s == ReadSignedData(cms)
         IN  /\ s.content = parts.content /\ s.certificate = parts.certificate
             /\ s.issuer = Body(parts.issuer, 1, \h30)
             /\ Positive(s.serial) /\ Magnitude(s.serial) = Magnitude(parts.serial)
             /\ s.algorithm = <<<<"oid", parts.algorithm>>>> /\ s.signature = parts.signature
<1>1. PICK p : p = SignerPlace(cms)  OBVIOUS
<1>2. PICK q, c : q = SignedPlace(cms) /\ c = Within(cms, q, 3)  OBVIOUS
<1>3. ReadSignedData(cms) =
        [content     |-> Body(cms, Within(cms, Within(cms, c, 2), 1), \h04),
         certificate |-> Body(cms, Within(cms, q, 4), \ha0),
         issuer      |-> Body(cms, Within(cms, Within(cms, p, 2), 1), \h30),
         serial      |-> Body(cms, Within(cms, Within(cms, p, 2), 2), \h02),
         algorithm   |-> Body(cms, Within(cms, Within(cms, p, 4), 1), \h06),
         signature   |-> Body(cms, Within(cms, p, 5), \h04)]
  BY <1>1, <1>2, Zenon DEF ReadSignedData, SignedPlace, SignerPlace
<1>4. /\ Body(cms, Within(cms, Within(cms, c, 2), 1), \h04) = parts.content
      /\ Body(cms, Within(cms, q, 4), \ha0) = parts.certificate
  BY <1>2, CarriedRead, Zenon
<1>5. /\ Body(cms, Within(cms, Within(cms, p, 2), 1), \h30) = Body(parts.issuer, 1, \h30)
      /\ Positive(Body(cms, Within(cms, Within(cms, p, 2), 2), \h02))
      /\ Magnitude(Body(cms, Within(cms, Within(cms, p, 2), 2), \h02)) = Magnitude(parts.serial)
      /\ Body(cms, Within(cms, Within(cms, p, 4), 1), \h06) = <<<<"oid", parts.algorithm>>>>
      /\ Body(cms, Within(cms, p, 5), \h04) = parts.signature
  BY <1>1, SignerRead, Zenon
<1>6. PICK b1, b2, b3, b4, b5, b6 :
        /\ b1 = Body(cms, Within(cms, Within(cms, c, 2), 1), \h04)
        /\ b2 = Body(cms, Within(cms, q, 4), \ha0)
        /\ b3 = Body(cms, Within(cms, Within(cms, p, 2), 1), \h30)
        /\ b4 = Body(cms, Within(cms, Within(cms, p, 2), 2), \h02)
        /\ b5 = Body(cms, Within(cms, Within(cms, p, 4), 1), \h06)
        /\ b6 = Body(cms, Within(cms, p, 5), \h04)
  OBVIOUS
<1>7. PICK r : r = ReadSignedData(cms)  OBVIOUS
<1>8. r = [content |-> b1, certificate |-> b2, issuer |-> b3, serial |-> b4,
           algorithm |-> b5, signature |-> b6]
  BY <1>3, <1>6, <1>7, Zenon
<1>9. /\ r.content = b1 /\ r.certificate = b2 /\ r.issuer = b3 /\ r.serial = b4
      /\ r.algorithm = b5 /\ r.signature = b6
  BY <1>8
<1> QED BY <1>4, <1>5, <1>6, <1>7, <1>9, Zenon

-----------------------------------------------------------------------------
(* The armor *)

\* Characters and lines: how long the armored text is, and where its
\* characters are.
LEMMA LineNumbers ==
  ASSUME NEW e \in Nat, NEW t \in Nat,
         t = (e + e \div 64) + (IF e % 64 = 0 THEN 0 ELSE 1)
  PROVE  /\ t - (t + 64) \div 65 = e
         /\ t % 65 # 1
         /\ e % 64 = 0 /\ e # 0 => t % 65 = 0
         /\ e % 64 # 0 => t = (e + e \div 64) + 1
<1>1. PICK b \in Nat, r \in 0 .. 63 : e = 64 * b + r /\ b = e \div 64 /\ r = e % 64
  OBVIOUS
<1>2. CASE r = 0
  <2>1. t = 65 * b  BY <1>1, <1>2
  <2>2. (t + 64) \div 65 = b  BY <2>1
  <2>3. t % 65 = 0  BY <2>1
  <2> QED BY <1>1, <1>2, <2>1, <2>2, <2>3
<1>3. CASE r # 0
  <2>1. t = 65 * b + (r + 1)  BY <1>1, <1>3
  <2>2. (t + 64) \div 65 = b + 1  BY <1>1, <1>3, <2>1
  <2>3. t % 65 # 1
    <3>1. CASE r = 63 \/ r < 63
      BY <1>3, <2>1
    <3> QED BY <3>1
  <2> QED BY <1>1, <1>3, <2>1, <2>2, <2>3
<1> QED BY <1>2, <1>3

\* Where the k-th character is.
LEMMA CharacterPlaces ==
  ASSUME NEW e \in Nat, NEW k \in 1 .. e
  PROVE  /\ k + (k - 1) \div 64 \in 1 .. e + e \div 64
         /\ (k + (k - 1) \div 64) % 65 # 0
         /\ (k + (k - 1) \div 64) - (k + (k - 1) \div 64) \div 65 = k
<1>1. PICK b \in Nat, r \in 0 .. 63 : k = (64 * b + r) + 1 /\ b = (k - 1) \div 64
  <2>1. k - 1 \in Nat  OBVIOUS
  <2> QED BY <2>1
<1>2. k + (k - 1) \div 64 = 65 * b + (r + 1)  BY <1>1
<1>3. (65 * b + (r + 1)) % 65 # 0 /\ (65 * b + (r + 1)) \div 65 = b
  OBVIOUS
<1>4. b <= e \div 64  BY <1>1
<1> QED BY <1>1, <1>2, <1>3, <1>4

\* What is at a place of the lines.
LEMMA PlaceCharacters ==
  ASSUME NEW e \in Nat, NEW i \in 1 .. e + e \div 64, i % 65 # 0
  PROVE  i - i \div 65 \in 1 .. e
<1>1. PICK b \in Nat, r \in 0 .. 64 : i = 65 * b + r /\ b = i \div 65 /\ r = i % 65
  OBVIOUS
<1>2. PICK c \in Nat, s \in 0 .. 63 : e = 64 * c + s /\ c = e \div 64
  OBVIOUS
<1>3. i - i \div 65 = 64 * b + r /\ r >= 1  BY <1>1
<1>4. 65 * b + r <= 65 * c + s  BY <1>1, <1>2
<1>5. 64 * b + r <= 64 * c + s
  <2>1. CASE b <= c  BY <1>4, <2>1
  <2>2. CASE b > c
    <3>1. 65 * b >= 65 * c + 65  BY <2>2
    <3> QED BY <1>4, <3>1
  <2> QED BY <2>1, <2>2
<1> QED BY <1>2, <1>3, <1>5

\* Groups of three octets and of four characters.
LEMMA GroupNumbers ==
  ASSUME NEW l \in Nat, l >= 1
  PROVE  LET n == (l + 2) \div 3
         IN  /\ n \in Nat /\ n >= 1 /\ (4 * n) \div 4 = n
             /\ 3 * (n - 1) < l /\ l <= 3 * n
             /\ \A g \in 1 .. n : /\ 4 * g - 3 \in 1 .. 4 * n /\ (4 * g - 3) % 4 = 1
                                  /\ ((4 * g - 3) + 3) \div 4 = g
             /\ \A g \in 1 .. n - 1 : 3 * g < l
             /\ ~ (3 * n < l)
             /\ \A i \in 1 .. l : /\ (i + 2) \div 3 \in 1 .. n /\ (i - 1) % 3 \in 0 .. 2
                                  /\ (3 * ((i + 2) \div 3) - 2) + ((i - 1) % 3) = i
<1>1. PICK n \in Nat : n = (l + 2) \div 3  OBVIOUS
<1>2. n >= 1 /\ 3 * (n - 1) < l /\ l <= 3 * n /\ (4 * n) \div 4 = n  BY <1>1
<1>3. \A g \in 1 .. n : /\ 4 * g - 3 \in 1 .. 4 * n /\ (4 * g - 3) % 4 = 1
                        /\ ((4 * g - 3) + 3) \div 4 = g
  OBVIOUS
<1>4. \A g \in 1 .. n - 1 : 3 * g < l  BY <1>2
<1>5. ~ (3 * n < l)  BY <1>2
<1>6. \A i \in 1 .. l : /\ (i + 2) \div 3 \in 1 .. n /\ (i - 1) % 3 \in 0 .. 2
                        /\ (3 * ((i + 2) \div 3) - 2) + ((i - 1) % 3) = i
  <2> TAKE i \in 1 .. l
  <2>1. PICK j \in Nat : j = i - 1  OBVIOUS
  <2>2. PICK b \in Nat, r \in 0 .. 2 : j = 3 * b + r /\ b = j \div 3 /\ r = j % 3  OBVIOUS
  <2>3. (i + 2) \div 3 = b + 1  BY <2>1, <2>2
  <2>4. (i - 1) % 3 = r  BY <2>1, <2>2
  <2>5. b + 1 <= n  BY <1>2, <2>1, <2>2
  <2> QED BY <2>1, <2>2, <2>3, <2>4, <2>5
<1> QED BY <1>1, <1>2, <1>3, <1>4, <1>5, <1>6

\* The characters of Base64.
LEMMA Base64Facts ==
  ASSUME NEW o, NEW l \in Nat, NEW n \in Nat, n = (l + 2) \div 3, l = Len(o), l >= 1
  PROVE  /\ IsSeq(Base64(o)) /\ Len(Base64(o)) = 4 * n
         /\ \A i \in 1 .. 4 * n : Base64(o)[i] # LineFeed
         /\ \A g \in 1 .. n : Base64(o)[4 * g - 3][2] = Group(o, g)
<1>1. PICK e : e = Base64(o)  OBVIOUS
<1>2. e = [i \in 1 .. 4 * n |->
             <<(i - 1) % 4, IF i % 4 = 1 THEN Group(o, (i + 3) \div 4) ELSE <<>>>>]
  BY <1>1 DEF Base64
<1>3. DOMAIN e = 1 .. 4 * n /\ e = [i \in 1 .. 4 * n |-> e[i]] /\ 4 * n \in Nat
  <2>1. 4 * n \in Nat  OBVIOUS
  <2>2. \A f, S : f = [i \in S |-> f[i]] => DOMAIN f = S  OBVIOUS
  <2> DEFINE At(i) == <<(i - 1) % 4, IF i % 4 = 1 THEN Group(o, (i + 3) \div 4) ELSE <<>>>>
  <2>3. e = [i \in 1 .. 4 * n |-> At(i)]  BY <1>2
  <2> HIDE DEF At
  <2>4. e = [i \in 1 .. 4 * n |-> e[i]]  BY <2>3
  <2> QED BY <2>1, <2>2, <2>4
<1>4. e \in Seq({e[i] : i \in 1 .. 4 * n}) /\ Len(e) = 4 * n
  <2>1. PICK T : T = {e[i] : i \in 1 .. 4 * n}  OBVIOUS
  <2>2. e \in [1 .. 4 * n -> T]  BY <1>3, <2>1
  <2>3. e \in Seq(T) /\ Len(e) = 4 * n  BY <1>3, <2>2
  <2> QED BY <2>1, <2>3
<1>5. \A i \in 1 .. 4 * n : e[i] # LineFeed
  <2> TAKE i \in 1 .. 4 * n
  <2>1. e[i][1] = (i - 1) % 4  BY <1>2
  <2>2. (i - 1) % 4 # 4  OBVIOUS
  <2>3. LineFeed[1] = 4  BY DEF LineFeed
  <2> QED BY <2>1, <2>2, <2>3
<1>6. \A g \in 1 .. n : e[4 * g - 3][2] = Group(o, g)
  <2> TAKE g \in 1 .. n
  <2>1. /\ 4 * g - 3 \in 1 .. 4 * n /\ (4 * g - 3) % 4 = 1
        /\ ((4 * g - 3) + 3) \div 4 = g
    OBVIOUS
  <2>2. PICK i \in 1 .. 4 * n : i = 4 * g - 3  BY <2>1
  <2>3. e[i][2] = IF i % 4 = 1 THEN Group(o, (i + 3) \div 4) ELSE <<>>  BY <1>2
  <2>4. i % 4 = 1 /\ (i + 3) \div 4 = g  BY <2>1, <2>2
  <2> QED BY <2>2, <2>3, <2>4
<1>7. IsSeq(e)  BY <1>4 DEF IsSeq
<1> QED BY <1>1, <1>4, <1>5, <1>6, <1>7

\* Lines of these characters.
Lines(e) == IF Len(e) % 64 = 0 THEN FullLines(e) ELSE Append(FullLines(e), LineFeed)

\* The characters and the line feeds are where the reader looks for them.
LEMMA LinesRead ==
  ASSUME NEW e, IsSeq(e), NEW m \in Nat, m = Len(e), m # 0,
         \A i \in 1 .. m : e[i] # LineFeed
  PROVE  /\ IsSeq(Lines(e)) /\ IsArmored(Lines(e))
         /\ [k \in 1 .. Len(Lines(e)) - (Len(Lines(e)) + 64) \div 65 |->
               Lines(e)[k + (k - 1) \div 64]] = e
<1>1. PICK f, c : f = FullLines(e) /\ c = m \div 64  OBVIOUS
<1>2. f = [i \in 1 .. m + c |-> IF i % 65 = 0 THEN LineFeed ELSE e[i - i \div 65]]
  BY <1>1 DEF FullLines
<1>3. c \in Nat  BY <1>1
<1>4. PICK U : f \in Seq(U) /\ LineFeed \in U /\ Len(f) = m + c
  <2>1. PICK T : T = {f[i] : i \in 1 .. m + c} \cup {LineFeed}  OBVIOUS
  <2>2. f \in [1 .. m + c -> T] /\ m + c \in Nat  BY <1>2, <1>3, <2>1
  <2>3. f \in Seq(T) /\ Len(f) = m + c  BY <2>2
  <2> QED BY <2>1, <2>3
<1>5. PICK t \in Nat : t = (m + c) + (IF m % 64 = 0 THEN 0 ELSE 1)
  <2>1. (m + c) + (IF m % 64 = 0 THEN 0 ELSE 1) \in Nat  BY <1>3
  <2> QED BY <2>1
<1>6. PICK text : text = Lines(e)  OBVIOUS
<1>7. /\ text \in Seq(U) /\ Len(text) = t /\ DOMAIN text = 1 .. t
      /\ \A i \in 1 .. m + c : text[i] = f[i]
      /\ m % 64 # 0 => text[t] = LineFeed
  <2>1. CASE m % 64 = 0
    <3>1. text = f /\ t = m + c  BY <1>1, <1>3, <1>5, <1>6, <2>1 DEF Lines
    <3> QED BY <1>4, <2>1, <3>1
  <2>2. CASE m % 64 # 0
    <3>1. text = Append(f, LineFeed) /\ t = (m + c) + 1  BY <1>1, <1>3, <1>5, <1>6, <2>2 DEF Lines
    <3>2. PICK feed \in U : feed = LineFeed  BY <1>4
    <3>3. text = Append(f, feed)  BY <3>1, <3>2
    <3>4. text \in Seq(U) /\ Len(text) = t  BY <1>4, <3>1, <3>3, AppendType
    <3>5. \A i \in 1 .. m + c : text[i] = f[i]  BY <1>3, <1>4, <3>3
    <3>6. text[t] = feed  BY <1>3, <1>4, <3>1, <3>3
    <3> QED BY <3>2, <3>4, <3>5, <3>6
  <2> QED BY <2>1, <2>2
<1>8. /\ t - (t + 64) \div 65 = m /\ t % 65 # 1
      /\ m % 64 = 0 => t % 65 = 0
      /\ m % 64 # 0 => t = (m + c) + 1
  <2>1. t = (m + m \div 64) + (IF m % 64 = 0 THEN 0 ELSE 1)  BY <1>1, <1>5
  <2>2. /\ t - (t + 64) \div 65 = m /\ t % 65 # 1
        /\ m % 64 = 0 /\ m # 0 => t % 65 = 0
        /\ m % 64 # 0 => t = (m + m \div 64) + 1
    BY <2>1, LineNumbers
  <2> QED BY <1>1, <2>2
<1>9. ASSUME NEW i \in 1 .. m + c
      PROVE  (text[i] = LineFeed) = (i % 65 = 0)
  <2>1. CASE i % 65 = 0  BY <1>2, <1>7, <2>1
  <2>2. CASE i % 65 # 0
    <3>1. i - i \div 65 \in 1 .. m  BY <1>1, <2>2, PlaceCharacters
    <3>2. text[i] = e[i - i \div 65]  BY <1>2, <1>7, <2>2
    <3> QED BY <2>2, <3>1, <3>2
  <2> QED BY <2>1, <2>2
<1>10. IsArmored(text)
  <2>1. ASSUME NEW i \in 1 .. t
        PROVE  (text[i] = LineFeed) = (i % 65 = 0 \/ i = t)
    <3>1. CASE m % 64 = 0
      <4>1. i \in 1 .. m + c /\ t % 65 = 0  BY <1>3, <1>5, <1>8, <3>1
      <4> QED BY <1>9, <4>1
    <3>2. CASE m % 64 # 0
      <4>1. t = (m + c) + 1 /\ text[t] = LineFeed  BY <1>7, <1>8, <3>2
      <4>2. CASE i = t  BY <4>1, <4>2
      <4>3. CASE i # t
        <5>1. i \in 1 .. m + c  BY <1>3, <4>1, <4>3
        <5> QED BY <1>9, <4>3, <5>1
      <4> QED BY <4>2, <4>3
    <3> QED BY <3>1, <3>2
  <2> QED BY <1>7, <1>8, <2>1 DEF IsArmored
<1>11. \A k \in 1 .. m : text[k + (k - 1) \div 64] = e[k]
  <2> TAKE k \in 1 .. m
  <2>1. PICK i : i = k + (k - 1) \div 64  OBVIOUS
  <2>2. i \in 1 .. m + c /\ i % 65 # 0 /\ i - i \div 65 = k
    BY <1>1, <2>1, CharacterPlaces
  <2>3. text[i] = e[i - i \div 65]  BY <1>2, <1>7, <2>2
  <2> QED BY <2>1, <2>2, <2>3
<1>12. [k \in 1 .. Len(text) - (Len(text) + 64) \div 65 |-> text[k + (k - 1) \div 64]] = e
  <2>1. PICK T : e \in Seq(T)  BY DEF IsSeq
  <2>2. e = [k \in 1 .. m |-> e[k]]  BY <2>1
  <2>3. Len(text) - (Len(text) + 64) \div 65 = m  BY <1>7, <1>8
  <2> QED BY <1>11, <2>2, <2>3
<1>13. IsSeq(text)  BY <1>7 DEF IsSeq
<1> QED BY <1>6, <1>10, <1>12, <1>13

\* The groups hold the octets, three by three.
LEMMA GroupsHold ==
  ASSUME NEW o, IsSeq(o), NEW l \in Nat, NEW n \in Nat, n = (l + 2) \div 3, l = Len(o), l >= 1
  PROVE  /\ \A g \in 1 .. n - 1 : Len(Group(o, g)) = 3
         /\ 3 * (n - 1) + Len(Group(o, n)) = l
         /\ \A i \in 1 .. l : Group(o, (i + 2) \div 3)[((i - 1) % 3) + 1] = o[i]
<1>1. PICK T : o \in Seq(T)  BY DEF IsSeq
<1>2. /\ n >= 1 /\ 3 * (n - 1) < l /\ l <= 3 * n
      /\ \A g \in 1 .. n - 1 : 3 * g < l
      /\ ~ (3 * n < l)
      /\ \A i \in 1 .. l : /\ (i + 2) \div 3 \in 1 .. n /\ (i - 1) % 3 \in 0 .. 2
                           /\ (3 * ((i + 2) \div 3) - 2) + ((i - 1) % 3) = i
  BY GroupNumbers
<1>3. ASSUME NEW g \in 1 .. n - 1
      PROVE  /\ Len(Group(o, g)) = 3
             /\ \A j \in 1 .. 3 : Group(o, g)[j] = o[(3 * g - 2) + j - 1]
  <2>1. Group(o, g) = SubSeq(o, 3 * g - 2, 3 * g)  BY <1>2 DEF Group
  <2>2. PICK a \in Nat, b \in Nat : a = 3 * g - 2 /\ b = 3 * g /\ 1 <= a /\ b <= l /\ (b - a) + 1 = 3
    <3>1. 3 * g - 2 \in Nat /\ 3 * g \in Nat /\ 1 <= 3 * g - 2 /\ 3 * g <= l
          /\ (3 * g - (3 * g - 2)) + 1 = 3
      BY <1>2
    <3> QED BY <3>1
  <2>3. 3 \in Nat  OBVIOUS
  <2> QED BY <1>1, <2>1, <2>2, <2>3, PartOfSeq
<1>4. PICK r \in Nat : r = l - 3 * (n - 1) /\ r >= 1
  <2>1. l - 3 * (n - 1) \in Nat /\ l - 3 * (n - 1) >= 1  BY <1>2
  <2> QED BY <2>1
<1>5. /\ Len(Group(o, n)) = r
      /\ \A j \in 1 .. r : Group(o, n)[j] = o[(3 * n - 2) + j - 1]
  <2>1. Group(o, n) = SubSeq(o, 3 * n - 2, l)  BY <1>2 DEF Group
  <2>2. PICK a \in Nat : a = 3 * n - 2 /\ 1 <= a /\ l <= l /\ (l - a) + 1 = r
    <3>1. n >= 1 /\ r = l - 3 * (n - 1)  BY <1>2, <1>4
    <3>2. 3 * n - 2 \in Nat /\ 1 <= 3 * n - 2 /\ (l - (3 * n - 2)) + 1 = r  BY <3>1
    <3>3. l <= l  OBVIOUS
    <3> QED BY <3>2, <3>3
  <2>3. /\ Len(SubSeq(o, a, l)) = r
        /\ \A j \in 1 .. r : SubSeq(o, a, l)[j] = o[a + j - 1]
    BY <1>1, <2>2, PartOfSeq
  <2> QED BY <2>1, <2>2, <2>3
<1>6. ASSUME NEW i \in 1 .. l
      PROVE  Group(o, (i + 2) \div 3)[((i - 1) % 3) + 1] = o[i]
  <2>1. PICK g \in 1 .. n, j \in 0 .. 2 :
          /\ g = (i + 2) \div 3 /\ j = (i - 1) % 3 /\ (3 * g - 2) + j = i
    <3>1. /\ (i + 2) \div 3 \in 1 .. n /\ (i - 1) % 3 \in 0 .. 2
          /\ (3 * ((i + 2) \div 3) - 2) + ((i - 1) % 3) = i
      BY <1>2
    <3> QED BY <3>1
  <2>2. (3 * g - 2) + (j + 1) - 1 = i  BY <2>1
  <2>3. CASE g \in 1 .. n - 1
    <3>1. j + 1 \in 1 .. 3  OBVIOUS
    <3>2. Group(o, g)[j + 1] = o[(3 * g - 2) + (j + 1) - 1]  BY <1>3, <2>3, <3>1
    <3> QED BY <2>1, <2>2, <3>2
  <2>4. CASE g = n
    <3>1. j + 1 \in 1 .. r  BY <1>4, <2>1, <2>4
    <3>2. Group(o, g)[j + 1] = o[(3 * g - 2) + (j + 1) - 1]  BY <1>5, <2>4, <3>1
    <3> QED BY <2>1, <2>2, <3>2
  <2> QED BY <2>3, <2>4
<1>7. 3 * (n - 1) + r = l  BY <1>4
<1> QED BY <1>3, <1>5, <1>6, <1>7

\* What DecodeArmor does with the characters.
DecodeGroups(text, encoded) ==
  LET groups  == Len(encoded) \div 4
      Octs(g) == encoded[4 * g - 3][2]
  IN  IF ~ IsArmored(text) \/ groups = 0
         \/ \E g \in 1 .. groups - 1 : Len(Octs(g)) # 3 THEN <<>>
      ELSE [i \in 1 .. 3 * (groups - 1) + Len(Octs(groups)) |->
              Octs((i + 2) \div 3)[((i - 1) % 3) + 1]]

\* What is armored is read back, whatever its length.
LEMMA ArmorReadBack ==
  ASSUME NEW o, IsSeq(o), o # <<>>
  PROVE  DecodeArmor(ToTurnkeyArmored(o)) = o /\ IsSeq(ToTurnkeyArmored(o))
<1>1. PICK l \in Nat : l = Len(o) /\ l >= 1
  <2>1. PICK T : o \in Seq(T)  BY DEF IsSeq
  <2>2. Len(o) \in Nat /\ Len(o) # 0  BY <2>1
  <2> QED BY <2>2
<1>2. PICK n \in Nat : n = (l + 2) \div 3 /\ n >= 1 /\ (4 * n) \div 4 = n
  <2>1. (l + 2) \div 3 \in Nat /\ (l + 2) \div 3 >= 1  BY <1>1
  <2>2. (4 * ((l + 2) \div 3)) \div 4 = (l + 2) \div 3  OBVIOUS
  <2> QED BY <2>1, <2>2
<1>3. PICK e : e = Base64(o)  OBVIOUS
<1>4. /\ IsSeq(e) /\ Len(e) = 4 * n
      /\ \A i \in 1 .. 4 * n : e[i] # LineFeed
      /\ \A g \in 1 .. n : e[4 * g - 3][2] = Group(o, g)
  BY <1>1, <1>2, <1>3, Base64Facts
<1>5. PICK text : text = Lines(e)  OBVIOUS
<1>6. text = ToTurnkeyArmored(o)  BY <1>3, <1>5, Zenon DEF ToTurnkeyArmored, Lines
<1>7. /\ IsSeq(text) /\ IsArmored(text)
      /\ [k \in 1 .. Len(text) - (Len(text) + 64) \div 65 |-> text[k + (k - 1) \div 64]] = e
  <2>1. PICK m \in Nat : m = 4 * n /\ m # 0  BY <1>2
  <2> QED BY <1>4, <1>5, <2>1, LinesRead
<1>8. /\ \A g \in 1 .. n - 1 : Len(Group(o, g)) = 3
      /\ 3 * (n - 1) + Len(Group(o, n)) = l
      /\ \A i \in 1 .. l : Group(o, (i + 2) \div 3)[((i - 1) % 3) + 1] = o[i]
  BY <1>1, <1>2, GroupsHold, ZenonT(40)
<1> DEFINE groups == Len(e) \div 4
           Octs(g) == e[4 * g - 3][2]
           read == [i \in 1 .. 3 * (groups - 1) + Len(Octs(groups)) |->
                      Octs((i + 2) \div 3)[((i - 1) % 3) + 1]]
<1>9. DecodeArmor(text) =
        IF ~ IsArmored(text) \/ groups = 0 \/ \E g \in 1 .. groups - 1 : Len(Octs(g)) # 3
        THEN <<>> ELSE read
  <2>2. DecodeArmor(text) =
          DecodeGroups(text, [k \in 1 .. Len(text) - (Len(text) + 64) \div 65 |->
                                text[k + (k - 1) \div 64]])
    BY Zenon DEF DecodeArmor, DecodeGroups
  <2>3. DecodeArmor(text) = DecodeGroups(text, e)  BY <1>7, <2>2, Zenon
  <2> QED BY <2>3, Zenon DEF DecodeGroups
<1>10. groups = n  BY <1>2, <1>4
<1>11. \A g \in 1 .. n : Octs(g) = Group(o, g)  BY <1>4
<1>12. ~ \E g \in 1 .. groups - 1 : Len(Octs(g)) # 3
  <2>1. \A g \in 1 .. n - 1 : g \in 1 .. n  OBVIOUS
  <2> HIDE DEF groups, Octs
  <2> QED BY <1>8, <1>10, <1>11, <2>1
<1>13. read = o
  <2>1. 3 * (groups - 1) + Len(Octs(groups)) = l
    <3>1. n \in 1 .. n  BY <1>2
    <3> HIDE DEF groups, Octs
    <3> QED BY <1>8, <1>10, <1>11, <3>1
  <2>2. \A i \in 1 .. l : Octs((i + 2) \div 3)[((i - 1) % 3) + 1] = o[i]
    <3> TAKE i \in 1 .. l
    <3>1. (i + 2) \div 3 \in 1 .. n  BY <1>2
    <3> HIDE DEF groups, Octs
    <3> QED BY <1>8, <1>11, <3>1
  <2>3. o = [i \in 1 .. l |-> o[i]]
    <3>1. PICK T : o \in Seq(T)  BY DEF IsSeq
    <3> QED BY <1>1, <3>1
  <2> HIDE DEF groups, Octs
  <2> QED BY <2>1, <2>2, <2>3
<1>14. DecodeArmor(text) = o
  <2>1. groups # 0  BY <1>2, <1>10
  <2> HIDE DEF groups, Octs, read
  <2> QED BY <1>7, <1>9, <1>12, <1>13, <2>1
<1> QED BY <1>6, <1>7, <1>14

-----------------------------------------------------------------------------
(* What is written is a sequence of tokens *)

\* Something at each place of a sequence is one again.
LEMMA MappedIsSeq ==
  ASSUME NEW s, IsSeq(s), NEW m, DOMAIN m = DOMAIN s, m = [i \in DOMAIN s |-> m[i]]
  PROVE  IsSeq(m) /\ Len(m) = Len(s)
<1>1. PICK n \in Nat : n = Len(s) /\ DOMAIN s = 1 .. n  BY SeqOfPlaces
<1>2. m = [i \in 1 .. n |-> m[i]]  BY <1>1
<1> QED BY <1>1, <1>2, PlacesSeq

\* Sequences one after the other are one sequence.
LEMMA FlattenIsSeq ==
  ASSUME NEW seqs, IsSeq(seqs), \A i \in DOMAIN seqs : IsSeq(seqs[i])
  PROVE  IsSeq(FlattenSeq(seqs))
<1>1. PICK n \in Nat : n = Len(seqs) /\ DOMAIN seqs = 1 .. n /\ seqs = [i \in 1 .. n |-> seqs[i]]
  BY SeqOfPlaces
<1>2. PICK T : T = UNION {{seqs[i][j] : j \in DOMAIN seqs[i]} : i \in 1 .. n}  OBVIOUS
<1>3. ASSUME NEW i \in 1 .. n  PROVE seqs[i] \in Seq(T)
  <2>1. PICK s : s = seqs[i]  OBVIOUS
  <2>2. PICK m \in Nat : m = Len(s) /\ DOMAIN s = 1 .. m /\ s = [j \in 1 .. m |-> s[j]]
    <3>1. IsSeq(s)  BY <1>1, <1>3, <2>1
    <3> QED BY <3>1, SeqOfPlaces
  <2>3. \A j \in 1 .. m : s[j] \in T  BY <1>2, <1>3, <2>1, <2>2
  <2>4. s \in [1 .. m -> T]  BY <2>2, <2>3
  <2> QED BY <2>1, <2>4
<1>4. seqs \in Seq(Seq(T))
  <2>1. seqs \in [1 .. n -> Seq(T)]  BY <1>1, <1>3
  <2> QED BY <2>1
<1>5. <<>> \in Seq(T)  OBVIOUS
<1> QED BY <1>4, <1>5, FlattenAdd

\* So is an element around one.
LEMMA ElementIsSeq ==
  ASSUME NEW tag, NEW content, IsSeq(content)
  PROVE  IsSeq(Element(tag, content))
<1>1. PICK open, close : open = << <<"<", tag>> >> /\ close = << <<"</", tag>> >>  OBVIOUS
<1>2. IsSeq(open) /\ IsSeq(close)  BY <1>1, OneIsSeq
<1>3. Element(tag, content) = Cat(Cat(open, content), close)  BY <1>1 DEF Element, Cat
<1> QED BY <1>2, <1>3, CatFacts

\* And a text, however it is escaped.
LEMMA EscapedIsSeq ==
  ASSUME NEW text, IsSeq(text), NEW entities
  PROVE  IsSeq(Escaped(text, entities))
<1>1. PICK m : m = Escaped(text, entities)  OBVIOUS
<1>2. DOMAIN m = DOMAIN text /\ m = [i \in DOMAIN text |-> m[i]]
  <2>1. m = [i \in DOMAIN text |-> TokenOf(text[i], entities)]  BY <1>1 DEF Escaped, TokenOf
  <2> QED BY <2>1
<1> QED BY <1>1, <1>2, MappedIsSeq

\* And lines with other ends.
LEMMA LineEndsIsSeq ==
  ASSUME NEW text, IsSeq(text), NEW cr, NEW lf
  PROVE  IsSeq(LineEnds(text, cr, lf))
<1> DEFINE dropped == {i \in 1 .. Len(text) - 1 : text[i] = cr /\ text[i + 1] = lf}
           Place(k) == CHOOSE i \in (k .. k + Cardinality(dropped)) \ dropped :
                         i = k + Cardinality({j \in dropped : j < i})
           m == LineEnds(text, cr, lf)
<1>1. PICK n \in Nat : n = Len(text)  BY SeqOfPlaces
<1>2. PICK D : D = dropped  OBVIOUS
<1>3. Cardinality(D) \in Nat /\ Cardinality(D) <= n
  <2>1. PICK I : I = 1 .. n  OBVIOUS
  <2>2. IsFiniteSet(I) /\ Cardinality(I) = n  BY <2>1, FS_Interval
  <2>3. D \subseteq I  BY <1>1, <1>2, <2>1
  <2> QED BY <2>2, <2>3, FS_Subset, FS_CardinalityType
<1>4. PICK k \in Nat : k = n - Cardinality(D)  BY <1>3
<1>5. m = [i \in 1 .. k |-> IF text[Place(i)] = cr THEN lf ELSE text[Place(i)]]
  BY <1>1, <1>2, <1>4, Zenon DEF LineEnds
<1> HIDE DEF Place
<1>6. m = [i \in 1 .. k |-> m[i]]  BY <1>5
<1> QED BY <1>4, <1>6, PlacesSeq

\* The lines of a payload.
LEMMA LinesAreSeq ==
  ASSUME NEW payload, IsSeq(payload)
  PROVE  IsSeq(AppendLikeJavaReadLine(payload))
<1>1. PICK lines : lines = Normalized(payload)  OBVIOUS
<1>2. IsSeq(lines)  BY <1>1, LineEndsIsSeq DEF Normalized
<1>3. IsSeq(Append(lines, Character("\n")))  BY <1>2, AddedLast DEF Add
<1>4. \/ AppendLikeJavaReadLine(payload) = lines
      \/ AppendLikeJavaReadLine(payload) = Append(lines, Character("\n"))
  BY <1>1, Zenon DEF AppendLikeJavaReadLine
<1> QED BY <1>2, <1>3, <1>4, Zenon

\* The fields that are texts.
LEMMA PushedTextIsSeq ==
  ASSUME NEW field, NEW value, field \notin DOMAIN WireValues => IsSeq(value)
  PROVE  IsSeq(PushText(field, value))
<1>1. CASE field \in DOMAIN WireValues
  <2>1. PICK text : text = <<WireValues[field][value]>>  OBVIOUS
  <2>2. IsSeq(text)  BY <2>1, OneIsSeq
  <2>3. PushText(field, value) = Escaped(text, AttributeEntities)
    BY <1>1, <2>1 DEF PushText, PushEscaped
  <2> QED BY <2>2, <2>3, EscapedIsSeq
<1>2. CASE field \notin DOMAIN WireValues
  <2>1. PushText(field, value) = Escaped(value, AttributeEntities)
    BY <1>2 DEF PushText, PushEscaped
  <2> QED BY <1>2, <2>1, EscapedIsSeq
<1> QED BY <1>1, <1>2

\* The elements of the fields that a part has.
Pushed(parts, elements, rec, contents) ==
  parts = [i \in DOMAIN elements |->
             IF elements[i][2] \in DOMAIN rec
             THEN Element(elements[i][1], contents[elements[i][2]]) ELSE <<>>]

\* They are one sequence, if their contents are.
LEMMA PushedIsSeq ==
  ASSUME NEW elements, IsSeq(elements), NEW rec, NEW contents, NEW parts,
         Pushed(parts, elements, rec, contents), \A f \in DOMAIN rec : IsSeq(contents[f])
  PROVE  IsSeq(FlattenSeq(parts))
<1>1. /\ DOMAIN parts = DOMAIN elements /\ parts = [i \in DOMAIN elements |-> parts[i]]
  BY DEF Pushed
<1>2. IsSeq(parts)  BY <1>1, MappedIsSeq
<1>3. ASSUME NEW i \in DOMAIN parts  PROVE IsSeq(parts[i])
  <2>1. i \in DOMAIN elements  BY <1>1, <1>3
  <2>2. CASE elements[i][2] \in DOMAIN rec
    <3>1. parts[i] = Element(elements[i][1], contents[elements[i][2]])
      BY <2>1, <2>2 DEF Pushed
    <3> QED BY <2>2, <3>1, ElementIsSeq
  <2>3. CASE elements[i][2] \notin DOMAIN rec
    <3>1. parts[i] = <<>>  BY <2>1, <2>3 DEF Pushed
    <3> QED BY <3>1, EmptyIsSeq
  <2> QED BY <2>2, <2>3
<1> QED BY <1>2, <1>3, FlattenIsSeq

\* The lists of elements are lists.
LEMMA ElementLists ==
  /\ IsSeq(RoleElements) /\ IsSeq(MainElements) /\ IsSeq(ItemElements) /\ IsSeq(AmountElements)
<1>1. RoleElements = [i \in 1 .. 9 |-> RoleElements[i]]  BY DEF RoleElements
<1>2. MainElements = [i \in 1 .. 23 |-> MainElements[i]]  BY DEF MainElements
<1>3. ItemElements = [i \in 1 .. 9 |-> ItemElements[i]]  BY DEF ItemElements
<1>4. AmountElements = [i \in 1 .. 11 |-> AmountElements[i]]  BY DEF AmountElements
<1> QED BY <1>1, <1>2, <1>3, <1>4, PlacesSeq

\* The fields of a part are texts, but those that are parts themselves.
LEMMA PartTexts ==
  ASSUME NEW rec, NEW elements, NEW required, IsPart(rec, elements, required),
         NEW f \in DOMAIN rec, f \notin {"seller", "buyer"}
  PROVE  IsSeq(PushText(f, rec[f]))
<1>1. f \in DOMAIN WireValues \/ rec[f] \in Texts  BY DEF IsPart
<1> QED BY <1>1, PushedTextIsSeq, TextsAreSeqs

\* A part without such fields.
PartXml(elements, rec) == PushElements(elements, rec, LAMBDA f : PushText(f, rec[f]))

\* Its elements are a sequence.
LEMMA PartIsSeq ==
  ASSUME NEW rec, NEW elements, IsSeq(elements), NEW required, IsPart(rec, elements, required),
         \A i \in DOMAIN elements : elements[i][2] \notin {"seller", "buyer"}
  PROVE  IsSeq(PartXml(elements, rec))
<1>1. PICK contents : contents = [f \in DOMAIN rec |-> PushText(f, rec[f])]  OBVIOUS
<1>2. ASSUME NEW f \in DOMAIN rec  PROVE IsSeq(contents[f])
  <2>1. f \notin {"seller", "buyer"}  BY <1>2 DEF IsPart
  <2> QED BY <1>1, <2>1, PartTexts
<1>3. PICK parts : parts = [i \in DOMAIN elements |->
                              IF elements[i][2] \in DOMAIN rec
                              THEN Element(elements[i][1], PushText(elements[i][2], rec[elements[i][2]]))
                              ELSE <<>>]
  OBVIOUS
<1>4. PartXml(elements, rec) = FlattenSeq(parts)  BY <1>3, Zenon DEF PartXml, PushElements
<1>5. Pushed(parts, elements, rec, contents)
  BY <1>1, <1>3 DEF Pushed
<1> QED BY <1>2, <1>4, <1>5, PushedIsSeq

\* The seller and the buyer, and the main part with them.
LEMMA MainIsSeq ==
  ASSUME NEW main, IsMain(main)
  PROVE  IsSeq(PushMain(main))
<1>1. ASSUME NEW role, IsRole(role)  PROVE IsSeq(PushRole(role))
  <2>1. \A i \in DOMAIN RoleElements : RoleElements[i][2] \notin {"seller", "buyer"}
    BY DEF RoleElements
  <2>2. IsSeq(PartXml(RoleElements, role))  BY <1>1, <2>1, ElementLists, PartIsSeq DEF IsRole
  <2> QED BY <2>2, Zenon DEF PushRole, PartXml
<1> DEFINE Content(f) == IF f \in {"seller", "buyer"} THEN PushRole(main[f]) ELSE PushText(f, main[f])
<1>2. PICK contents : contents = [f \in DOMAIN main |-> Content(f)]  OBVIOUS
<1>3. ASSUME NEW f \in DOMAIN main  PROVE IsSeq(contents[f])
  <2>1. CASE f \in {"seller", "buyer"}
    <3>1. IsRole(main[f])  BY <2>1 DEF IsMain
    <3>2. contents[f] = PushRole(main[f])  BY <1>2, <2>1
    <3> QED BY <1>1, <3>1, <3>2
  <2>2. CASE f \notin {"seller", "buyer"}
    <3>1. contents[f] = PushText(f, main[f])  BY <1>2, <2>2
    <3>2. IsSeq(PushText(f, main[f]))  BY <2>2, PartTexts DEF IsMain
    <3> QED BY <3>1, <3>2
  <2> QED BY <2>1, <2>2
<1>4. PICK parts : parts = [i \in DOMAIN MainElements |->
                              IF MainElements[i][2] \in DOMAIN main
                              THEN Element(MainElements[i][1], Content(MainElements[i][2]))
                              ELSE <<>>]
  OBVIOUS
<1>5. PushMain(main) = FlattenSeq(parts)  BY <1>4, Zenon DEF PushMain, PushElements
<1> HIDE DEF Content
<1>6. Pushed(parts, MainElements, main, contents)  BY <1>2, <1>4 DEF Pushed
<1> QED BY <1>3, <1>5, <1>6, ElementLists, PushedIsSeq

\* The XML of any invoice.
LEMMA InvoiceIsSeq ==
  ASSUME NEW invoice, IsF0401(invoice)
  PROVE  IsSeq(ToXml(invoice))
<1>1. IsSeq(PushMain(invoice.main))  BY MainIsSeq DEF IsF0401
<1>2. IsSeq(PushAmount(invoice.amount))
  <2>1. \A i \in DOMAIN AmountElements : AmountElements[i][2] \notin {"seller", "buyer"}
    BY DEF AmountElements
  <2>2. IsSeq(PartXml(AmountElements, invoice.amount))
    BY <2>1, ElementLists, PartIsSeq DEF IsF0401, IsAmount
  <2> QED BY <2>2, Zenon DEF PushAmount, PartXml
<1>3. IsSeq(PushDetails(invoice.details))
  <2> DEFINE Detail(item) == Element("ProductItem", PartXml(ItemElements, item))
  <2>1. ASSUME NEW item, IsItem(item)  PROVE IsSeq(Detail(item))
    <3>1. \A i \in DOMAIN ItemElements : ItemElements[i][2] \notin {"seller", "buyer"}
      BY DEF ItemElements
    <3>2. IsSeq(PartXml(ItemElements, item))  BY <2>1, <3>1, ElementLists, PartIsSeq DEF IsItem
    <3> QED BY <3>2, ElementIsSeq
  <2>2. PICK details : details = invoice.details  OBVIOUS
  <2>3. IsSeq(details) /\ \A i \in DOMAIN details : IsItem(details[i])
    BY <2>2 DEF IsF0401, IsSeq
  <2>4. PICK parts : parts = [i \in DOMAIN details |-> Detail(details[i])]  OBVIOUS
  <2>5. PushDetails(details) = FlattenSeq(parts)  BY <2>4, Zenon DEF PushDetails, PartXml
  <2> HIDE DEF Detail
  <2>6. DOMAIN parts = DOMAIN details /\ parts = [i \in DOMAIN details |-> parts[i]]
    BY <2>4
  <2>7. IsSeq(parts)  BY <2>3, <2>6, MappedIsSeq
  <2>8. \A i \in DOMAIN parts : IsSeq(parts[i])  BY <2>1, <2>3, <2>4
  <2> QED BY <2>2, <2>5, <2>7, <2>8, FlattenIsSeq
<1>4. PICK a, b, c, d :
        /\ a = Element("@xmlns", <<Character(F0401Namespace)>>)
        /\ b = Element("Main", PushMain(invoice.main))
        /\ c = Element("Details", PushDetails(invoice.details))
        /\ d = Element("Amount", PushAmount(invoice.amount))
  OBVIOUS
<1>5. IsSeq(a) /\ IsSeq(b) /\ IsSeq(c) /\ IsSeq(d)
  BY <1>1, <1>2, <1>3, <1>4, OneIsSeq, ElementIsSeq
<1>6. ToXml(invoice) = Element("Invoice", Cat(Cat(Cat(a, b), c), d))
  BY <1>4, Zenon DEF ToXml, Cat
<1>7. IsSeq(Cat(Cat(Cat(a, b), c), d))  BY <1>5, CatFacts
<1> QED BY <1>6, <1>7, ElementIsSeq

\* A party or a route of an envelope.
HasTexts(info) ==
  IsSeq(info.identifier) /\ ("description" \in DOMAIN info => IsSeq(info.description))

\* An envelope of texts and payloads.
IsEnvelope(envelope) ==
  /\ HasTexts(envelope.routing.from) /\ HasTexts(envelope.routing.from_vac)
  /\ HasTexts(envelope.routing.to) /\ HasTexts(envelope.routing.to_vac)
  /\ IsSeq(envelope.messageType)
  /\ IsSeq(envelope.payloads) /\ \A i \in DOMAIN envelope.payloads : IsSeq(envelope.payloads[i])

\* One side of it.
LEMMA SideIsSeq ==
  ASSUME NEW tag, NEW idTag, NEW info, HasTexts(info)
  PROVE  IsSeq(PushParty(tag, idTag, info))
<1>1. PICK id, description :
        /\ id = Element(idTag, PushTextEscaped(info.identifier))
        /\ description = IF "description" \in DOMAIN info
                         THEN Element("Description", PushTextEscaped(info.description)) ELSE <<>>
  OBVIOUS
<1>2. IsSeq(id)  BY <1>1, EscapedIsSeq, ElementIsSeq DEF HasTexts, PushTextEscaped
<1>3. IsSeq(description)
  BY <1>1, EscapedIsSeq, ElementIsSeq, EmptyIsSeq DEF HasTexts, PushTextEscaped
<1>4. PushParty(tag, idTag, info) = Element(tag, Cat(id, description))
  BY <1>1, Zenon DEF PushParty, Cat
<1> QED BY <1>2, <1>3, <1>4, CatFacts, ElementIsSeq

\* The XML of an envelope.
LEMMA EnvelopeIsSeq ==
  ASSUME NEW envelope, IsEnvelope(envelope)
  PROVE  IsSeq(ToTurnkeyXml(envelope))
<1>1. PICK routing : routing = PushRoutingInfo(envelope.routing)  OBVIOUS
<1>2. IsSeq(routing)
  <2>1. PICK a, b, c, d :
          /\ a = PushParty("From", "PartyId", envelope.routing.from)
          /\ b = PushParty("FromVAC", "RoutingId", envelope.routing.from_vac)
          /\ c = PushParty("To", "PartyId", envelope.routing.to)
          /\ d = PushParty("ToVAC", "RoutingId", envelope.routing.to_vac)
    OBVIOUS
  <2>2. IsSeq(a) /\ IsSeq(b) /\ IsSeq(c) /\ IsSeq(d)  BY <2>1, SideIsSeq DEF IsEnvelope
  <2>3. routing = Cat(Cat(Cat(a, b), c), d)  BY <1>1, <2>1, Zenon DEF PushRoutingInfo, Cat
  <2> QED BY <2>2, <2>3, CatFacts
<1>3. PICK payloads : payloads = envelope.payloads  OBVIOUS
<1>4. IsSeq(payloads) /\ \A i \in DOMAIN payloads : IsSeq(payloads[i])
  BY <1>3 DEF IsEnvelope
<1>5. PICK parts : parts = [i \in DOMAIN payloads |-> AppendLikeJavaReadLine(payloads[i])]
  OBVIOUS
<1>6. IsSeq(FlattenSeq(parts))
  <2>1. DOMAIN parts = DOMAIN payloads /\ parts = [i \in DOMAIN payloads |-> parts[i]]
    BY <1>5
  <2>2. IsSeq(parts)  BY <1>4, <2>1, MappedIsSeq
  <2>3. \A i \in DOMAIN parts : IsSeq(parts[i])  BY <1>4, <1>5, LinesAreSeq
  <2> QED BY <2>2, <2>3, FlattenIsSeq
<1>7. PICK n \in Nat : n = Len(payloads)  BY <1>4, SeqOfPlaces
<1>8. IsSeq(Decimal(n))
  <2>1. Decimal(n) = DecimalDigits[n]  BY DEF Decimal
  <2> QED BY <2>1, DecimalReadBack DEF IsSeq
<1>9. IsSeq(<<"v", "4", "1">>)
  <2>1. PICK s : s = <<"v", "4", "1">>  OBVIOUS
  <2>2. s = [i \in 1 .. 3 |-> s[i]]  BY <2>1
  <2> QED BY <2>1, <2>2, PlacesSeq
<1>10. PICK a, b, c, d, e :
         /\ a = Element("@xmlns", <<Character("urn:GEINV:InvoiceEnvelope:4.1")>>)
         /\ b = Element("@count", PushTextEscaped(Decimal(n)))
         /\ c = Element("@messageType", PushEscaped(envelope.messageType))
         /\ d = Element("@version", PushTextEscaped(<<"v", "4", "1">>))
         /\ e = FlattenSeq(parts)
  OBVIOUS
<1>11. IsSeq(a) /\ IsSeq(b) /\ IsSeq(c) /\ IsSeq(d) /\ IsSeq(e)
  BY <1>6, <1>8, <1>9, <1>10, OneIsSeq, EscapedIsSeq, ElementIsSeq
     DEF PushTextEscaped, PushEscaped, IsEnvelope
<1>12. PICK pack : pack = Element("InvoicePack", Cat(Cat(Cat(b, c), d), e))  OBVIOUS
<1>13. IsSeq(pack)  BY <1>11, <1>12, CatFacts, ElementIsSeq
<1>14. ToTurnkeyXml(envelope) = Element("InvoiceEnvelope", Cat(Cat(a, routing), pack))
  BY <1>1, <1>3, <1>5, <1>7, <1>10, <1>12, Zenon DEF ToTurnkeyXml, Cat
<1>15. IsSeq(Cat(Cat(a, routing), pack))  BY <1>2, <1>11, <1>13, CatFacts
<1> QED BY <1>14, <1>15, ElementIsSeq
=============================================================================

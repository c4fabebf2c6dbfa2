---------------------------- MODULE EditorProofs ----------------------------
(***************************************************************************)
(* The prompt editor keeps its text: EdSpec => EditorKeeps, for every text, *)
(* kill ring and history it can be given and for every bound.              *)
(*                                                                         *)
(* The proof reads the editor as a text with a cursor in it, At(F, x, y, G): *)
(* the lines F above, x and y before and behind the cursor, the lines G    *)
(* below.  First what joining and splitting lines computes; then what each *)
(* operation makes of At(F, x, y, G); then that the parts stay lines fit   *)
(* for the editor, whose markers are live and whole (Lines), which is where *)
(* the keys cut matters; then EdInv, one lemma for each action; and last   *)
(* what a step leaves on the undo stack.  Facts about sequences and about  *)
(* the largest and least of a set are those of SessionProofs.              *)
(***************************************************************************)
EXTENDS SessionProofs, EditorBuffer

(* What stands between two lines. *)
Break == <<EdNL>>

LEMMA BreakType == ASSUME NEW K, EdNL \in K PROVE Break \in Seq(K)
BY DEF Break

(* The text of a list of lines, line by line.                              *)
LEMMA JoinSteps ==
    ASSUME NEW K, EdNL \in K, NEW lines \in Seq(Seq(K)), lines # <<>>
    PROVE  \E f \in [1 .. Len(lines) -> Seq(K)] :
              /\ f[1] = lines[1]
              /\ \A i \in 2 .. Len(lines) : f[i] = Cat(f[i - 1], Cat(Break, lines[i]))
              /\ EdJoin(lines) = f[Len(lines)]
<1> DEFINE n == Len(lines)
           texts == [i \in DOMAIN lines |-> IF i = 1 THEN lines[i] ELSE <<EdNL>> \o lines[i]]
           Is(f) == f = [i \in 1 .. Len(texts) |-> IF i = 1 THEN texts[i] ELSE f[i - 1] \o texts[i]]
           flat == CHOOSE f : Is(f)
<1>1. n \in Nat \ {0} /\ DOMAIN lines = 1 .. n /\ \A i \in 1 .. n : lines[i] \in Seq(K)
  BY LenProperties, ElementOfSeq, EmptySeq
<1>2. \A i \in 1 .. n : texts[i] = (IF i = 1 THEN lines[i] ELSE Break \o lines[i]) /\ texts[i] \in Seq(K)
  <2>1. \A i \in 1 .. n : texts[i] = IF i = 1 THEN lines[i] ELSE Break \o lines[i]
    BY <1>1 DEF Break
  <2>2. Break \in Seq(K)
    BY BreakType
  <2>3. \A i \in 1 .. n : Break \o lines[i] \in Seq(K)
    BY <1>1, <2>2, ConcatProperties
  <2> QED BY <1>1, <2>1, <2>3
<1>3. texts \in Seq(Seq(K)) /\ Len(texts) = n
  <2> HIDE DEF n
  <2>1. texts \in [1 .. n -> Seq(K)]
    BY <1>1, <1>2
  <2> HIDE DEF texts
  <2> QED BY <1>1, <2>1
<1> HIDE DEF texts
<1>4. \E f : Is(f)
  <2>1. \E f : f = [i \in 1 .. Len(texts) |-> FlatStep(texts, f, i)]
    BY <1>1, <1>3, FlatExists
  <2> QED BY <2>1 DEF FlatStep
<1>5. Is(flat)
  BY <1>4
<1>6. \A i \in 1 .. n : flat[i] = IF i = 1 THEN texts[i] ELSE flat[i - 1] \o texts[i]
  <2> HIDE DEF flat
  <2> QED BY <1>3, <1>5
<1>7. EdJoin(lines) = flat[n] /\ DOMAIN flat = 1 .. n
  <2>1. EdJoin(lines) = FlattenSeq(texts)
    BY DEF EdJoin, texts
  <2>2. FlattenSeq(texts) = IF Len(texts) = 0 THEN texts ELSE flat[Len(texts)]
    BY DEF FlattenSeq
  <2>3. DOMAIN flat = 1 .. n
    <3> HIDE DEF flat
    <3> QED BY <1>3, <1>5
  <2> HIDE DEF flat
  <2> QED BY <1>1, <1>3, <2>1, <2>2, <2>3
<1>8. flat = [i \in 1 .. n |-> flat[i]]
  <2> HIDE DEF flat
  <2> QED BY <1>3, <1>5
<1> HIDE DEF flat, n
<1> DEFINE C == {i \in 1 .. n : flat[i] \notin Seq(K)}
<1>9. C = {}
  <2>1. SUFFICES ASSUME C # {} PROVE FALSE
    OBVIOUS
  <2>2. C \subseteq Nat
    BY <1>1
  <2>3. PICK m \in C : \A k \in C : m <= k
    BY <2>1, <2>2, LeastPosition
  <2>4. m \in 1 .. n /\ flat[m] \notin Seq(K) /\ m \in Nat
    BY <1>1, <2>3
  <2>5. m # 1
    BY <1>1, <1>2, <1>6, <2>4
  <2>6. m - 1 \in 1 .. n /\ ~(m <= m - 1)
    BY <1>1, <2>4, <2>5
  <2>7. flat[m - 1] \in Seq(K)
    BY <2>3, <2>6
  <2>8. flat[m] = flat[m - 1] \o texts[m]
    BY <1>6, <2>4, <2>5
  <2>9. flat[m - 1] \o texts[m] \in Seq(K)
    BY <1>2, <2>4, <2>7, ConcatProperties
  <2> QED BY <2>4, <2>8, <2>9
<1>10. flat \in [1 .. n -> Seq(K)]
  BY <1>8, <1>9
<1>11. flat[1] = lines[1]
  <2>1. 1 \in 1 .. n
    BY <1>1
  <2> QED BY <1>2, <1>6, <2>1
<1>12. ASSUME NEW i \in 2 .. n PROVE flat[i] = Cat(flat[i - 1], Cat(Break, lines[i]))
  <2>1. i \in 1 .. n /\ i # 1
    BY <1>1
  <2> QED BY <1>2, <1>6, <2>1 DEF Cat
<1> QED BY <1>7, <1>10, <1>11, <1>12 DEF n

(* No other sequence of texts grows like that. *)
LEMMA JoinOnly ==
    ASSUME NEW K, EdNL \in K, NEW lines \in Seq(Seq(K)), lines # <<>>, NEW g,
           g[1] = lines[1],
           \A i \in 2 .. Len(lines) : g[i] = Cat(g[i - 1], Cat(Break, lines[i]))
    PROVE  EdJoin(lines) = g[Len(lines)]
<1> DEFINE n == Len(lines)
<1>1. n \in Nat \ {0}
  BY LenProperties, EmptySeq
<1>2. PICK f \in [1 .. n -> Seq(K)] : /\ f[1] = lines[1]
                                      /\ \A i \in 2 .. n : f[i] = Cat(f[i - 1], Cat(Break, lines[i]))
                                      /\ EdJoin(lines) = f[n]
  BY JoinSteps
<1> HIDE DEF n
<1> DEFINE C == {i \in 1 .. n : f[i] # g[i]}
<1>3. C = {}
  <2>1. SUFFICES ASSUME C # {} PROVE FALSE
    OBVIOUS
  <2>2. C \subseteq Nat
    BY <1>1
  <2>3. PICK m \in C : \A k \in C : m <= k
    BY <2>1, <2>2, LeastPosition
  <2>4. m \in 1 .. n /\ f[m] # g[m] /\ m \in Nat
    BY <1>1, <2>3
  <2>5. m # 1
    BY <1>2, <2>4
  <2>6. m - 1 \in 1 .. n /\ ~(m <= m - 1) /\ m \in 2 .. n
    BY <1>1, <2>4, <2>5
  <2>7. f[m - 1] = g[m - 1]
    BY <2>3, <2>6
  <2>8. f[m] = Cat(f[m - 1], Cat(Break, lines[m]))
    BY <1>2, <2>6
  <2>9. g[m] = Cat(g[m - 1], Cat(Break, lines[m]))
    BY <2>6 DEF n
  <2> QED BY <2>4, <2>7, <2>8, <2>9
<1>4. n \in 1 .. n
  BY <1>1
<1> QED BY <1>2, <1>3, <1>4 DEF n

LEMMA JoinType ==
    ASSUME NEW K, EdNL \in K, NEW lines \in Seq(Seq(K)), lines # <<>>
    PROVE  EdJoin(lines) \in Seq(K)
<1>1. Len(lines) \in 1 .. Len(lines)
  <2>1. Len(lines) \in Nat \ {0}
    BY LenProperties, EmptySeq
  <2> QED BY <2>1
<1>2. PICK f \in [1 .. Len(lines) -> Seq(K)] : EdJoin(lines) = f[Len(lines)]
  BY JoinSteps
<1>3. f[Len(lines)] \in Seq(K)
  BY <1>1
<1> QED BY <1>2, <1>3

LEMMA JoinOne ==
    ASSUME NEW K, EdNL \in K, NEW l \in Seq(K)
    PROVE  EdJoin(One(l)) = l
<1>1. One(l) \in Seq(Seq(K)) /\ One(l) # <<>> /\ Len(One(l)) = 1 /\ One(l)[1] = l
  BY OneType
<1>2. PICK f \in [1 .. Len(One(l)) -> Seq(K)] : f[1] = One(l)[1] /\ EdJoin(One(l)) = f[Len(One(l))]
  BY <1>1, JoinSteps
<1> QED BY <1>1, <1>2

LEMMA JoinAppend ==
    ASSUME NEW K, EdNL \in K, NEW lines \in Seq(Seq(K)), lines # <<>>, NEW l \in Seq(K)
    PROVE  EdJoin(Append(lines, l)) = Cat(EdJoin(lines), Cat(Break, l))
<1> DEFINE n == Len(lines)
           more == Append(lines, l)
<1>1. n \in Nat \ {0}
  BY LenProperties, EmptySeq
<1>2. /\ more \in Seq(Seq(K)) /\ more # <<>> /\ Len(more) = n + 1
      /\ \A i \in 1 .. n : more[i] = lines[i]
      /\ more[n + 1] = l
  BY AppendProperties
<1> HIDE DEF more
<1>3. PICK f \in [1 .. n -> Seq(K)] : /\ f[1] = lines[1]
                                      /\ \A i \in 2 .. n : f[i] = Cat(f[i - 1], Cat(Break, lines[i]))
                                      /\ EdJoin(lines) = f[n]
  BY JoinSteps
<1> HIDE DEF n
<1> DEFINE g == [i \in 1 .. n + 1 |-> IF i <= n THEN f[i] ELSE Cat(f[n], Cat(Break, l))]
<1>4. g[n + 1] = Cat(f[n], Cat(Break, l)) /\ \A i \in 1 .. n : g[i] = f[i]
  <2>1. n + 1 \in 1 .. n + 1 /\ ~(n + 1 <= n) /\ \A i \in 1 .. n : i \in 1 .. n + 1 /\ i <= n
    BY <1>1
  <2> QED BY <2>1
<1> HIDE DEF g
<1>5. g[1] = more[1]
  <2>1. 1 \in 1 .. n
    BY <1>1
  <2> QED BY <1>2, <1>3, <1>4, <2>1
<1>6. ASSUME NEW i \in 2 .. Len(more) PROVE g[i] = Cat(g[i - 1], Cat(Break, more[i]))
  <2>1. i \in 2 .. n + 1
    BY <1>2
  <2>2. CASE i = n + 1
    <3>1. i - 1 = n /\ n \in 1 .. n
      BY <1>1, <2>2
    <3> QED BY <1>2, <1>4, <2>2, <3>1
  <2>3. CASE i # n + 1
    <3>1. i \in 2 .. n /\ i \in 1 .. n /\ i - 1 \in 1 .. n
      BY <1>1, <2>1, <2>3
    <3> QED BY <1>2, <1>3, <1>4, <3>1
  <2> QED BY <2>2, <2>3
<1>7. EdJoin(more) = g[Len(more)]
  BY <1>2, <1>5, <1>6, JoinOnly
<1> QED BY <1>2, <1>3, <1>4, <1>7 DEF more

(* Two lists of lines one after the other: their texts with a line break between. *)
LEMMA JoinConcat ==
    ASSUME NEW K, EdNL \in K, NEW a \in Seq(Seq(K)), a # <<>>, NEW b \in Seq(Seq(K)), b # <<>>
    PROVE  EdJoin(Cat(a, b)) = Cat(EdJoin(a), Cat(Break, EdJoin(b)))
<1> DEFINE n == Len(b)
           C == {k \in 1 .. n : EdJoin(Cat(a, Pre(b, k))) # Cat(EdJoin(a), Cat(Break, EdJoin(Pre(b, k))))}
<1>1. n \in Nat \ {0} /\ \A k \in 1 .. n : b[k] \in Seq(K)
  BY LenProperties, EmptySeq, ElementOfSeq
<1>2. /\ Pre(b, 0) = <<>> /\ Pre(b, n) = b
      /\ \A k \in 0 .. n : Pre(b, k) \in Seq(Seq(K)) /\ Len(Pre(b, k)) = k
      /\ \A k \in 1 .. n : Pre(b, k) = Cat(Pre(b, k - 1), One(b[k])) /\ k - 1 \in 0 .. n
  <2> DEFINE T == Seq(K)
  <2>1. b \in Seq(T)
    OBVIOUS
  <2> HIDE DEF T
  <2>2. /\ Pre(b, 0) = <<>> /\ Pre(b, n) = b
        /\ \A k \in 0 .. n : Pre(b, k) \in Seq(T) /\ Len(Pre(b, k)) = k
        /\ \A k \in 1 .. n : Pre(b, k) = Cat(Pre(b, k - 1), One(b[k])) /\ k - 1 \in 0 .. n
    BY <2>1, Beginnings
  <2> QED BY <2>2 DEF T
<1> HIDE DEF n
<1>3. C = {}
  <2>1. SUFFICES ASSUME C # {} PROVE FALSE
    OBVIOUS
  <2>2. C \subseteq Nat
    BY <1>1
  <2>3. PICK m \in C : \A k \in C : m <= k
    BY <2>1, <2>2, LeastPosition
  <2>4. m \in 1 .. n /\ m \in Nat /\ EdJoin(Cat(a, Pre(b, m))) # Cat(EdJoin(a), Cat(Break, EdJoin(Pre(b, m))))
    BY <1>1, <2>3
  <2>5. m # 1 => EdJoin(Cat(a, Pre(b, m - 1))) = Cat(EdJoin(a), Cat(Break, EdJoin(Pre(b, m - 1))))
    <3>1. m # 1 => m - 1 \in 1 .. n /\ ~(m <= m - 1)
      BY <1>1, <2>4
    <3> QED BY <2>3, <3>1
  <2>6. m - 1 \in 0 .. n /\ Pre(b, m) = Cat(Pre(b, m - 1), One(b[m])) /\ Pre(b, m - 1) \in Seq(Seq(K)) /\ Len(Pre(b, m - 1)) = m - 1
    BY <1>2, <2>4
  <2> DEFINE p == Pre(b, m - 1)
             l == b[m]
  <2>7. l \in Seq(K) /\ p \in Seq(Seq(K)) /\ Pre(b, m) = Cat(p, One(l)) /\ Pre(b, m) = Append(p, l) /\ One(l) \in Seq(Seq(K))
    <3>1. l \in Seq(K)
      BY <1>1, <2>4
    <3> QED BY <2>6, <3>1, OneMore, OneType
  <2>8. m = 1 => p = <<>>
    BY <1>2
  <2>9. m # 1 => p # <<>>
    <3>1. m # 1 => Len(p) # 0
      BY <2>4, <2>6
    <3> QED BY <2>7, <3>1, EmptySeq
  <2> HIDE DEF C
  <2> HIDE DEF p, l
  <2>10. CASE m = 1
    <3>1. Pre(b, m) = One(l) /\ Cat(a, One(l)) = Append(a, l)
      <4> DEFINE T == Seq(K)
      <4>1. l \in T /\ One(l) \in Seq(T) /\ a \in Seq(T)
        BY <2>7
      <4> HIDE DEF T
      <4>2. Cat(<<>>, One(l)) = One(l) /\ Append(a, l) = Cat(a, One(l))
        BY <4>1, CatEmpty, OneMore
      <4> QED BY <2>7, <2>8, <2>10, <4>2
    <3> QED BY <2>4, <2>7, <3>1, JoinAppend, JoinOne
  <2>11. CASE m # 1
    <3>1. Cat(a, p) \in Seq(Seq(K)) /\ Cat(a, p) # <<>>
      BY <2>7, CatType, CatNotEmpty
    <3>2. Cat(a, Pre(b, m)) = Append(Cat(a, p), l)
      <4> DEFINE T == Seq(K)
      <4>1. l \in T /\ One(l) \in Seq(T) /\ a \in Seq(T) /\ p \in Seq(T) /\ Cat(a, p) \in Seq(T)
        BY <2>7, <3>1
      <4> HIDE DEF T
      <4>2. Append(Cat(a, p), l) = Cat(Cat(a, p), One(l)) /\ Cat(Cat(a, p), One(l)) = Cat(a, Cat(p, One(l)))
        BY <4>1, OneMore, CatAssoc
      <4> QED BY <2>7, <4>2
    <3>3. EdJoin(Cat(a, Pre(b, m))) = Cat(Cat(EdJoin(a), Cat(Break, EdJoin(p))), Cat(Break, l))
      <4>1. EdJoin(Cat(a, p)) = Cat(EdJoin(a), Cat(Break, EdJoin(p)))
        BY <2>5, <2>11 DEF p
      <4> QED BY <2>7, <3>1, <3>2, <4>1, JoinAppend
    <3>4. EdJoin(Pre(b, m)) = Cat(EdJoin(p), Cat(Break, l))
      BY <2>7, <2>9, <2>11, JoinAppend
    <3>5. EdJoin(a) \in Seq(K) /\ EdJoin(p) \in Seq(K) /\ Break \in Seq(K)
      BY <2>7, <2>9, <2>11, JoinType, BreakType
    <3>6. Cat(Cat(EdJoin(a), Cat(Break, EdJoin(p))), Cat(Break, l)) = Cat(EdJoin(a), Cat(Break, Cat(EdJoin(p), Cat(Break, l))))
      BY <2>7, <3>5, CatType, CatAssoc
    <3> QED BY <2>4, <3>3, <3>4, <3>6
  <2> QED BY <2>10, <2>11
<1>4. n \in 1 .. n
  BY <1>1
<1> QED BY <1>2, <1>3, <1>4

-----------------------------------------------------------------------------
(* A text split into its lines, cell by cell.                              *)
SplitStep(text, f, i) == IF i = 0 THEN <<<<>>>> ELSE EdGrown(f[i - 1], text[i])

LEMMA SplitExists ==
    ASSUME NEW text, NEW n \in Nat
    PROVE  \E f : f = [i \in 0 .. n |-> SplitStep(text, f, i)]
<1> DEFINE Defined(k) == \E f : f = [i \in 0 .. k |-> SplitStep(text, f, i)]
           C == {k \in Nat : ~Defined(k)}
<1>1. SUFFICES ASSUME C # {} PROVE FALSE
  OBVIOUS
<1>2. PICK m \in C : \A k \in C : m <= k
  BY <1>1, LeastPosition
<1>3. m \in Nat /\ ~Defined(m)
  BY <1>2
<1>4. m # 0
  <2> DEFINE f == [i \in 0 .. 0 |-> <<<<>>>>]
  <2>1. \A i \in 0 .. 0 : SplitStep(text, f, i) = <<<<>>>>
    BY DEF SplitStep
  <2>2. f = [i \in 0 .. 0 |-> SplitStep(text, f, i)]
    BY <2>1
  <2>3. Defined(0)
    BY <2>2
  <2> QED BY <1>3, <2>3
<1>5. m - 1 \in Nat /\ ~(m <= m - 1)
  BY <1>3, <1>4
<1>6. Defined(m - 1)
  BY <1>2, <1>5
<1>7. PICK f : f = [i \in 0 .. m - 1 |-> SplitStep(text, f, i)]
  BY <1>6
<1> DEFINE g == [i \in 0 .. m |-> IF i < m THEN f[i] ELSE SplitStep(text, f, m)]
<1>8. ASSUME NEW i \in 0 .. m PROVE g[i] = SplitStep(text, g, i)
  <2>1. i \in Nat /\ i <= m
    BY <1>3
  <2>2. i # 0 => f[i - 1] = g[i - 1]
    <3> SUFFICES ASSUME i # 0 PROVE f[i - 1] = g[i - 1]
      OBVIOUS
    <3>1. i - 1 \in 0 .. m /\ i - 1 < m
      BY <1>3, <2>1
    <3> QED BY <3>1
  <2>3. SplitStep(text, f, i) = SplitStep(text, g, i)
    <3> HIDE DEF g
    <3> QED BY <2>2 DEF SplitStep
  <2>4. g[i] = SplitStep(text, f, i)
    <3>1. CASE i < m
      <4>1. i \in 0 .. m - 1
        BY <1>3, <2>1, <3>1
      <4> QED BY <1>7, <3>1, <4>1
    <3>2. CASE i = m
      BY <1>3, <3>2
    <3> QED BY <1>3, <2>1, <3>1, <3>2
  <2> QED BY <2>3, <2>4
<1>9. g = [i \in 0 .. m |-> SplitStep(text, g, i)]
  BY <1>8
<1> QED BY <1>3, <1>9

LEMMA SplitSteps ==
    ASSUME NEW text, Len(text) \in Nat
    PROVE  \E f : /\ f[0] = One(<<>>)
                  /\ \A i \in 1 .. Len(text) : f[i] = EdGrown(f[i - 1], text[i])
                  /\ EdSplit(text) = f[Len(text)]
<1> DEFINE n == Len(text)
           Is(f) == f = [i \in 0 .. Len(text) |-> IF i = 0 THEN <<<<>>>> ELSE EdGrown(f[i - 1], text[i])]
           split == CHOOSE f : Is(f)
<1>1. \E f : Is(f)
  <2>1. \E f : f = [i \in 0 .. Len(text) |-> SplitStep(text, f, i)]
    BY SplitExists
  <2> QED BY <2>1 DEF SplitStep
<1>2. Is(split)
  BY <1>1
<1>3. EdSplit(text) = split[n]
  BY DEF EdSplit
<1> HIDE DEF split
<1>4. split[0] = One(<<>>)
  <2>1. 0 \in 0 .. n
    OBVIOUS
  <2>2. split[0] = <<<<>>>>
    BY <1>2, <2>1
  <2> QED BY <2>2 DEF One
<1>5. ASSUME NEW i \in 1 .. n PROVE split[i] = EdGrown(split[i - 1], text[i])
  <2>1. i \in 0 .. n /\ i # 0
    OBVIOUS
  <2> QED BY <1>2, <2>1
<1> QED BY <1>3, <1>4, <1>5

LEMMA SplitEmpty == EdSplit(<<>>) = One(<<>>)
<1>1. Len(<<>>) = 0 /\ Len(<<>>) \in Nat
  OBVIOUS
<1>2. PICK f : f[0] = One(<<>>) /\ EdSplit(<<>>) = f[Len(<<>>)]
  BY <1>1, SplitSteps
<1> QED BY <1>1, <1>2

LEMMA SplitAppend ==
    ASSUME NEW C, NEW t \in Seq(C), NEW c \in C
    PROVE  EdSplit(Append(t, c)) = EdGrown(EdSplit(t), c)
<1> DEFINE u == Append(t, c)
           n == Len(t)
<1>1. /\ n \in Nat /\ Len(u) = n + 1 /\ u[n + 1] = c /\ \A i \in 1 .. n : u[i] = t[i]
  BY LenProperties, AppendProperties
<1>2. PICK f : /\ f[0] = One(<<>>)
               /\ \A i \in 1 .. n : f[i] = EdGrown(f[i - 1], t[i])
               /\ EdSplit(t) = f[n]
  BY <1>1, SplitSteps
<1> HIDE DEF u, n
<1>3. PICK g : /\ g[0] = One(<<>>)
               /\ \A i \in 1 .. Len(u) : g[i] = EdGrown(g[i - 1], u[i])
               /\ EdSplit(u) = g[Len(u)]
  <2>1. Len(u) \in Nat
    BY <1>1
  <2> QED BY <2>1, SplitSteps
<1> DEFINE D == {i \in 0 .. n : f[i] # g[i]}
<1>4. D = {}
  <2>1. SUFFICES ASSUME D # {} PROVE FALSE
    OBVIOUS
  <2>2. D \subseteq Nat
    BY <1>1
  <2>3. PICK m \in D : \A k \in D : m <= k
    BY <2>1, <2>2, LeastPosition
  <2>4. m \in 0 .. n /\ f[m] # g[m] /\ m \in Nat
    BY <1>1, <2>3
  <2>5. m # 0
    BY <1>2, <1>3, <2>4
  <2>6. m - 1 \in 0 .. n /\ ~(m <= m - 1) /\ m \in 1 .. n /\ m \in 1 .. Len(u)
    BY <1>1, <2>4, <2>5
  <2>7. f[m - 1] = g[m - 1]
    BY <2>3, <2>6
  <2>8. f[m] = EdGrown(f[m - 1], t[m]) /\ g[m] = EdGrown(g[m - 1], u[m]) /\ u[m] = t[m]
    BY <1>1, <1>2, <1>3, <2>6
  <2> QED BY <2>4, <2>7, <2>8
<1>5. f[n] = g[n]
  <2>1. n \in 0 .. n
    BY <1>1
  <2> QED BY <1>4, <2>1
<1>6. g[n + 1] = EdGrown(g[n], c)
  <2>1. n + 1 \in 1 .. Len(u) /\ n + 1 - 1 = n
    BY <1>1
  <2> QED BY <1>1, <1>3, <2>1
<1> QED BY <1>1, <1>2, <1>3, <1>5, <1>6 DEF u

(* What is split and joined again is the text it was, and no line has a line break in it. *)
LEMMA SplitType ==
    ASSUME NEW K, EdNL \notin K, NEW t \in Seq(K \cup {EdNL})
    PROVE  EdSplit(t) \in Seq(Seq(K)) /\ EdSplit(t) # <<>> /\ EdJoin(EdSplit(t)) = t
<1> DEFINE C == K \cup {EdNL}
           n == Len(t)
           Ok(k) == /\ EdSplit(Pre(t, k)) \in Seq(Seq(K)) /\ EdSplit(Pre(t, k)) # <<>>
                    /\ EdJoin(EdSplit(Pre(t, k))) = Pre(t, k)
           D == {k \in 0 .. n : ~Ok(k)}
<1>1. EdNL \in C /\ K \subseteq C /\ t \in Seq(C)
  OBVIOUS
<1>2. Seq(K) \subseteq Seq(C)
  BY <1>1, SeqMonotonic
<1>3. Seq(Seq(K)) \subseteq Seq(Seq(C))
  BY <1>2, SeqMonotonic
<1>4. \A c \in C : c = EdNL \/ c \in K
  OBVIOUS
<1> HIDE DEF C
<1>5. /\ n \in Nat /\ Pre(t, 0) = <<>> /\ Pre(t, n) = t
      /\ \A k \in 0 .. n : Pre(t, k) \in Seq(C)
      /\ \A k \in 1 .. n : t[k] \in C /\ k - 1 \in 0 .. n /\ Pre(t, k) = Append(Pre(t, k - 1), t[k])
  BY <1>1, Beginnings
<1>6. Ok(0)
  <2>1. <<>> \in Seq(K) /\ <<>> \in Seq(C)
    OBVIOUS
  <2>2. One(<<>>) \in Seq(Seq(K)) /\ One(<<>>) # <<>> /\ EdJoin(One(<<>>)) = <<>>
    BY <1>1, <2>1, OneType, JoinOne
  <2> QED BY <1>5, <2>2, SplitEmpty
<1>7. ASSUME NEW k \in 1 .. n, Ok(k - 1) PROVE Ok(k)
  <2> DEFINE ls == EdSplit(Pre(t, k - 1))
             p == Pre(t, k - 1)
             c == t[k]
  <2>1. ls \in Seq(Seq(K)) /\ ls # <<>> /\ EdJoin(ls) = p /\ p \in Seq(C) /\ c \in C /\ Pre(t, k) = Append(p, c)
    BY <1>5, <1>7
  <2>2. EdSplit(Pre(t, k)) = EdGrown(ls, c)
    BY <2>1, SplitAppend
  <2> HIDE DEF ls, p, c
  <2>3. ls \in Seq(Seq(C))
    BY <1>3, <2>1
  <2>4. CASE c = EdNL
    <3>1. EdGrown(ls, c) = Append(ls, <<>>)
      BY <2>4 DEF EdGrown
    <3>2. <<>> \in Seq(K) /\ <<>> \in Seq(C)
      OBVIOUS
    <3>3. Append(ls, <<>>) \in Seq(Seq(K)) /\ Append(ls, <<>>) # <<>>
      <4> DEFINE T == Seq(K)
      <4>1. <<>> \in T /\ ls \in Seq(T)
        BY <2>1, <3>2
      <4> HIDE DEF T
      <4>2. Append(ls, <<>>) \in Seq(T) /\ Append(ls, <<>>) # <<>>
        BY <4>1, AppendProperties
      <4> QED BY <4>2 DEF T
    <3>4. EdJoin(Append(ls, <<>>)) = Cat(p, Cat(Break, <<>>))
      BY <1>1, <2>1, <2>3, <3>2, JoinAppend
    <3>5. Cat(Break, <<>>) = One(c)
      BY <1>1, <2>4, BreakType, CatEmpty DEF Break, One
    <3>6. Append(p, c) = Cat(p, One(c))
      BY <2>1, OneMore
    <3> QED BY <2>1, <2>2, <3>1, <3>3, <3>4, <3>5, <3>6
  <2>5. CASE c \in K
    <3> DEFINE f == Front(ls)
               l == Last(ls)
    <3>1. EdGrown(ls, c) = Append(f, Append(l, c))
      BY <2>5 DEF EdGrown
    <3>2. f \in Seq(Seq(K)) /\ l \in Seq(K) /\ ls = Append(f, l)
      <4> DEFINE T == Seq(K)
      <4>1. ls \in Seq(T)
        BY <2>1
      <4> HIDE DEF T
      <4>2. f \in Seq(T) /\ l \in T /\ ls = Append(f, l)
        BY <2>1, <4>1, FrontLast
      <4> QED BY <4>2 DEF T
    <3> HIDE DEF f, l
    <3>3. Append(l, c) \in Seq(K) /\ Append(l, c) = Cat(l, One(c)) /\ l \in Seq(C) /\ One(c) \in Seq(C) /\ Append(l, c) \in Seq(C)
      BY <1>2, <2>1, <2>5, <3>2, AppendProperties, OneMore, OneType
    <3>4. Append(f, Append(l, c)) \in Seq(Seq(K)) /\ Append(f, Append(l, c)) # <<>>
      BY <3>2, <3>3, AppendProperties
    <3>5. Append(p, c) = Cat(p, One(c))
      BY <2>1, OneMore
    <3>6. EdJoin(Append(f, Append(l, c))) = Cat(EdJoin(ls), One(c))
      <4>1. CASE f = <<>>
        <5>1. ls = One(l) /\ Append(f, Append(l, c)) = One(Append(l, c))
          BY <3>2, <4>1 DEF One
        <5> QED BY <1>1, <3>3, <5>1, JoinOne
      <4>2. CASE f # <<>>
        <5>1. f \in Seq(Seq(C)) /\ EdJoin(f) \in Seq(C) /\ Break \in Seq(C)
          BY <1>1, <1>3, <3>2, <4>2, JoinType, BreakType
        <5>2. EdJoin(ls) = Cat(EdJoin(f), Cat(Break, l))
          BY <1>1, <3>2, <3>3, <4>2, <5>1, JoinAppend
        <5>3. EdJoin(Append(f, Append(l, c))) = Cat(EdJoin(f), Cat(Break, Append(l, c)))
          BY <1>1, <3>3, <4>2, <5>1, JoinAppend
        <5>4. Cat(Cat(EdJoin(f), Cat(Break, l)), One(c)) = Cat(EdJoin(f), Cat(Break, Cat(l, One(c))))
          BY <3>3, <5>1, CatType, CatAssoc
        <5> QED BY <3>3, <5>2, <5>3, <5>4
      <4> QED BY <4>1, <4>2
    <3> QED BY <2>1, <2>2, <3>1, <3>4, <3>5, <3>6
  <2> QED BY <1>4, <2>1, <2>4, <2>5
<1> HIDE DEF Ok
<1>8. D = {}
  <2>1. SUFFICES ASSUME D # {} PROVE FALSE
    OBVIOUS
  <2>2. D \subseteq Nat
    BY <1>5
  <2>3. PICK m \in D : \A k \in D : m <= k
    BY <2>1, <2>2, LeastPosition
  <2>4. m \in 0 .. n /\ ~Ok(m) /\ m \in Nat /\ m # 0
    BY <1>5, <1>6, <2>3
  <2>5. m - 1 \in 0 .. n /\ ~(m <= m - 1) /\ m \in 1 .. n
    BY <1>5, <2>4
  <2>6. Ok(m - 1)
    BY <2>3, <2>5
  <2> QED BY <1>7, <2>4, <2>5, <2>6
<1>9. Ok(n)
  <2>1. n \in 0 .. n
    BY <1>5
  <2> QED BY <1>8, <2>1
<1> QED BY <1>5, <1>9 DEF Ok

(* Adding to a text without line breaks adds to its last line. *)
LEMMA SplitOn ==
    ASSUME NEW K, EdNL \notin K, NEW t \in Seq(K \cup {EdNL}), NEW l \in Seq(K)
    PROVE  EdSplit(Cat(t, l)) = Append(Front(EdSplit(t)), Cat(Last(EdSplit(t)), l))
<1> DEFINE C == K \cup {EdNL}
           T == Seq(K)
           n == Len(l)
           F == Front(EdSplit(t))
           L == Last(EdSplit(t))
           Ok(k) == EdSplit(Cat(t, Pre(l, k))) = Append(F, Cat(L, Pre(l, k)))
           D == {k \in 0 .. n : ~Ok(k)}
<1>1. t \in Seq(C) /\ K \subseteq C /\ Seq(K) \subseteq Seq(C)
  BY SeqMonotonic
<1>2. F \in Seq(T) /\ L \in T /\ EdSplit(t) = Append(F, L)
  <2>1. EdSplit(t) \in Seq(T) /\ EdSplit(t) # <<>>
    BY SplitType
  <2> HIDE DEF T
  <2> QED BY <2>1, FrontLast
<1> HIDE DEF C, F, L
<1>3. /\ n \in Nat /\ Pre(l, 0) = <<>> /\ Pre(l, n) = l
      /\ \A k \in 0 .. n : Pre(l, k) \in Seq(K)
      /\ \A k \in 1 .. n : l[k] \in K /\ k - 1 \in 0 .. n /\ Pre(l, k) = Append(Pre(l, k - 1), l[k])
  BY Beginnings
<1>4. Ok(0)
  BY <1>1, <1>2, <1>3, CatEmpty
<1>5. ASSUME NEW k \in 1 .. n, Ok(k - 1) PROVE Ok(k)
  <2> DEFINE p == Pre(l, k - 1)
             c == l[k]
             u == Cat(L, p)
  <2>1. p \in Seq(K) /\ c \in K /\ Pre(l, k) = Append(p, c) /\ p \in Seq(C) /\ c \in C /\ EdSplit(Cat(t, p)) = Append(F, u)
    BY <1>1, <1>3, <1>5
  <2>2. u \in T
    BY <1>2, <2>1, CatType
  <2> HIDE DEF p, c, u
  <2>3. Append(p, c) = Cat(p, One(c)) /\ One(c) \in Seq(C) /\ Cat(t, p) \in Seq(C) /\ One(c) \in Seq(K)
    BY <1>1, <2>1, OneMore, OneType, CatType
  <2>4. Cat(t, Append(p, c)) = Append(Cat(t, p), c)
    <3>1. Append(Cat(t, p), c) = Cat(Cat(t, p), One(c))
      BY <2>1, <2>3, OneMore
    <3> QED BY <1>1, <2>1, <2>3, <3>1, CatAssoc
  <2>5. EdSplit(Cat(t, Pre(l, k))) = EdGrown(Append(F, u), c)
    BY <2>1, <2>3, <2>4, SplitAppend
  <2>6. EdGrown(Append(F, u), c) = Append(F, Append(u, c))
    <3>1. Front(Append(F, u)) = F /\ Last(Append(F, u)) = u
      <4> HIDE DEF T
      <4> QED BY <1>2, <2>2, FrontOfMore
    <3>2. c # EdNL
      BY <2>1
    <3> QED BY <3>1, <3>2 DEF EdGrown
  <2>7. Append(u, c) = Cat(L, Append(p, c))
    <3>1. Append(u, c) = Cat(u, One(c))
      BY <2>1, <2>2, OneMore
    <3> QED BY <1>2, <2>1, <2>3, <3>1, CatAssoc DEF u
  <2> QED BY <2>1, <2>5, <2>6, <2>7
<1> HIDE DEF Ok
<1>6. D = {}
  <2>1. SUFFICES ASSUME D # {} PROVE FALSE
    OBVIOUS
  <2>2. D \subseteq Nat
    BY <1>3
  <2>3. PICK m \in D : \A k \in D : m <= k
    BY <2>1, <2>2, LeastPosition
  <2>4. m \in 0 .. n /\ ~Ok(m) /\ m \in Nat /\ m # 0
    BY <1>3, <1>4, <2>3
  <2>5. m - 1 \in 0 .. n /\ ~(m <= m - 1) /\ m \in 1 .. n
    BY <1>3, <2>4
  <2>6. Ok(m - 1)
    BY <2>3, <2>5
  <2> QED BY <1>5, <2>4, <2>5, <2>6
<1>7. Ok(n)
  <2>1. n \in 0 .. n
    BY <1>3
  <2> QED BY <1>6, <2>1
<1> QED BY <1>3, <1>7 DEF Ok, F, L

LEMMA SplitLine ==
    ASSUME NEW K, EdNL \notin K, NEW l \in Seq(K)
    PROVE  EdSplit(l) = One(l)
<1>1. <<>> \in Seq(K) /\ <<>> \in Seq(K \cup {EdNL})
  OBVIOUS
<1>2. One(<<>>) = Append(<<>>, <<>>) /\ One(l) = Append(<<>>, l)
  BY DEF One
<1>3. <<>> \in Seq(Seq(K))
  OBVIOUS
<1>4. Front(One(<<>>)) = <<>> /\ Last(One(<<>>)) = <<>>
  <2> DEFINE T == Seq(K)
             e == <<>>
  <2>1. e \in T
    BY <1>1
  <2> HIDE DEF T, e
  <2>2. <<>> \in Seq(T)
    OBVIOUS
  <2>3. Front(Append(<<>>, e)) = <<>> /\ Last(Append(<<>>, e)) = e
    BY <2>1, <2>2, FrontOfMore
  <2> QED BY <1>2, <2>3 DEF e
<1>5. EdSplit(Cat(<<>>, l)) = Append(Front(EdSplit(<<>>)), Cat(Last(EdSplit(<<>>)), l))
  BY <1>1, SplitOn
<1> QED BY <1>2, <1>4, <1>5, SplitEmpty, CatEmpty

(* Lines joined and split again are the lines they were. *)
LEMMA SplitJoin ==
    ASSUME NEW K, EdNL \notin K, NEW ls \in Seq(Seq(K)), ls # <<>>
    PROVE  EdSplit(EdJoin(ls)) = ls
<1> DEFINE C == K \cup {EdNL}
           T == Seq(K)
           n == Len(ls)
           Ok(k) == EdSplit(EdJoin(Pre(ls, k))) = Pre(ls, k)
           D == {k \in 1 .. n : ~Ok(k)}
<1>1. EdNL \in C /\ K \subseteq C /\ Seq(K) \subseteq Seq(C)
  BY SeqMonotonic
<1>2. Seq(Seq(K)) \subseteq Seq(Seq(C))
  BY <1>1, SeqMonotonic
<1>3. n \in Nat \ {0}
  BY LenProperties, EmptySeq
<1>4. /\ Pre(ls, 0) = <<>> /\ Pre(ls, n) = ls
      /\ \A k \in 0 .. n : Pre(ls, k) \in Seq(T) /\ Len(Pre(ls, k)) = k
      /\ \A k \in 1 .. n : ls[k] \in T /\ k - 1 \in 0 .. n /\ Pre(ls, k) = Append(Pre(ls, k - 1), ls[k])
  <2>1. ls \in Seq(T)
    OBVIOUS
  <2> HIDE DEF T
  <2> QED BY <2>1, Beginnings
<1>5. ASSUME NEW k \in 1 .. n, k = 1 \/ Ok(k - 1) PROVE Ok(k)
  <2> DEFINE p == Pre(ls, k - 1)
             l == ls[k]
  <2>1. p \in Seq(T) /\ l \in T /\ Pre(ls, k) = Append(p, l) /\ Len(p) = k - 1
    BY <1>4
  <2>2. k = 1 => p = <<>>
    BY <1>4
  <2>3. k # 1 => p # <<>> /\ EdSplit(EdJoin(p)) = p
    <3>1. k # 1 => Len(p) # 0
      BY <2>1
    <3> QED BY <1>5, <2>1, <3>1, EmptySeq
  <2> HIDE DEF p, l
  <2>4. CASE k = 1
    <3>1. Pre(ls, k) = One(l)
      BY <2>1, <2>2, <2>4 DEF One
    <3> QED BY <1>1, <2>1, <3>1, JoinOne, SplitLine
  <2>5. CASE k # 1
    <3>1. p \in Seq(Seq(C)) /\ l \in Seq(C) /\ l \in Seq(K)
      BY <1>1, <1>2, <2>1
    <3>2. EdJoin(p) \in Seq(C) /\ Break \in Seq(C)
      BY <1>1, <2>3, <2>5, <3>1, JoinType, BreakType
    <3> DEFINE u == Append(EdJoin(p), EdNL)
    <3>3. u \in Seq(C) /\ u = Cat(EdJoin(p), Break)
      <4>1. u = Cat(EdJoin(p), One(EdNL))
        BY <1>1, <3>2, OneMore
      <4> QED BY <3>2, <4>1, CatType DEF One, Break
    <3>4. EdSplit(u) = Append(p, <<>>)
      <4>1. EdSplit(u) = EdGrown(EdSplit(EdJoin(p)), EdNL)
        BY <1>1, <3>2, SplitAppend
      <4> QED BY <2>3, <2>5, <4>1 DEF EdGrown
    <3>5. Front(Append(p, <<>>)) = p /\ Last(Append(p, <<>>)) = <<>>
      <4> DEFINE e == <<>>
      <4>1. e \in T
        OBVIOUS
      <4> HIDE DEF T, e
      <4>2. Front(Append(p, e)) = p /\ Last(Append(p, e)) = e
        BY <2>1, <4>1, FrontOfMore
      <4> QED BY <4>2 DEF e
    <3>6. EdJoin(Append(p, l)) = Cat(u, l)
      <4>1. EdJoin(Append(p, l)) = Cat(EdJoin(p), Cat(Break, l))
        BY <1>1, <2>3, <2>5, <3>1, JoinAppend
      <4> QED BY <3>1, <3>2, <3>3, <4>1, CatAssoc
    <3> HIDE DEF u
    <3>7. EdSplit(Cat(u, l)) = Append(Front(EdSplit(u)), Cat(Last(EdSplit(u)), l))
      BY <3>1, <3>3, SplitOn DEF C
    <3>8. Cat(<<>>, l) = l
      BY <3>1, CatEmpty
    <3> QED BY <2>1, <3>4, <3>5, <3>6, <3>7, <3>8
  <2> QED BY <2>4, <2>5
<1> HIDE DEF Ok
<1>6. D = {}
  <2>1. SUFFICES ASSUME D # {} PROVE FALSE
    OBVIOUS
  <2>2. D \subseteq Nat
    BY <1>3
  <2>3. PICK m \in D : \A k \in D : m <= k
    BY <2>1, <2>2, LeastPosition
  <2>4. m \in 1 .. n /\ ~Ok(m) /\ m \in Nat
    BY <1>3, <2>3
  <2>5. m # 1 => m - 1 \in 1 .. n /\ ~(m <= m - 1)
    BY <1>3, <2>4
  <2>6. m # 1 => Ok(m - 1)
    BY <2>3, <2>5
  <2> QED BY <1>5, <2>4, <2>6
<1>7. Ok(n)
  <2>1. n \in 1 .. n
    BY <1>3
  <2> QED BY <1>6, <2>1
<1> QED BY <1>4, <1>7 DEF Ok

-----------------------------------------------------------------------------
(* A text with a cursor in it: the lines above, what is before the cursor on
   its line and after it, the lines below.                                 *)
EdInk == EdCells \ {EdNL}
At(F, x, y, G) == [lines |-> Cat(F, Cat(One(Cat(x, y)), G)), line |-> Len(F) + 1, col |-> Len(x)]

(* Lines that lines can be made of: any two put together are one too. *)
Closed(L) ==
    /\ L \subseteq Seq(EdInk) /\ <<>> \in L
    /\ \A a, b \in L : Cat(a, b) \in L

LEMMA NLIsCell == EdNL \in EdCells /\ EdNL \notin EdInk /\ EdInk \cup {EdNL} = EdCells
BY DEF EdCells, EdWritten, EdInk, EdPlain

LEMMA InkIsText == Seq(EdInk) \subseteq Seq(EdCells) /\ Seq(Seq(EdInk)) \subseteq Seq(Seq(EdCells))
<1>1. EdInk \subseteq EdCells
  BY DEF EdInk
<1>2. Seq(EdInk) \subseteq Seq(EdCells)
  BY <1>1, SeqMonotonic
<1> QED BY <1>2, SeqMonotonic

LEMMA InkIsClosed == Closed(Seq(EdInk))
<1>1. <<>> \in Seq(EdInk)
  OBVIOUS
<1>2. \A a, b \in Seq(EdInk) : Cat(a, b) \in Seq(EdInk)
  BY CatType
<1> QED BY <1>1, <1>2 DEF Closed

LEMMA AtParts ==
    ASSUME NEW T, NEW F \in Seq(T), NEW G \in Seq(T), NEW w \in T
    PROVE  LET ls == Cat(F, Cat(One(w), G)) IN
           /\ Len(F) \in Nat /\ Len(G) \in Nat
           /\ ls \in Seq(T) /\ ls # <<>> /\ Len(ls) = Len(F) + 1 + Len(G)
           /\ ls[Len(F) + 1] = w
           /\ SubSeq(ls, 1, Len(F)) = F
           /\ SubSeq(ls, Len(F) + 1 + 1, Len(ls)) = G
           /\ ls = Cat(Append(F, w), G)
           /\ Cat(One(w), G) \in Seq(T)
<1> DEFINE ls == Cat(F, Cat(One(w), G))
           n == Len(F)
           R == Cat(One(w), G)
<1>1. One(w) \in Seq(T) /\ Len(One(w)) = 1 /\ One(w)[1] = w /\ One(w) # <<>>
  BY OneType
<1>2. R \in Seq(T) /\ R # <<>> /\ Append(F, w) = Cat(F, One(w)) /\ Cat(F, One(w)) \in Seq(T)
  BY <1>1, CatType, CatNotEmpty, OneMore
<1>3. ls \in Seq(T) /\ ls # <<>>
  <2> HIDE DEF R
  <2>1. Cat(F, R) \in Seq(T) /\ Cat(F, R) # <<>>
    BY <1>2, CatType, CatNotEmpty
  <2> QED BY <2>1 DEF R
<1>4. ls = Cat(Append(F, w), G)
  BY <1>1, <1>2, CatAssoc
<1>5. n \in Nat /\ Len(G) \in Nat /\ Len(Append(F, w)) = n + 1 /\ Append(F, w)[n + 1] = w /\ Append(F, w) \in Seq(T)
  BY LenProperties, AppendProperties
<1> DEFINE A == Append(F, w)
<1> HIDE DEF A
<1>6. /\ Len(Cat(A, G)) = Len(A) + Len(G)
      /\ \A i \in 1 .. Len(A) + Len(G) : Cat(A, G)[i] = IF i <= Len(A) THEN A[i] ELSE G[i - Len(A)]
  BY <1>5, CatLen DEF A
<1>7. Post(Cat(A, G), Len(A)) = G
  BY <1>5, CutSides DEF A
<1>8. Pre(Cat(F, R), n) = F
  <2> HIDE DEF R
  <2> QED BY <1>2, CutSides
<1>9. Len(ls) = n + 1 + Len(G) /\ ls[n + 1] = w
  <2>1. Len(A) = n + 1 /\ A[n + 1] = w /\ ls = Cat(A, G)
    BY <1>4, <1>5 DEF A
  <2> HIDE DEF ls, n
  <2>2. n + 1 \in 1 .. Len(A) + Len(G) /\ n + 1 <= Len(A)
    BY <1>5, <2>1
  <2>3. Cat(A, G)[n + 1] = A[n + 1]
    BY <1>6, <2>2
  <2> QED BY <1>6, <2>1, <2>3
<1>10. SubSeq(ls, n + 1 + 1, Len(ls)) = G
  <2>1. Len(A) = n + 1 /\ ls = Cat(A, G)
    BY <1>4, <1>5 DEF A
  <2> HIDE DEF ls, n
  <2> QED BY <1>7, <2>1 DEF Post
<1>11. SubSeq(ls, 1, n) = F
  BY <1>8 DEF Pre
<1> QED BY <1>2, <1>3, <1>4, <1>5, <1>9, <1>10, <1>11

(* Another line in its place. *)
LEMMA AtReplaced ==
    ASSUME NEW T, NEW F \in Seq(T), NEW G \in Seq(T), NEW w \in T, NEW v \in T
    PROVE  [Cat(F, Cat(One(w), G)) EXCEPT ![Len(F) + 1] = v] = Cat(F, Cat(One(v), G))
<1> DEFINE n == Len(F)
           P(u) == Cat(F, Cat(One(u), G))
           A(u) == Append(F, u)
<1>1. ASSUME NEW u \in T
      PROVE  /\ P(u) \in Seq(T) /\ Len(P(u)) = n + 1 + Len(G) /\ n \in Nat /\ Len(G) \in Nat
             /\ P(u)[n + 1] = u
             /\ \A i \in 1 .. n + 1 + Len(G) : i # n + 1 => P(u)[i] = IF i <= n THEN F[i] ELSE G[i - (n + 1)]
  <2>1. /\ P(u) \in Seq(T) /\ Len(P(u)) = n + 1 + Len(G) /\ n \in Nat /\ Len(G) \in Nat
        /\ P(u)[n + 1] = u /\ P(u) = Cat(A(u), G)
    BY AtParts
  <2>2. A(u) \in Seq(T) /\ Len(A(u)) = n + 1 /\ \A i \in 1 .. n : A(u)[i] = F[i]
    BY AppendProperties
  <2> HIDE DEF P, A
  <2>3. \A i \in 1 .. Len(A(u)) + Len(G) : Cat(A(u), G)[i] = IF i <= Len(A(u)) THEN A(u)[i] ELSE G[i - Len(A(u))]
    BY <2>2, CatLen
  <2> HIDE DEF n
  <2>4. ASSUME NEW i \in 1 .. n + 1 + Len(G), i # n + 1 PROVE P(u)[i] = IF i <= n THEN F[i] ELSE G[i - (n + 1)]
    <3>1. CASE i <= n
      <4>1. i \in 1 .. n /\ i <= Len(A(u)) /\ i \in 1 .. Len(A(u)) + Len(G)
        BY <2>1, <2>2, <3>1
      <4> QED BY <2>1, <2>2, <2>3, <3>1, <4>1
    <3>2. CASE ~(i <= n)
      <4>1. ~(i <= Len(A(u))) /\ i \in 1 .. Len(A(u)) + Len(G)
        BY <2>1, <2>2, <2>4, <3>2
      <4> QED BY <2>1, <2>2, <2>3, <3>2, <4>1
    <3> QED BY <3>1, <3>2
  <2> QED BY <2>1, <2>4
<1>2. /\ P(w) \in Seq(T) /\ Len(P(w)) = n + 1 + Len(G) /\ n \in Nat /\ Len(G) \in Nat
      /\ \A i \in 1 .. n + 1 + Len(G) : i # n + 1 => P(w)[i] = IF i <= n THEN F[i] ELSE G[i - (n + 1)]
  BY <1>1
<1>3. /\ P(v) \in Seq(T) /\ Len(P(v)) = n + 1 + Len(G) /\ P(v)[n + 1] = v
      /\ \A i \in 1 .. n + 1 + Len(G) : i # n + 1 => P(v)[i] = IF i <= n THEN F[i] ELSE G[i - (n + 1)]
  BY <1>1
<1> HIDE DEF P, n
<1> DEFINE q == [P(w) EXCEPT ![n + 1] = v]
<1>4. n + 1 \in 1 .. Len(P(w))
  BY <1>2
<1>5. /\ q \in Seq(T) /\ Len(q) = Len(P(w))
      /\ \A j \in 1 .. Len(P(w)) : q[j] = IF j = n + 1 THEN v ELSE P(w)[j]
  BY <1>2, <1>4, ExceptSeq
<1> HIDE DEF q
<1>6. \A j \in 1 .. Len(q) : q[j] = P(v)[j]
  BY <1>2, <1>3, <1>5
<1>7. q = P(v)
  BY <1>2, <1>3, <1>5, <1>6, SeqEqual
<1> QED BY <1>7 DEF q, P, n

-----------------------------------------------------------------------------
(* The text up to the cursor and the text from it on.                      *)
Text == Seq(EdCells)
UpTo(F, x) == EdJoin(Append(F, x))
From(y, G) == EdJoin(Cat(One(y), G))

LEMMA TextJoins ==
    /\ Break \in Text /\ <<>> \in Text
    /\ \A a, b \in Text : Cat(a, b) \in Text
    /\ \A a, b, c \in Text : Cat(Cat(a, b), c) = Cat(a, Cat(b, c))
    /\ \A a \in Text : Cat(a, <<>>) = a /\ Cat(<<>>, a) = a
    /\ \A ls \in Seq(Text) : ls # <<>> => EdJoin(ls) \in Text
    /\ \A l \in Text : EdJoin(One(l)) = l
    /\ \A a, b \in Seq(Text) : a # <<>> /\ b # <<>> => EdJoin(Cat(a, b)) = Cat(EdJoin(a), Cat(Break, EdJoin(b)))
<1>1. EdNL \in EdCells
  BY NLIsCell
<1>2. Break \in Text /\ <<>> \in Text
  BY <1>1, BreakType DEF Text
<1>3. \A a, b \in Text : Cat(a, b) \in Text
  BY CatType DEF Text
<1>4. \A a, b, c \in Text : Cat(Cat(a, b), c) = Cat(a, Cat(b, c))
  BY CatAssoc DEF Text
<1>5. \A a \in Text : Cat(a, <<>>) = a /\ Cat(<<>>, a) = a
  BY CatEmpty DEF Text
<1>6. \A ls \in Seq(Text) : ls # <<>> => EdJoin(ls) \in Text
  BY <1>1, JoinType DEF Text
<1>7. \A l \in Text : EdJoin(One(l)) = l
  BY <1>1, JoinOne DEF Text
<1>8. \A a, b \in Seq(Text) : a # <<>> /\ b # <<>> => EdJoin(Cat(a, b)) = Cat(EdJoin(a), Cat(Break, EdJoin(b)))
  BY <1>1, JoinConcat DEF Text
<1> QED BY <1>2, <1>3, <1>4, <1>5, <1>6, <1>7, <1>8

(* Lists of texts, likewise. *)
LEMMA ListJoins ==
    /\ <<>> \in Seq(Text)
    /\ \A a, b \in Seq(Text) : Cat(a, b) \in Seq(Text) /\ (a # <<>> \/ b # <<>> => Cat(a, b) # <<>>)
    /\ \A a, b, c \in Seq(Text) : Cat(Cat(a, b), c) = Cat(a, Cat(b, c))
    /\ \A a \in Seq(Text) : Cat(a, <<>>) = a /\ Cat(<<>>, a) = a
    /\ \A l \in Text : One(l) \in Seq(Text) /\ One(l) # <<>>
    /\ \A a \in Seq(Text), l \in Text : Append(a, l) = Cat(a, One(l)) /\ Append(a, l) \in Seq(Text) /\ Append(a, l) # <<>>
<1>1. \A a, b \in Seq(Text) : Cat(a, b) \in Seq(Text) /\ (a # <<>> \/ b # <<>> => Cat(a, b) # <<>>)
  BY CatType, CatNotEmpty
<1>2. \A a, b, c \in Seq(Text) : Cat(Cat(a, b), c) = Cat(a, Cat(b, c))
  BY CatAssoc
<1>3. \A a \in Seq(Text) : Cat(a, <<>>) = a /\ Cat(<<>>, a) = a
  BY CatEmpty
<1>4. \A l \in Text : One(l) \in Seq(Text) /\ One(l) # <<>>
  BY OneType
<1>5. \A a \in Seq(Text), l \in Text : Append(a, l) = Cat(a, One(l)) /\ Append(a, l) \in Seq(Text) /\ Append(a, l) # <<>>
  BY OneMore, AppendProperties
<1>6. <<>> \in Seq(Text)
  OBVIOUS
<1> QED BY <1>1, <1>2, <1>3, <1>4, <1>5, <1>6

LEMMA UpToIs ==
    ASSUME NEW F \in Seq(Text), NEW x \in Text
    PROVE  /\ UpTo(F, x) \in Text
           /\ F = <<>> => UpTo(F, x) = x
           /\ F # <<>> => UpTo(F, x) = Cat(EdJoin(F), Cat(Break, x)) /\ EdJoin(F) \in Text
<1>1. Append(F, x) = Cat(F, One(x)) /\ Append(F, x) \in Seq(Text) /\ Append(F, x) # <<>> /\ One(x) \in Seq(Text) /\ One(x) # <<>>
  BY ListJoins
<1>2. F = <<>> => Append(F, x) = One(x)
  BY <1>1, ListJoins
<1>3. UpTo(F, x) = EdJoin(Cat(F, One(x)))
  BY <1>1 DEF UpTo
<1>4. UpTo(F, x) \in Text
  BY <1>1, <1>3, TextJoins
<1>5. CASE F = <<>>
  BY <1>1, <1>2, <1>3, <1>4, <1>5, TextJoins
<1>6. CASE F # <<>>
  <2>1. EdJoin(Cat(F, One(x))) = Cat(EdJoin(F), Cat(Break, EdJoin(One(x)))) /\ EdJoin(F) \in Text /\ EdJoin(One(x)) = x
    BY <1>1, <1>6, TextJoins
  <2> QED BY <1>3, <1>4, <1>6, <2>1
<1> QED BY <1>5, <1>6

LEMMA FromIs ==
    ASSUME NEW G \in Seq(Text), NEW y \in Text
    PROVE  /\ From(y, G) \in Text
           /\ G = <<>> => From(y, G) = y
           /\ G # <<>> => From(y, G) = Cat(y, Cat(Break, EdJoin(G))) /\ EdJoin(G) \in Text
<1>1. Cat(One(y), G) \in Seq(Text) /\ Cat(One(y), G) # <<>> /\ One(y) \in Seq(Text) /\ One(y) # <<>>
  BY ListJoins
<1>2. G = <<>> => Cat(One(y), G) = One(y)
  BY <1>1, ListJoins
<1>3. From(y, G) = EdJoin(Cat(One(y), G))
  BY DEF From
<1>4. From(y, G) \in Text
  BY <1>1, <1>3, TextJoins
<1>5. CASE G = <<>>
  BY <1>1, <1>2, <1>3, <1>4, <1>5, TextJoins
<1>6. CASE G # <<>>
  <2>1. EdJoin(Cat(One(y), G)) = Cat(EdJoin(One(y)), Cat(Break, EdJoin(G))) /\ EdJoin(G) \in Text /\ EdJoin(One(y)) = y
    BY <1>1, <1>6, TextJoins
  <2> QED BY <1>3, <1>4, <1>6, <2>1
<1> QED BY <1>5, <1>6

LEMMA UpToMore ==
    ASSUME NEW F \in Seq(Text), NEW x \in Text, NEW z \in Text
    PROVE  UpTo(F, Cat(x, z)) = Cat(UpTo(F, x), z)
<1>1. Cat(x, z) \in Text /\ Cat(Break, x) \in Text /\ Break \in Text
  BY TextJoins
<1>2. CASE F = <<>>
  BY <1>1, <1>2, UpToIs
<1>3. CASE F # <<>>
  <2>1. UpTo(F, Cat(x, z)) = Cat(EdJoin(F), Cat(Break, Cat(x, z))) /\ UpTo(F, x) = Cat(EdJoin(F), Cat(Break, x)) /\ EdJoin(F) \in Text
    BY <1>1, <1>3, UpToIs
  <2>2. Cat(Break, Cat(x, z)) = Cat(Cat(Break, x), z)
    BY <1>1, TextJoins
  <2> QED BY <1>1, <2>1, <2>2, TextJoins
<1> QED BY <1>2, <1>3

LEMMA FromMore ==
    ASSUME NEW G \in Seq(Text), NEW y \in Text, NEW z \in Text
    PROVE  From(Cat(z, y), G) = Cat(z, From(y, G))
<1>1. Cat(z, y) \in Text /\ Break \in Text
  BY TextJoins
<1>2. CASE G = <<>>
  BY <1>1, <1>2, FromIs
<1>3. CASE G # <<>>
  <2>1. From(Cat(z, y), G) = Cat(Cat(z, y), Cat(Break, EdJoin(G))) /\ From(y, G) = Cat(y, Cat(Break, EdJoin(G))) /\ EdJoin(G) \in Text
    BY <1>1, <1>3, FromIs
  <2>2. Cat(Break, EdJoin(G)) \in Text
    BY <1>1, <2>1, TextJoins
  <2> QED BY <1>1, <2>1, <2>2, TextJoins
<1> QED BY <1>2, <1>3

LEMMA UpToBreak ==
    ASSUME NEW F \in Seq(Text), NEW w \in Text
    PROVE  UpTo(Append(F, w), <<>>) = Cat(UpTo(F, w), Break)
<1>1. Append(F, w) \in Seq(Text) /\ Append(F, w) # <<>> /\ <<>> \in Text /\ Break \in Text
  BY ListJoins, TextJoins
<1>2. UpTo(Append(F, w), <<>>) = Cat(EdJoin(Append(F, w)), Cat(Break, <<>>))
  BY <1>1, UpToIs
<1> QED BY <1>1, <1>2, TextJoins DEF UpTo

LEMMA FromBreak ==
    ASSUME NEW G \in Seq(Text), NEW w \in Text
    PROVE  From(<<>>, Cat(One(w), G)) = Cat(Break, From(w, G))
<1>1. Cat(One(w), G) \in Seq(Text) /\ Cat(One(w), G) # <<>> /\ <<>> \in Text /\ Break \in Text
  BY ListJoins, TextJoins
<1>2. From(<<>>, Cat(One(w), G)) = Cat(<<>>, Cat(Break, EdJoin(Cat(One(w), G)))) /\ EdJoin(Cat(One(w), G)) \in Text
  BY <1>1, FromIs
<1>3. Cat(Break, EdJoin(Cat(One(w), G))) \in Text
  BY <1>1, <1>2, TextJoins
<1> QED BY <1>2, <1>3, TextJoins DEF From

LEMMA UpToLines ==
    ASSUME NEW F \in Seq(Text), NEW M \in Seq(Text), NEW l \in Text, F # <<>>
    PROVE  UpTo(Cat(F, M), l) = Cat(EdJoin(F), Cat(Break, UpTo(M, l)))
<1>1. Append(M, l) \in Seq(Text) /\ Append(M, l) # <<>> /\ Append(M, l) = Cat(M, One(l)) /\ One(l) \in Seq(Text) /\ Cat(F, M) \in Seq(Text)
  BY ListJoins
<1>2. Append(Cat(F, M), l) = Cat(F, Append(M, l))
  <2>1. Append(Cat(F, M), l) = Cat(Cat(F, M), One(l))
    BY <1>1, ListJoins
  <2>2. Cat(Cat(F, M), One(l)) = Cat(F, Cat(M, One(l)))
    BY <1>1, ListJoins
  <2> QED BY <1>1, <2>1, <2>2
<1> QED BY <1>1, <1>2, TextJoins DEF UpTo

LEMMA TextWhole ==
    ASSUME NEW F \in Seq(Text), NEW G \in Seq(Text), NEW x \in Text, NEW y \in Text
    PROVE  EdJoin(Cat(F, Cat(One(Cat(x, y)), G))) = Cat(UpTo(F, x), From(y, G))
<1> DEFINE w == Cat(x, y)
           R == Cat(One(w), G)
<1>1. w \in Text /\ From(w, G) = Cat(x, From(y, G)) /\ From(y, G) \in Text
  BY TextJoins, FromMore, FromIs
<1>2. R \in Seq(Text) /\ R # <<>> /\ EdJoin(R) = From(w, G)
  <2> HIDE DEF w
  <2> QED BY <1>1, ListJoins DEF From
<1> HIDE DEF R
<1>3. CASE F = <<>>
  <2>1. Cat(F, R) = R /\ UpTo(F, x) = x
    BY <1>2, <1>3, ListJoins, UpToIs
  <2> QED BY <1>1, <1>2, <2>1 DEF R
<1>4. CASE F # <<>>
  <2>1. EdJoin(Cat(F, R)) = Cat(EdJoin(F), Cat(Break, Cat(x, From(y, G))))
    BY <1>1, <1>2, <1>4, TextJoins
  <2>2. UpTo(F, x) = Cat(EdJoin(F), Cat(Break, x)) /\ EdJoin(F) \in Text
    BY <1>4, UpToIs
  <2>3. Break \in Text /\ Cat(Break, x) \in Text
    BY TextJoins
  <2>4. Cat(Cat(EdJoin(F), Cat(Break, x)), From(y, G)) = Cat(EdJoin(F), Cat(Cat(Break, x), From(y, G)))
    BY <1>1, <2>2, <2>3, TextJoins
  <2>5. Cat(Cat(Break, x), From(y, G)) = Cat(Break, Cat(x, From(y, G)))
    BY <1>1, <2>3, TextJoins
  <2> QED BY <2>1, <2>2, <2>4, <2>5 DEF R
<1> QED BY <1>3, <1>4 DEF R

-----------------------------------------------------------------------------
(* What an operation makes of a text with a cursor in it.                  *)
InkLine == Seq(EdInk)

LEMMA InkJoins ==
    /\ InkLine \subseteq Text /\ Seq(InkLine) \subseteq Seq(Text) /\ Closed(InkLine)
    /\ \A L : Closed(L) => L \subseteq InkLine /\ Seq(L) \subseteq Seq(InkLine)
    /\ \A t \in Text : EdSplit(t) \in Seq(InkLine) /\ EdSplit(t) # <<>> /\ EdJoin(EdSplit(t)) = t
    /\ \A l \in InkLine : EdSplit(l) = One(l)
    /\ \A ls \in Seq(InkLine) : ls # <<>> => EdSplit(EdJoin(ls)) = ls
<1>1. InkLine \subseteq Text /\ Seq(InkLine) \subseteq Seq(Text)
  BY InkIsText DEF InkLine, Text
<1>2. Closed(InkLine)
  BY InkIsClosed DEF InkLine
<1>3. ASSUME NEW L, Closed(L) PROVE L \subseteq InkLine /\ Seq(L) \subseteq Seq(InkLine)
  <2>1. L \subseteq InkLine
    BY <1>3 DEF Closed, InkLine
  <2> QED BY <2>1, SeqMonotonic
<1>4. \A t \in Text : EdSplit(t) \in Seq(InkLine) /\ EdSplit(t) # <<>> /\ EdJoin(EdSplit(t)) = t
  BY NLIsCell, SplitType DEF Text, InkLine
<1>5. \A l \in InkLine : EdSplit(l) = One(l)
  BY NLIsCell, SplitLine DEF InkLine
<1>6. \A ls \in Seq(InkLine) : ls # <<>> => EdSplit(EdJoin(ls)) = ls
  BY NLIsCell, SplitJoin DEF InkLine
<1> QED BY <1>1, <1>2, <1>3, <1>4, <1>5, <1>6

(* What such a text is made of, as the operations see it. *)
AtShape(s, F, x, y, G) ==
    /\ s.line = Len(F) + 1 /\ s.col = Len(x) /\ s.lines = Cat(F, Cat(One(Cat(x, y)), G))
    /\ s.lines \in Seq(InkLine) /\ s.lines # <<>> /\ Len(s.lines) = Len(F) + 1 + Len(G)
    /\ s.lines[s.line] = Cat(x, y) /\ Cat(x, y) \in InkLine
    /\ SubSeq(s.lines, 1, s.line - 1) = F /\ SubSeq(s.lines, s.line + 1, Len(s.lines)) = G
    /\ SubSeq(Cat(x, y), 1, s.col) = x /\ SubSeq(Cat(x, y), s.col + 1, Len(Cat(x, y))) = y
    /\ Len(F) \in Nat /\ Len(G) \in Nat /\ Len(x) \in Nat /\ Len(y) \in Nat /\ Len(Cat(x, y)) = Len(x) + Len(y)

LEMMA AtIs ==
    ASSUME NEW F \in Seq(InkLine), NEW G \in Seq(InkLine), NEW x \in InkLine, NEW y \in InkLine
    PROVE  AtShape(At(F, x, y, G), F, x, y, G)
<1> DEFINE s == At(F, x, y, G)
           w == Cat(x, y)
           ls == Cat(F, Cat(One(w), G))
<1>1. w \in InkLine
  BY CatType DEF InkLine
<1>2. Len(x) \in Nat /\ Len(y) \in Nat /\ Len(w) = Len(x) + Len(y)
  BY CatLen DEF InkLine
<1>3. SubSeq(w, 1, Len(x)) = x /\ SubSeq(w, Len(x) + 1, Len(w)) = y
  BY CutSides DEF InkLine, Pre, Post
<1>4. s.line = Len(F) + 1 /\ s.col = Len(x) /\ s.lines = ls
  BY DEF At
<1> HIDE DEF w, s
<1>5. /\ Len(F) \in Nat /\ Len(G) \in Nat
      /\ ls \in Seq(InkLine) /\ ls # <<>> /\ Len(ls) = Len(F) + 1 + Len(G)
      /\ ls[Len(F) + 1] = w
      /\ SubSeq(ls, 1, Len(F)) = F
      /\ SubSeq(ls, Len(F) + 1 + 1, Len(ls)) = G
  <2> DEFINE T == InkLine
  <2>1. F \in Seq(T) /\ G \in Seq(T) /\ w \in T
    BY <1>1
  <2> HIDE DEF T
  <2>2. /\ Len(F) \in Nat /\ Len(G) \in Nat
        /\ ls \in Seq(T) /\ ls # <<>> /\ Len(ls) = Len(F) + 1 + Len(G)
    BY <2>1, AtParts
  <2>3. ls[Len(F) + 1] = w
    BY <2>1, AtParts
  <2>4. SubSeq(ls, 1, Len(F)) = F
    BY <2>1, AtParts
  <2>5. SubSeq(ls, Len(F) + 1 + 1, Len(ls)) = G
    BY <2>1, AtParts
  <2> QED BY <2>2, <2>3, <2>4, <2>5 DEF T
<1> HIDE DEF ls
<1>6. Len(F) + 1 - 1 = Len(F)
  BY <1>5
<1>7. s.lines[s.line] = w
  BY <1>4, <1>5
<1>8. SubSeq(s.lines, 1, s.line - 1) = F
  BY <1>4, <1>5, <1>6
<1>9. SubSeq(s.lines, s.line + 1, Len(s.lines)) = G
  BY <1>4, <1>5
<1>10. SubSeq(w, 1, s.col) = x /\ SubSeq(w, s.col + 1, Len(w)) = y
  BY <1>3, <1>4
<1> QED BY <1>1, <1>2, <1>4, <1>5, <1>7, <1>8, <1>9, <1>10 DEF AtShape, w, ls, s

LEMMA AtText ==
    ASSUME NEW F \in Seq(InkLine), NEW G \in Seq(InkLine), NEW x \in InkLine, NEW y \in InkLine, NEW s, s = At(F, x, y, G)
    PROVE  /\ EdTextBefore(s) = UpTo(F, x) /\ EdTextAfter(s) = From(y, G)
           /\ EdJoin(s.lines) = Cat(UpTo(F, x), From(y, G))
           /\ EdCursorOk(s)
<1>1. AtShape(s, F, x, y, G)
  BY AtIs
<1>2. EdTextBefore(s) = UpTo(F, x)
  BY <1>1 DEF AtShape, EdTextBefore, UpTo
<1>3. EdTextAfter(s) = From(y, G)
  <2>1. EdTextAfter(s) = EdJoin(<<y>> \o G)
    BY <1>1 DEF AtShape, EdTextAfter
  <2> QED BY <2>1 DEF From, Cat, One
<1>4. EdJoin(s.lines) = Cat(UpTo(F, x), From(y, G))
  <2>1. s.lines = Cat(F, Cat(One(Cat(x, y)), G))
    BY <1>1 DEF AtShape
  <2>2. F \in Seq(Text) /\ G \in Seq(Text) /\ x \in Text /\ y \in Text
    BY InkJoins
  <2> QED BY <2>1, <2>2, TextWhole
<1>5. EdCursorOk(s)
  <2>1. s.line \in 1 .. Len(s.lines) /\ s.col \in 0 .. Len(Cat(x, y))
    BY <1>1 DEF AtShape
  <2>2. s.lines[s.line] = Cat(x, y)
    BY <1>1 DEF AtShape
  <2> QED BY <2>1, <2>2 DEF EdCursorOk
<1> QED BY <1>2, <1>3, <1>4, <1>5

(* Putting in a text of one line, and taking it out again. *)
LEMMA InsertOne ==
    ASSUME NEW F \in Seq(InkLine), NEW G \in Seq(InkLine), NEW x \in InkLine, NEW y \in InkLine, NEW t \in InkLine
    PROVE  EdInsertInto(At(F, x, y, G), t) = At(F, Cat(x, t), y, G)
<1> DEFINE s == At(F, x, y, G)
<1>1. EdSplit(t) = One(t) /\ Len(One(t)) = 1
  BY InkJoins, OneType
<1>2. AtShape(s, F, x, y, G)
  BY AtIs
<1> HIDE DEF s
<1>3. Len(Cat(x, t)) = Len(x) + Len(t)
  BY CatLen DEF InkLine
<1>4. EdInsertInto(s, t) = [lines |-> Cat(Cat(F, One(Cat(Cat(x, t), y))), G), line |-> Len(F) + 1 + 1 - 1, col |-> Len(x) + Len(t)]
  BY <1>1, <1>2 DEF EdInsertInto, Cat, One, AtShape
<1>5. Cat(Cat(F, One(Cat(Cat(x, t), y))), G) = Cat(F, Cat(One(Cat(Cat(x, t), y)), G))
  <2> DEFINE w == Cat(Cat(x, t), y)
  <2>1. w \in InkLine
    BY CatType DEF InkLine
  <2> HIDE DEF w
  <2>2. One(w) \in Seq(InkLine)
    BY <2>1, OneType
  <2> QED BY <2>2, CatAssoc DEF w
<1>6. Len(F) + 1 + 1 - 1 = Len(F) + 1
  BY <1>2 DEF AtShape
<1> QED BY <1>3, <1>4, <1>5, <1>6 DEF At, s

(* A text of several lines: the first, those between, and the last. *)
LEMMA ManyLines ==
    ASSUME NEW h \in InkLine, NEW M \in Seq(InkLine), NEW l \in InkLine,
           NEW t, EdSplit(t) = Cat(One(h), Append(M, l))
    PROVE  LET new == EdSplit(t) IN
           /\ Len(M) \in Nat /\ Len(new) = Len(M) + 2 /\ new[1] = h
           /\ Head(new) = h /\ Last(new) = l /\ SubSeq(new, 2, Len(new) - 1) = M
<1> DEFINE new == EdSplit(t)
<1>0. new = Cat(One(h), Append(M, l))
  OBVIOUS
<1> HIDE DEF new
<1>1. /\ One(h) \in Seq(InkLine) /\ Len(One(h)) = 1 /\ One(h)[1] = h
      /\ Append(M, l) \in Seq(InkLine) /\ Len(Append(M, l)) = Len(M) + 1 /\ Append(M, l)[Len(M) + 1] = l
      /\ Len(M) \in Nat /\ Append(M, l) = Cat(M, One(l)) /\ One(l) \in Seq(InkLine)
  <2>1. One(h) \in Seq(InkLine) /\ Len(One(h)) = 1 /\ One(h)[1] = h
    BY OneType
  <2>2. Append(M, l) \in Seq(InkLine) /\ Len(Append(M, l)) = Len(M) + 1 /\ Append(M, l)[Len(M) + 1] = l
    BY AppendProperties
  <2>3. Len(M) \in Nat /\ Append(M, l) = Cat(M, One(l)) /\ One(l) \in Seq(InkLine)
    BY LenProperties, OneMore, OneType
  <2> QED BY <2>1, <2>2, <2>3
<1> DEFINE p == One(h)
           q == Append(M, l)
<1> HIDE DEF p, q
<1>2. /\ Cat(p, q) \in Seq(InkLine) /\ Len(Cat(p, q)) = Len(p) + Len(q)
      /\ \A i \in 1 .. Len(p) + Len(q) : Cat(p, q)[i] = IF i <= Len(p) THEN p[i] ELSE q[i - Len(p)]
  BY <1>1, CatType, CatLen DEF p, q
<1>3. Len(p) = 1 /\ Len(q) = Len(M) + 1 /\ p[1] = h /\ q[Len(M) + 1] = l /\ new = Cat(p, q)
  BY <1>0, <1>1 DEF p, q
<1>4. Len(new) = Len(M) + 2
  BY <1>1, <1>2, <1>3
<1>5. new[1] = h
  <2>1. 1 \in 1 .. Len(p) + Len(q) /\ 1 <= Len(p)
    BY <1>1, <1>3
  <2> QED BY <1>2, <1>3, <2>1
<1>6. new[Len(M) + 2] = l
  <2>1. Len(M) + 2 \in 1 .. Len(p) + Len(q) /\ ~(Len(M) + 2 <= Len(p)) /\ Len(M) + 2 - Len(p) = Len(M) + 1
    BY <1>1, <1>3
  <2> QED BY <1>2, <1>3, <2>1
<1>7. SubSeq(new, 2, Len(M) + 1) = M
  <2>1. SubSeq(Cat(One(h), Cat(M, One(l))), Len(One(h)) + 1, Len(One(h)) + Len(M)) = M
    BY <1>1, Inside
  <2>2. Len(One(h)) + 1 = 2 /\ Len(One(h)) + Len(M) = Len(M) + 1
    BY <1>1
  <2> QED BY <1>0, <1>1, <2>1, <2>2
<1>8. Head(new) = new[1]
  <2>1. new # <<>>
    BY <1>1, <1>3, <1>2, CatNotEmpty DEF p
  <2>2. new \in Seq(InkLine)
    BY <1>2, <1>3
  <2> QED BY <2>1, <2>2, HeadTailProperties
<1>9. Len(new) - 1 = Len(M) + 1
  BY <1>1, <1>4
<1> QED BY <1>1, <1>4, <1>5, <1>6, <1>7, <1>8, <1>9 DEF Last, new

LEMMA InsertMany ==
    ASSUME NEW F \in Seq(InkLine), NEW G \in Seq(InkLine), NEW x \in InkLine, NEW y \in InkLine,
           NEW h \in InkLine, NEW M \in Seq(InkLine), NEW l \in InkLine,
           NEW t, EdSplit(t) = Cat(One(h), Append(M, l))
    PROVE  EdInsertInto(At(F, x, y, G), t) = At(Cat(Append(F, Cat(x, h)), M), l, y, G)
<1> DEFINE s == At(F, x, y, G)
           new == EdSplit(t)
           a == Cat(x, h)
           b == Cat(l, y)
<1>1. AtShape(s, F, x, y, G)
  BY AtIs
<1>2. a \in InkLine /\ b \in InkLine
  BY CatType DEF InkLine
<1>3. /\ Len(M) \in Nat /\ Len(new) = Len(M) + 2
      /\ Head(new) = h /\ Last(new) = l /\ SubSeq(new, 2, Len(new) - 1) = M
  BY ManyLines
<1> HIDE DEF s, new
<1>4. Len(new) # 1
  BY <1>3
<1>5. EdInsertInto(s, t) = [lines |-> Cat(Cat(F, Cat(Cat(One(a), M), One(b))), G), line |-> Len(F) + 1 + Len(new) - 1, col |-> Len(l)]
  BY <1>1, <1>3, <1>4 DEF EdInsertInto, Cat, One, new, AtShape
<1> HIDE DEF a, b
<1>6. Cat(Cat(F, Cat(Cat(One(a), M), One(b))), G) = Cat(Cat(Append(F, a), M), Cat(One(b), G))
  <2>1. One(a) \in Seq(InkLine) /\ One(b) \in Seq(InkLine) /\ Append(F, a) = Cat(F, One(a))
    BY <1>2, OneType, OneMore
  <2> DEFINE p == One(a)
             q == One(b)
  <2>2. p \in Seq(InkLine) /\ q \in Seq(InkLine)
    BY <2>1
  <2> HIDE DEF p, q
  <2>3. Cat(Cat(F, Cat(Cat(p, M), q)), G) = Cat(Cat(Cat(F, p), M), Cat(q, G))
    <3>1. Cat(p, M) \in Seq(InkLine) /\ Cat(F, Cat(p, M)) \in Seq(InkLine)
      BY <2>2, CatType
    <3>2. Cat(F, Cat(Cat(p, M), q)) = Cat(Cat(F, Cat(p, M)), q)
      BY <2>2, <3>1, CatAssoc
    <3>3. Cat(F, Cat(p, M)) = Cat(Cat(F, p), M)
      BY <2>2, CatAssoc
    <3>4. Cat(Cat(Cat(F, Cat(p, M)), q), G) = Cat(Cat(F, Cat(p, M)), Cat(q, G))
      BY <2>2, <3>1, CatAssoc
    <3> QED BY <3>2, <3>3, <3>4
  <2> QED BY <2>1, <2>3 DEF p, q
<1>7. Len(Cat(Append(F, a), M)) = Len(F) + 1 + Len(M)
  <2>1. Append(F, a) \in Seq(InkLine) /\ Len(Append(F, a)) = Len(F) + 1
    BY <1>2, AppendProperties
  <2> QED BY <2>1, CatLen
<1>8. Len(F) + 1 + Len(new) - 1 = Len(F) + 1 + Len(M) + 1
  BY <1>1, <1>3 DEF AtShape
<1> QED BY <1>5, <1>6, <1>7, <1>8 DEF At, s, a, b

(* deleteYankedText() takes out what was put in. *)
LEMMA WithoutOne ==
    ASSUME NEW F \in Seq(InkLine), NEW G \in Seq(InkLine), NEW x \in InkLine, NEW y \in InkLine, NEW t \in InkLine,
           edState = At(F, Cat(x, t), y, G)
    PROVE  EdWithoutYank(t) = At(F, x, y, G)
<1> DEFINE u == Cat(x, t)
           w == Cat(u, y)
<1>1. EdSplit(t) = One(t) /\ Len(One(t)) = 1
  BY InkJoins, OneType
<1>2. u \in InkLine /\ Cat(t, y) \in InkLine /\ Len(u) = Len(x) + Len(t) /\ Len(x) \in Nat /\ Len(t) \in Nat
  BY CatType, CatLen DEF InkLine
<1>3. SubSeq(w, 1, Len(x)) = x
  <2>1. w = Cat(x, Cat(t, y))
    BY CatAssoc DEF InkLine
  <2> DEFINE v == Cat(t, y)
  <2> HIDE DEF v
  <2>2. Pre(Cat(x, v), Len(x)) = x
    BY <1>2, CutSides DEF InkLine, v
  <2> QED BY <2>1, <2>2 DEF v, Pre
<1> HIDE DEF u
<1>4. AtShape(edState, F, u, y, G)
  BY <1>2, AtIs DEF u
<1>5. edState.line - (1 - 1) = Len(F) + 1 /\ edState.line = Len(F) + 1 /\ edState.col - Len(t) = Len(x)
  BY <1>2, <1>4 DEF AtShape
<1>6. EdAfter = y
  BY <1>4 DEF EdAfter, EdLine, AtShape
<1>7. EdWithoutYank(t) = [lines |-> Cat(Cat(F, One(Cat(x, y))), G), line |-> Len(F) + 1, col |-> Len(x)]
  BY <1>1, <1>3, <1>4, <1>5, <1>6 DEF EdWithoutYank, EdReplaceLines, AtShape, Cat, One
<1>8. Cat(Cat(F, One(Cat(x, y))), G) = Cat(F, Cat(One(Cat(x, y)), G))
  <2> DEFINE v == Cat(x, y)
  <2>1. v \in InkLine
    BY CatType DEF InkLine
  <2> HIDE DEF v
  <2>2. One(v) \in Seq(InkLine)
    BY <2>1, OneType
  <2> QED BY <2>2, CatAssoc DEF v
<1> QED BY <1>7, <1>8 DEF At

LEMMA WithoutMany ==
    ASSUME NEW F \in Seq(InkLine), NEW G \in Seq(InkLine), NEW x \in InkLine, NEW y \in InkLine,
           NEW h \in InkLine, NEW M \in Seq(InkLine), NEW l \in InkLine,
           NEW t, EdSplit(t) = Cat(One(h), Append(M, l)),
           edState = At(Cat(Append(F, Cat(x, h)), M), l, y, G)
    PROVE  EdWithoutYank(t) = At(F, x, y, G)
<1> DEFINE old == EdSplit(t)
           a == Cat(x, h)
           E == Cat(Append(F, a), M)
           R == Cat(One(Cat(l, y)), G)
<1>1. Len(M) \in Nat /\ Len(old) = Len(M) + 2 /\ old[1] = h
  BY ManyLines
<1>2. a \in InkLine /\ Len(a) = Len(x) + Len(h) /\ Len(x) \in Nat /\ Len(h) \in Nat /\ SubSeq(a, 1, Len(x)) = x
  BY CatType, CatLen, CutSides DEF InkLine, Pre
<1>3. Append(F, a) \in Seq(InkLine) /\ Len(Append(F, a)) = Len(F) + 1 /\ Len(F) \in Nat /\ Append(F, a) = Cat(F, One(a)) /\ One(a) \in Seq(InkLine)
  <2> HIDE DEF a
  <2> QED BY <1>2, AppendProperties, LenProperties, OneMore, OneType
<1>4. E \in Seq(InkLine) /\ Len(E) = Len(F) + 1 + Len(M)
  <2> DEFINE A == Append(F, a)
  <2>1. A \in Seq(InkLine) /\ Len(A) = Len(F) + 1
    BY <1>3
  <2> HIDE DEF A
  <2>2. Cat(A, M) \in Seq(InkLine) /\ Len(Cat(A, M)) = Len(A) + Len(M)
    BY <2>1, CatType, CatLen
  <2> QED BY <2>1, <2>2 DEF A
<1>5. R \in Seq(InkLine)
  <2> DEFINE v == Cat(l, y)
  <2>1. v \in InkLine
    BY CatType DEF InkLine
  <2> HIDE DEF v
  <2>2. One(v) \in Seq(InkLine)
    BY <2>1, OneType
  <2> QED BY <2>2, CatType DEF v
<1>6. AtShape(edState, E, l, y, G)
  <2> HIDE DEF E
  <2> QED BY <1>4, AtIs DEF E
<1>7. edState.lines = Cat(F, Cat(One(a), Cat(M, R)))
  <2>1. edState.lines = Cat(E, R)
    BY <1>6 DEF AtShape
  <2> HIDE DEF R, a
  <2>2. Cat(Cat(Cat(F, One(a)), M), R) = Cat(F, Cat(One(a), Cat(M, R)))
    <3>1. Cat(F, One(a)) \in Seq(InkLine) /\ Cat(M, R) \in Seq(InkLine)
      BY <1>3, <1>5, CatType
    <3>2. Cat(Cat(Cat(F, One(a)), M), R) = Cat(Cat(F, One(a)), Cat(M, R))
      BY <1>5, <3>1, CatAssoc
    <3> QED BY <1>3, <3>1, <3>2, CatAssoc
  <2> QED BY <1>3, <2>1, <2>2
<1>8. edState.lines[Len(F) + 1] = a /\ SubSeq(edState.lines, 1, Len(F)) = F
  <2> DEFINE Q == Cat(M, R)
  <2>1. Q \in Seq(InkLine)
    <3> HIDE DEF R
    <3> QED BY <1>5, CatType
  <2> HIDE DEF Q, a
  <2>2. Cat(F, Cat(One(a), Q))[Len(F) + 1] = a /\ SubSeq(Cat(F, Cat(One(a), Q)), 1, Len(F)) = F
    <3>1. F \in Seq(InkLine) /\ a \in InkLine
      BY <1>2
    <3> QED BY <2>1, <3>1, AtParts
  <2> QED BY <1>7, <2>2 DEF Q
<1> HIDE DEF a, E, R, old
<1>9. edState.line - (Len(old) - 1) = Len(F) + 1 /\ Len(a) - Len(h) = Len(x) /\ Len(old) # 1 /\ Len(F) + 1 - 1 = Len(F)
  <2>1. edState.line = Len(E) + 1
    BY <1>6 DEF AtShape
  <2> QED BY <1>1, <1>2, <1>3, <1>4, <2>1
<1>10. EdAfter = y /\ SubSeq(edState.lines, edState.line + 1, Len(edState.lines)) = G
  BY <1>6 DEF EdAfter, EdLine, AtShape
<1>11. EdWithoutYank(t) = [lines |-> Cat(Cat(F, One(Cat(x, y))), G), line |-> Len(F) + 1, col |-> Len(x)]
  <2> DEFINE first == edState.line - (Len(old) - 1)
             c == IF Len(old) = 1 THEN edState.col - Len(t) ELSE Len(edState.lines[first]) - Len(old[1])
  <2>1. first = Len(F) + 1
    BY <1>9
  <2>2. c = Len(x)
    <3>1. Len(edState.lines[first]) - Len(old[1]) = Len(x)
      BY <1>1, <1>8, <1>9, <2>1
    <3> QED BY <1>9, <3>1
  <2>3. EdReplaceLines(first, edState.line, <<SubSeq(edState.lines[first], 1, c) \o EdAfter>>) = Cat(Cat(F, One(Cat(x, y))), G)
    <3>1. SubSeq(edState.lines[first], 1, c) = x
      BY <1>2, <1>8, <2>1, <2>2
    <3>2. SubSeq(edState.lines, 1, first - 1) = F
      BY <1>8, <1>9, <2>1
    <3> HIDE DEF first, c
    <3> QED BY <1>10, <3>1, <3>2 DEF EdReplaceLines, Cat, One
  <2>4. EdWithoutYank(t) = [lines |-> EdReplaceLines(first, edState.line, <<SubSeq(edState.lines[first], 1, c) \o EdAfter>>), line |-> first, col |-> c]
    BY DEF EdWithoutYank, old
  <2> HIDE DEF first, c
  <2> QED BY <2>1, <2>2, <2>3, <2>4
<1>12. Cat(Cat(F, One(Cat(x, y))), G) = Cat(F, Cat(One(Cat(x, y)), G))
  <2> DEFINE v == Cat(x, y)
  <2>1. v \in InkLine
    BY CatType DEF InkLine
  <2> HIDE DEF v
  <2>2. One(v) \in Seq(InkLine)
    BY <2>1, OneType
  <2> QED BY <2>2, CatAssoc DEF v
<1> QED BY <1>11, <1>12 DEF At

-----------------------------------------------------------------------------
(* Cells taken out before the cursor and behind it. *)
LEMMA CutBack ==
    ASSUME NEW F \in Seq(InkLine), NEW G \in Seq(InkLine), NEW p \in InkLine, NEW k \in InkLine, NEW y \in InkLine,
           edState = At(F, Cat(p, k), y, G), NEW from, from = Len(p)
    PROVE  /\ EdCut(from, edState.col) = At(F, p, y, G)
           /\ SubSeq(EdLine, from + 1, edState.col) = k
<1> DEFINE x == Cat(p, k)
           w == Cat(x, y)
<1>1. x \in InkLine /\ Cat(k, y) \in InkLine /\ Cat(p, y) \in InkLine /\ Len(x) = Len(p) + Len(k) /\ w \in InkLine
  BY CatType, CatLen DEF InkLine
<1>2. w = Cat(p, Cat(k, y))
  BY CatAssoc DEF InkLine
<1>3. SubSeq(w, 1, from) = p
  <2> DEFINE v == Cat(k, y)
  <2> HIDE DEF v
  <2>1. Pre(Cat(p, v), Len(p)) = p
    BY <1>1, CutSides DEF InkLine, v
  <2> QED BY <1>2, <2>1 DEF v, Pre
<1>4. SubSeq(w, from + 1, Len(x)) = k
  <2>1. SubSeq(Cat(p, Cat(k, y)), Len(p) + 1, Len(p) + Len(k)) = k
    BY Inside DEF InkLine
  <2> QED BY <1>1, <1>2, <2>1
<1> HIDE DEF x
<1>5. AtShape(edState, F, x, y, G)
  BY <1>1, AtIs DEF x
<1>6. /\ EdLine = w /\ SubSeq(w, edState.col + 1, Len(w)) = y /\ edState.col = Len(x)
      /\ edState.lines = Cat(F, Cat(One(w), G)) /\ edState.line = Len(F) + 1
  BY <1>5 DEF EdLine, AtShape
<1> HIDE DEF w
<1>7. [edState.lines EXCEPT ![edState.line] = Cat(p, y)] = Cat(F, Cat(One(Cat(p, y)), G))
  <2> DEFINE v == Cat(p, y)
  <2> HIDE DEF v
  <2>1. [Cat(F, Cat(One(w), G)) EXCEPT ![Len(F) + 1] = v] = Cat(F, Cat(One(v), G))
    BY <1>1, AtReplaced DEF v
  <2> QED BY <1>6, <2>1 DEF v
<1>8. edState = [lines |-> edState.lines, line |-> edState.line, col |-> edState.col]
  BY DEF At
<1>9. EdCut(from, edState.col) = [lines |-> [edState.lines EXCEPT ![edState.line] = Cat(p, y)], line |-> edState.line, col |-> from]
  <2>1. SubSeq(EdLine, 1, from) \o SubSeq(EdLine, edState.col + 1, Len(EdLine)) = Cat(p, y)
    BY <1>3, <1>6 DEF Cat
  <2>2. EdCut(from, edState.col) = [edState EXCEPT !.lines[edState.line] = Cat(p, y), !.col = from]
    BY <2>1 DEF EdCut
  <2> DEFINE v == Cat(p, y)
  <2> HIDE DEF v
  <2> QED BY <1>8, <2>2 DEF v
<1> QED BY <1>4, <1>6, <1>7, <1>9 DEF At

LEMMA CutOn ==
    ASSUME NEW F \in Seq(InkLine), NEW G \in Seq(InkLine), NEW x \in InkLine, NEW k \in InkLine, NEW p \in InkLine,
           edState = At(F, x, Cat(k, p), G), NEW to, to = Len(x) + Len(k)
    PROVE  /\ EdCut(edState.col, to) = At(F, x, p, G)
           /\ SubSeq(EdLine, edState.col + 1, to) = k
<1> DEFINE y == Cat(k, p)
           w == Cat(x, y)
<1>1. y \in InkLine /\ Cat(x, k) \in InkLine /\ Cat(x, p) \in InkLine /\ Len(Cat(x, k)) = Len(x) + Len(k) /\ w \in InkLine
  BY CatType, CatLen DEF InkLine
<1>2. w = Cat(Cat(x, k), p)
  BY CatAssoc DEF InkLine
<1>3. SubSeq(w, to + 1, Len(w)) = p
  <2> DEFINE v == Cat(x, k)
  <2>0. w = Cat(v, p) /\ Len(v) = to /\ v \in InkLine
    BY <1>1, <1>2
  <2> HIDE DEF v, w
  <2>1. Post(Cat(v, p), Len(v)) = p
    BY <2>0, CutSides DEF InkLine
  <2> QED BY <2>0, <2>1 DEF Post
<1>4. SubSeq(w, Len(x) + 1, to) = k
  BY Inside DEF InkLine
<1> HIDE DEF y
<1>5. AtShape(edState, F, x, y, G)
  BY <1>1, AtIs DEF y
<1>6. /\ EdLine = w /\ SubSeq(w, 1, edState.col) = x /\ edState.col = Len(x)
      /\ edState.lines = Cat(F, Cat(One(w), G)) /\ edState.line = Len(F) + 1
  BY <1>5 DEF EdLine, AtShape
<1> HIDE DEF w
<1>7. [edState.lines EXCEPT ![edState.line] = Cat(x, p)] = Cat(F, Cat(One(Cat(x, p)), G))
  <2> DEFINE v == Cat(x, p)
  <2> HIDE DEF v
  <2>1. [Cat(F, Cat(One(w), G)) EXCEPT ![Len(F) + 1] = v] = Cat(F, Cat(One(v), G))
    BY <1>1, AtReplaced DEF v
  <2> QED BY <1>6, <2>1 DEF v
<1>8. edState = [lines |-> edState.lines, line |-> edState.line, col |-> edState.col]
  BY DEF At
<1>9. EdCut(edState.col, to) = [lines |-> [edState.lines EXCEPT ![edState.line] = Cat(x, p)], line |-> edState.line, col |-> edState.col]
  <2>1. SubSeq(EdLine, 1, edState.col) \o SubSeq(EdLine, to + 1, Len(EdLine)) = Cat(x, p)
    BY <1>3, <1>6 DEF Cat
  <2>2. EdCut(edState.col, to) = [edState EXCEPT !.lines[edState.line] = Cat(x, p), !.col = edState.col]
    BY <2>1 DEF EdCut
  <2> DEFINE v == Cat(x, p)
  <2> HIDE DEF v
  <2> QED BY <1>8, <2>2 DEF v
<1> QED BY <1>4, <1>6, <1>7, <1>9 DEF At

(* Two lines made one, from either of them. *)
LEMMA MergedBack ==
    ASSUME NEW F \in Seq(InkLine), NEW G \in Seq(InkLine), NEW w \in InkLine, NEW y \in InkLine,
           edState = At(Append(F, w), <<>>, y, G)
    PROVE  EdMergedBack = At(F, w, y, G)
<1> DEFINE E == Append(F, w)
           e == <<>>
           R == Cat(One(y), G)
<1>1. E \in Seq(InkLine) /\ Len(E) = Len(F) + 1 /\ e \in InkLine /\ Len(F) \in Nat /\ E = Cat(F, One(w)) /\ One(w) \in Seq(InkLine)
  <2>1. E \in Seq(InkLine) /\ Len(E) = Len(F) + 1
    BY AppendProperties
  <2> QED BY <2>1, LenProperties, OneMore, OneType DEF InkLine
<1>2. Cat(e, y) = y
  BY CatEmpty DEF InkLine
<1>3. R \in Seq(InkLine)
  BY OneType, CatType
<1> HIDE DEF E, e
<1>4. AtShape(edState, E, e, y, G)
  BY <1>1, AtIs DEF E, e
<1>5. edState.lines = Cat(E, R) /\ edState.line = Len(F) + 1 + 1 /\ EdLine = y /\ SubSeq(edState.lines, edState.line + 1, Len(edState.lines)) = G
  BY <1>1, <1>2, <1>4 DEF AtShape, EdLine
<1> HIDE DEF R
<1>6. edState.lines = Cat(F, Cat(One(w), R))
  BY <1>1, <1>3, <1>5, CatAssoc
<1>7. edState.lines[Len(F) + 1] = w /\ SubSeq(edState.lines, 1, Len(F)) = F
  <2>1. Cat(F, Cat(One(w), R))[Len(F) + 1] = w /\ SubSeq(Cat(F, Cat(One(w), R)), 1, Len(F)) = F
    BY <1>3, AtParts
  <2> QED BY <1>6, <2>1
<1>8. Len(F) + 1 + 1 - 1 = Len(F) + 1 /\ Len(F) + 1 - 1 = Len(F)
  BY <1>1
<1>9. EdReplaceLines(edState.line - 1, edState.line, <<edState.lines[edState.line - 1] \o EdLine>>) = Cat(Cat(F, One(Cat(w, y))), G)
  <2>1. edState.line - 1 = Len(F) + 1 /\ edState.line - 1 - 1 = Len(F)
    BY <1>5, <1>8
  <2>2. SubSeq(edState.lines, 1, edState.line - 1 - 1) = F /\ edState.lines[edState.line - 1] = w
    BY <1>7, <2>1
  <2> QED BY <1>5, <2>2 DEF EdReplaceLines, Cat, One
<1>10. Cat(Cat(F, One(Cat(w, y))), G) = Cat(F, Cat(One(Cat(w, y)), G))
  <2> DEFINE v == Cat(w, y)
  <2>1. v \in InkLine
    BY CatType DEF InkLine
  <2> HIDE DEF v
  <2>2. One(v) \in Seq(InkLine)
    BY <2>1, OneType
  <2> QED BY <2>2, CatAssoc DEF v
<1>11. EdMergedBack = [lines |-> Cat(F, Cat(One(Cat(w, y)), G)), line |-> Len(F) + 1, col |-> Len(w)]
  <2>1. edState.line - 1 = Len(F) + 1 /\ edState.lines[edState.line - 1] = w
    BY <1>5, <1>7, <1>8
  <2>2. EdReplaceLines(edState.line - 1, edState.line, <<edState.lines[edState.line - 1] \o EdLine>>)
        = Cat(F, Cat(One(Cat(w, y)), G))
    BY <1>9, <1>10
  <2> QED BY <2>1, <2>2 DEF EdMergedBack
<1> QED BY <1>11 DEF At

LEMMA MergedOn ==
    ASSUME NEW F \in Seq(InkLine), NEW G \in Seq(InkLine), NEW w \in InkLine, NEW x \in InkLine,
           edState = At(F, x, <<>>, Cat(One(w), G))
    PROVE  EdMergedOn = At(F, x, w, G)
<1> DEFINE E == Append(F, x)
           e == <<>>
           R == Cat(One(w), G)
<1>1. E \in Seq(InkLine) /\ Len(E) = Len(F) + 1 /\ e \in InkLine /\ Len(F) \in Nat /\ E = Cat(F, One(x)) /\ One(x) \in Seq(InkLine)
  <2>1. E \in Seq(InkLine) /\ Len(E) = Len(F) + 1
    BY AppendProperties
  <2> QED BY <2>1, LenProperties, OneMore, OneType DEF InkLine
<1>2. Cat(x, e) = x
  BY CatEmpty DEF InkLine
<1>3. R \in Seq(InkLine)
  BY OneType, CatType
<1> HIDE DEF E, e, R
<1>4. AtShape(edState, F, x, e, R)
  BY <1>1, <1>3, AtIs DEF e, R
<1>5. edState.lines = Cat(F, Cat(One(x), R)) /\ edState.line = Len(F) + 1 /\ edState.col = Len(x) /\ EdLine = x /\ SubSeq(edState.lines, 1, edState.line - 1) = F
  BY <1>1, <1>2, <1>4 DEF AtShape, EdLine
<1>6. edState.lines = Cat(E, Cat(One(w), G))
  BY <1>1, <1>3, <1>5, CatAssoc DEF R
<1>7. edState.lines[Len(F) + 1 + 1] = w /\ SubSeq(edState.lines, Len(F) + 1 + 1 + 1, Len(edState.lines)) = G
  <2>0. E \in Seq(InkLine)
    BY <1>1
  <2>1. Cat(E, Cat(One(w), G))[Len(E) + 1] = w
    BY <2>0, AtParts
  <2>2. SubSeq(Cat(E, Cat(One(w), G)), Len(E) + 1 + 1, Len(Cat(E, Cat(One(w), G)))) = G
    BY <2>0, AtParts
  <2> QED BY <1>1, <1>6, <2>1, <2>2
<1>8. EdReplaceLines(edState.line, edState.line + 1, <<EdLine \o edState.lines[edState.line + 1]>>) = Cat(Cat(F, One(Cat(x, w))), G)
  BY <1>5, <1>7 DEF EdReplaceLines, Cat, One
<1>9. Cat(Cat(F, One(Cat(x, w))), G) = Cat(F, Cat(One(Cat(x, w)), G))
  <2> DEFINE v == Cat(x, w)
  <2>1. v \in InkLine
    BY CatType DEF InkLine
  <2> HIDE DEF v
  <2>2. One(v) \in Seq(InkLine)
    BY <2>1, OneType
  <2> QED BY <2>2, CatAssoc DEF v
<1>10. edState = [lines |-> edState.lines, line |-> edState.line, col |-> edState.col]
  BY DEF At
<1>11. EdMergedOn = [lines |-> Cat(F, Cat(One(Cat(x, w)), G)), line |-> Len(F) + 1, col |-> Len(x)]
  BY <1>5, <1>8, <1>9, <1>10 DEF EdMergedOn
<1> QED BY <1>11 DEF At

-----------------------------------------------------------------------------
(* A text with its cursor, all of whose lines, and both halves of the one the
   cursor is on, are lines of L.                                           *)
Stands(s, L) == \E F, G \in Seq(L), x, y \in L : s = At(F, x, y, G)

LEMMA StandsAt ==
    ASSUME NEW L, L \subseteq InkLine, NEW ls \in Seq(L), NEW i \in 1 .. Len(ls), NEW c \in 0 .. Len(ls[i]),
           Pre(ls[i], c) \in L, Post(ls[i], c) \in L
    PROVE  Stands([lines |-> ls, line |-> i, col |-> c], L)
<1> DEFINE w == ls[i]
           F == Pre(ls, i - 1)
           G == Post(ls, i)
           x == Pre(w, c)
           y == Post(w, c)
<1>1. Len(ls) \in Nat /\ w \in L
  BY LenProperties, ElementOfSeq
<1>2. i - 1 \in 0 .. Len(ls) /\ i \in 0 .. Len(ls) /\ i - 1 + 1 = i
  BY <1>1
<1>3. F \in Seq(L) /\ Len(F) = i - 1 /\ G \in Seq(L) /\ Cat(Pre(ls, i), G) = ls
  BY <1>2, SidesMake
<1>4. Pre(ls, i) = Append(F, w)
  BY Beginnings
<1>5. Len(x) = c /\ Cat(x, y) = w
  <2> HIDE DEF w
  <2> QED BY <1>1, SidesMake DEF InkLine, w
<1>6. Cat(Append(F, w), G) = Cat(F, Cat(One(w), G))
  <2> HIDE DEF F, G, w
  <2> QED BY <1>1, <1>3, AtParts
<1>7. x \in L /\ y \in L
  OBVIOUS
<1> HIDE DEF F, G, x, y, w
<1>8. ls = Cat(F, Cat(One(Cat(x, y)), G))
  BY <1>3, <1>4, <1>5, <1>6
<1>9. i = Len(F) + 1 /\ c = Len(x)
  BY <1>2, <1>3, <1>5
<1>10. [lines |-> ls, line |-> i, col |-> c] = At(F, x, y, G)
  BY <1>8, <1>9 DEF At
<1> QED BY <1>3, <1>7, <1>10 DEF Stands

LEMMA StandsIs ==
    ASSUME NEW L, Closed(L), NEW s, Stands(s, L)
    PROVE  /\ s.lines \in Seq(L) /\ s.lines # <<>> /\ EdCursorOk(s)
           /\ s = [lines |-> s.lines, line |-> s.line, col |-> s.col]
           /\ s.line \in 1 .. Len(s.lines) /\ s.col \in 0 .. Len(s.lines[s.line]) /\ s.lines[s.line] \in L
           /\ Pre(s.lines[s.line], s.col) \in L /\ Post(s.lines[s.line], s.col) \in L
<1>1. PICK F \in Seq(L), G \in Seq(L), x \in L, y \in L : s = At(F, x, y, G)
  BY DEF Stands
<1>2. L \subseteq InkLine /\ Seq(L) \subseteq Seq(InkLine)
  BY InkJoins
<1>3. F \in Seq(InkLine) /\ G \in Seq(InkLine) /\ x \in InkLine /\ y \in InkLine
  BY <1>2
<1>4. AtShape(s, F, x, y, G) /\ EdCursorOk(s)
  BY <1>1, <1>3, AtIs, AtText
<1>5. Cat(x, y) \in L
  BY DEF Closed
<1>6. s.lines \in Seq(L)
  <2> DEFINE w == Cat(x, y)
  <2> HIDE DEF w
  <2>1. One(w) \in Seq(L)
    BY <1>5, OneType DEF w
  <2>2. Cat(F, Cat(One(w), G)) \in Seq(L)
    BY <2>1, CatType
  <2> QED BY <1>4, <2>2 DEF AtShape, w
<1>7. s = [lines |-> s.lines, line |-> s.line, col |-> s.col]
  BY <1>1 DEF At
<1>8. s.line \in 1 .. Len(s.lines) /\ s.col \in 0 .. Len(s.lines[s.line])
  BY <1>4 DEF EdCursorOk
<1>9. s.lines[s.line] = Cat(x, y) /\ Pre(Cat(x, y), s.col) = x /\ Post(Cat(x, y), s.col) = y /\ s.lines # <<>>
  BY <1>4 DEF AtShape, Pre, Post
<1> QED BY <1>4, <1>5, <1>6, <1>7, <1>8, <1>9

(* Putting in a text: what is before the cursor grows by it, and taking it out
   again gives back the state before.                                      *)
LEMMA Inserted ==
    ASSUME NEW L, Closed(L), NEW F \in Seq(L), NEW G \in Seq(L), NEW x \in L, NEW y \in L,
           NEW t \in Text, EdSplit(t) \in Seq(L)
    PROVE  \E F2 \in Seq(L), x2 \in L :
              /\ EdInsertInto(At(F, x, y, G), t) = At(F2, x2, y, G)
              /\ UpTo(F2, x2) = Cat(UpTo(F, x), t)
              /\ edState = At(F2, x2, y, G) => EdWithoutYank(t) = At(F, x, y, G)
<1> DEFINE new == EdSplit(t)
<1>1. L \subseteq InkLine /\ Seq(L) \subseteq Seq(InkLine) /\ InkLine \subseteq Text /\ Seq(InkLine) \subseteq Seq(Text)
  BY InkJoins
<1>2. F \in Seq(InkLine) /\ G \in Seq(InkLine) /\ x \in InkLine /\ y \in InkLine /\ F \in Seq(Text) /\ x \in Text
  BY <1>1
<1>3. new # <<>> /\ EdJoin(new) = t /\ new \in Seq(L) /\ Len(new) \in Nat
  <2>1. new \in Seq(L)
    OBVIOUS
  <2>2. Len(new) \in Nat
    <3> HIDE DEF new
    <3> QED BY <2>1, LenProperties
  <2> QED BY <2>1, <2>2, InkJoins
<1> HIDE DEF new
<1>4. CASE Len(new) = 1
  <2>1. new = One(Head(new)) /\ Head(new) \in L
    <3>1. Head(new) = new[1] /\ Head(new) \in L
      BY <1>3, HeadTailProperties
    <3>2. One(new[1]) \in Seq(L) /\ Len(One(new[1])) = 1 /\ One(new[1])[1] = new[1]
      BY <3>1, OneType
    <3>3. \A j \in 1 .. Len(new) : new[j] = One(new[1])[j]
      <4>1. \A j \in 1 .. 1 : j = 1
        OBVIOUS
      <4> QED BY <1>4, <3>2, <4>1
    <3>4. new = One(new[1])
      BY <1>3, <1>4, <3>2, <3>3, SeqEqual
    <3> QED BY <3>1, <3>4
  <2>2. t = Head(new)
    <3>1. Head(new) \in Text
      BY <1>1, <2>1
    <3>2. EdJoin(One(Head(new))) = Head(new)
      BY <3>1, TextJoins
    <3> QED BY <1>3, <2>1, <3>2
  <2>3. t \in L /\ t \in InkLine /\ Cat(x, t) \in L
    BY <1>1, <2>1, <2>2 DEF Closed
  <2>4. EdInsertInto(At(F, x, y, G), t) = At(F, Cat(x, t), y, G)
    BY <1>2, <2>3, InsertOne
  <2>5. UpTo(F, Cat(x, t)) = Cat(UpTo(F, x), t)
    BY <1>2, UpToMore
  <2>6. edState = At(F, Cat(x, t), y, G) => EdWithoutYank(t) = At(F, x, y, G)
    BY <1>2, <2>3, WithoutOne
  <2> QED BY <2>3, <2>4, <2>5, <2>6
<1>5. CASE Len(new) # 1
  <2>1. Len(new) > 1
    <3>1. Len(new) # 0 /\ Len(new) # 1
      BY <1>3, <1>5, EmptySeq
    <3>2. Len(new) \in Nat
      BY <1>3
    <3>3. \A n \in Nat : n # 0 /\ n # 1 => n > 1
      OBVIOUS
    <3> QED BY <3>1, <3>2, <3>3
  <2>2. PICK h \in L, M \in Seq(L), l \in L : new = Cat(One(h), Append(M, l))
    <3> DEFINE N == SubSeq(new, 2, Len(new) - 1)
    <3>1. new \in Seq(L)
      BY <1>3
    <3>2. Head(new) \in L /\ Last(new) \in L /\ N \in Seq(L) /\ new = Cat(One(Head(new)), Append(N, Last(new)))
      BY <2>1, <3>1, FirstAndLast
    <3> HIDE DEF N
    <3> QED BY <3>2
  <2>3. h \in InkLine /\ M \in Seq(InkLine) /\ l \in InkLine /\ EdSplit(t) = Cat(One(h), Append(M, l))
    BY <1>1, <2>2 DEF new
  <2> DEFINE a == Cat(x, h)
             A == Append(F, a)
             F2 == Cat(A, M)
  <2>4. EdInsertInto(At(F, x, y, G), t) = At(F2, l, y, G)
    BY <1>2, <2>3, InsertMany
  <2>5. edState = At(F2, l, y, G) => EdWithoutYank(t) = At(F, x, y, G)
    BY <1>2, <2>3, WithoutMany
  <2>6. a \in L
    BY DEF Closed
  <2>7. a \in Text /\ h \in Text /\ l \in Text /\ M \in Seq(Text)
    BY <1>1, <2>3, <2>6
  <2>8. UpTo(F, a) = Cat(UpTo(F, x), h) /\ UpTo(F, x) \in Text
    BY <1>2, <2>7, UpToMore, UpToIs
  <2> HIDE DEF a
  <2>9. A \in Seq(L) /\ A # <<>> /\ A \in Seq(Text)
    <3>1. A \in Seq(L) /\ A # <<>>
      BY <2>6, AppendProperties
    <3> QED BY <1>1, <3>1
  <2>10. EdJoin(A) = UpTo(F, a)
    BY DEF UpTo
  <2> HIDE DEF A
  <2>11. F2 \in Seq(L)
    BY <2>9, CatType
  <2>12. UpTo(F2, l) = Cat(Cat(UpTo(F, x), h), Cat(Break, UpTo(M, l)))
    BY <2>7, <2>8, <2>9, <2>10, UpToLines
  <2>13. t = Cat(h, Cat(Break, UpTo(M, l))) /\ UpTo(M, l) \in Text
    <3>1. One(h) \in Seq(Text) /\ One(h) # <<>> /\ Append(M, l) \in Seq(Text) /\ Append(M, l) # <<>> /\ EdJoin(One(h)) = h
      BY <2>7, ListJoins, TextJoins
    <3>2. EdJoin(Cat(One(h), Append(M, l))) = Cat(EdJoin(One(h)), Cat(Break, EdJoin(Append(M, l))))
      BY <3>1, TextJoins
    <3> QED BY <1>3, <2>2, <2>7, <3>1, <3>2, UpToIs DEF UpTo
  <2>14. Cat(Cat(UpTo(F, x), h), Cat(Break, UpTo(M, l))) = Cat(UpTo(F, x), Cat(h, Cat(Break, UpTo(M, l))))
    <3>1. Cat(Break, UpTo(M, l)) \in Text
      BY <2>13, TextJoins
    <3> QED BY <2>7, <2>8, <3>1, TextJoins
  <2>15. UpTo(F2, l) = Cat(UpTo(F, x), t)
    BY <2>12, <2>13, <2>14
  <2> HIDE DEF F2
  <2> QED BY <2>4, <2>5, <2>11, <2>15
<1> QED BY <1>4, <1>5

-----------------------------------------------------------------------------
(* The lines an editor may hold, given its live pastes P: while no paste marker
   has been killed every one is that of a live paste, and until a character
   jump has landed inside of a marker each is whole.                       *)
IsMark(cell) == cell.ch \in {"[", "]"}
LiveCells(P) == {cell \in EdInk : IsMark(cell) => cell.id = 0 \/ (cell.id \in DOMAIN P /\ P[cell.id] = cell.of)}
LiveLine(P) == Seq(LiveCells(P))
WholeLine(P) == {l \in LiveLine(P) : EdPaired(l)}
Lines(P, clean, torn) == IF ~clean THEN InkLine ELSE IF torn THEN LiveLine(P) ELSE WholeLine(P)

LEMMA LineKinds ==
    ASSUME NEW P
    PROVE  WholeLine(P) \subseteq LiveLine(P) /\ LiveLine(P) \subseteq InkLine
<1>1. LiveCells(P) \subseteq EdInk
  BY DEF LiveCells
<1>2. LiveLine(P) \subseteq InkLine
  BY <1>1, SeqMonotonic DEF LiveLine, InkLine
<1> QED BY <1>2 DEF WholeLine

LEMMA PairedJoin ==
    ASSUME NEW a \in InkLine, NEW b \in InkLine, EdPaired(a), EdPaired(b)
    PROVE  EdPaired(Cat(a, b))
<1> DEFINE l == Cat(a, b)
<1>1. /\ Len(a) \in Nat /\ Len(b) \in Nat /\ Len(l) = Len(a) + Len(b)
      /\ \A i \in 1 .. Len(a) + Len(b) : l[i] = IF i <= Len(a) THEN a[i] ELSE b[i - Len(a)]
  BY CatLen DEF InkLine
<1> HIDE DEF l
<1>2. ASSUME NEW c \in 1 .. Len(l)
      PROVE  /\ l[c].ch = "[" => c < Len(l) /\ l[c + 1] = [l[c] EXCEPT !.ch = "]"]
             /\ l[c].ch = "]" => c > 1 /\ l[c - 1] = [l[c] EXCEPT !.ch = "["]
  <2>1. CASE c <= Len(a)
    <3>1. l[c] = a[c] /\ c \in 1 .. Len(a)
      BY <1>1, <1>2, <2>1
    <3>2. a[c].ch = "[" => c < Len(a) /\ a[c + 1] = [a[c] EXCEPT !.ch = "]"]
      BY <3>1 DEF EdPaired
    <3>3. a[c].ch = "]" => c > 1 /\ a[c - 1] = [a[c] EXCEPT !.ch = "["]
      BY <3>1 DEF EdPaired
    <3>4. c < Len(a) => c < Len(l) /\ l[c + 1] = a[c + 1]
      <4>1. c < Len(a) => c < Len(l) /\ c + 1 \in 1 .. Len(a) + Len(b) /\ c + 1 <= Len(a)
        BY <1>1, <3>1
      <4> QED BY <1>1, <4>1
    <3>5. c > 1 => l[c - 1] = a[c - 1]
      <4>1. c > 1 => c - 1 \in 1 .. Len(a) + Len(b) /\ c - 1 <= Len(a)
        BY <1>1, <3>1
      <4> QED BY <1>1, <4>1
    <3> QED BY <3>1, <3>2, <3>3, <3>4, <3>5
  <2>2. CASE ~(c <= Len(a))
    <3> DEFINE d == c - Len(a)
    <3>1. l[c] = b[d] /\ d \in 1 .. Len(b) /\ c = d + Len(a)
      BY <1>1, <1>2, <2>2
    <3>2. b[d].ch = "[" => d < Len(b) /\ b[d + 1] = [b[d] EXCEPT !.ch = "]"]
      BY <3>1 DEF EdPaired
    <3>3. b[d].ch = "]" => d > 1 /\ b[d - 1] = [b[d] EXCEPT !.ch = "["]
      BY <3>1 DEF EdPaired
    <3> HIDE DEF d
    <3>4. d < Len(b) => c < Len(l) /\ l[c + 1] = b[d + 1]
      <4>1. d < Len(b) => c < Len(l) /\ c + 1 \in 1 .. Len(a) + Len(b) /\ ~(c + 1 <= Len(a)) /\ c + 1 - Len(a) = d + 1
        BY <1>1, <3>1
      <4> QED BY <1>1, <4>1
    <3>5. d > 1 => c > 1 /\ l[c - 1] = b[d - 1]
      <4>1. d > 1 => c > 1 /\ c - 1 \in 1 .. Len(a) + Len(b) /\ ~(c - 1 <= Len(a)) /\ c - 1 - Len(a) = d - 1
        BY <1>1, <3>1
      <4> QED BY <1>1, <4>1
    <3> QED BY <3>1, <3>2, <3>3, <3>4, <3>5
  <2> QED BY <2>1, <2>2
<1>3. EdPaired(l)
  BY <1>2 DEF EdPaired
<1> QED BY <1>3 DEF l

LEMMA LinesClosed ==
    ASSUME NEW P, NEW clean, NEW torn
    PROVE  Closed(Lines(P, clean, torn)) /\ Lines(P, clean, torn) \subseteq InkLine
<1>1. Closed(InkLine)
  BY InkJoins
<1>2. Closed(LiveLine(P))
  <2>1. LiveLine(P) \subseteq Seq(EdInk)
    BY LineKinds DEF InkLine
  <2>2. <<>> \in LiveLine(P)
    BY DEF LiveLine
  <2>3. \A a, b \in LiveLine(P) : Cat(a, b) \in LiveLine(P)
    BY CatType DEF LiveLine
  <2> QED BY <2>1, <2>2, <2>3 DEF Closed
<1>3. Closed(WholeLine(P))
  <2>1. WholeLine(P) \subseteq Seq(EdInk)
    BY LineKinds DEF InkLine
  <2>2. <<>> \in WholeLine(P)
    <3>1. <<>> \in LiveLine(P)
      BY DEF LiveLine
    <3>2. EdPaired(<<>>)
      BY DEF EdPaired
    <3> QED BY <3>1, <3>2 DEF WholeLine
  <2>3. ASSUME NEW a \in WholeLine(P), NEW b \in WholeLine(P) PROVE Cat(a, b) \in WholeLine(P)
    <3>1. a \in LiveLine(P) /\ b \in LiveLine(P) /\ a \in InkLine /\ b \in InkLine /\ EdPaired(a) /\ EdPaired(b)
      BY LineKinds DEF WholeLine
    <3>2. EdPaired(Cat(a, b))
      BY <3>1, PairedJoin
    <3>3. Cat(a, b) \in LiveLine(P)
      BY <1>2, <3>1 DEF Closed
    <3> QED BY <3>2, <3>3 DEF WholeLine
  <2> QED BY <2>1, <2>2, <2>3 DEF Closed
<1>4. InkLine \subseteq InkLine /\ LiveLine(P) \subseteq InkLine /\ WholeLine(P) \subseteq InkLine
  BY LineKinds
<1> QED BY <1>1, <1>2, <1>3, <1>4 DEF Lines

(* A line fit for an editor is fit for one with more pastes, or of which less
   can be said.                                                            *)
Extends(P2, P) == \A id \in DOMAIN P : id \in DOMAIN P2 /\ P2[id] = P[id]

LEMMA LinesLooser ==
    ASSUME NEW P, NEW P2, Extends(P2, P), NEW clean, NEW clean2, NEW torn, NEW torn2, clean2 => clean, torn => torn2
    PROVE  Lines(P, clean, torn) \subseteq Lines(P2, clean2, torn2)
<1>1. LiveCells(P) \subseteq LiveCells(P2)
  BY DEF LiveCells, Extends
<1>2. LiveLine(P) \subseteq LiveLine(P2)
  BY <1>1, SeqMonotonic DEF LiveLine
<1>3. WholeLine(P) \subseteq WholeLine(P2)
  BY <1>2 DEF WholeLine
<1>4. /\ LiveLine(P) \subseteq InkLine /\ WholeLine(P) \subseteq LiveLine(P)
      /\ LiveLine(P2) \subseteq InkLine /\ WholeLine(P2) \subseteq LiveLine(P2)
  BY LineKinds
<1>5. CASE ~clean2
  <2>1. Lines(P2, clean2, torn2) = InkLine /\ Lines(P, clean, torn) \subseteq InkLine
    BY <1>5, LinesClosed DEF Lines
  <2> QED BY <2>1
<1>6. CASE clean2 /\ torn2
  <2>1. Lines(P2, clean2, torn2) = LiveLine(P2) /\ clean
    BY <1>6 DEF Lines
  <2>2. Lines(P, clean, torn) \subseteq LiveLine(P)
    BY <1>4, <2>1 DEF Lines
  <2> QED BY <1>2, <2>1, <2>2
<1>7. CASE clean2 /\ ~torn2
  <2>1. Lines(P2, clean2, torn2) = WholeLine(P2) /\ Lines(P, clean, torn) = WholeLine(P)
    BY <1>7 DEF Lines
  <2> QED BY <1>3, <2>1
<1> QED BY <1>5, <1>6, <1>7

LEMMA StandsLooser ==
    ASSUME NEW L, NEW L2, L \subseteq L2, NEW s, Stands(s, L)
    PROVE  Stands(s, L2)
<1>1. Seq(L) \subseteq Seq(L2)
  BY SeqMonotonic
<1> QED BY <1>1 DEF Stands

(* A line is cut where no marker is. *)
Joint(P, l, i) ==
    /\ i > 0 /\ i < Len(l) /\ l[i].ch = "[" /\ l[i + 1].ch = "]"
    /\ l[i].id = l[i + 1].id /\ l[i].id \in DOMAIN P \cup {0}

LEMMA CellIs ==
    ASSUME NEW cell \in EdInk
    PROVE  \E ch, id, of : cell = [ch |-> ch, id |-> id, of |-> of]
<1>1. cell \in EdPlain \/ cell = EdImage[1] \/ cell = EdImage[2]
      \/ \E id, of \in 1 .. EdMaxPastes : cell = EdMarker(id, of)[1] \/ cell = EdMarker(id, of)[2]
  BY DEF EdInk, EdCells, EdWritten
<1>2. CASE cell \in EdPlain
  BY <1>2 DEF EdPlain, EdChars, EdNL, EdCell
<1>3. CASE \E id, of \in 1 .. EdMaxPastes : cell = EdMarker(id, of)[1] \/ cell = EdMarker(id, of)[2]
  BY <1>3 DEF EdMarker
<1>4. CASE cell = EdImage[1] \/ cell = EdImage[2]
  BY <1>4 DEF EdImage, EdMarker
<1> QED BY <1>1, <1>2, <1>3, <1>4

LEMMA WholeCut ==
    ASSUME NEW P, NEW w \in WholeLine(P), NEW k \in 0 .. Len(w), ~Joint(P, w, k)
    PROVE  Pre(w, k) \in WholeLine(P) /\ Post(w, k) \in WholeLine(P)
<1> DEFINE p == Pre(w, k)
           q == Post(w, k)
<1>1. w \in LiveLine(P) /\ EdPaired(w) /\ Len(w) \in Nat
  BY LenProperties DEF WholeLine, LiveLine
<1>2. /\ p \in LiveLine(P) /\ Len(p) = k /\ q \in LiveLine(P) /\ Len(q) = Len(w) - k /\ Cat(p, q) = w
  BY <1>1, SidesMake DEF LiveLine
<1>3. k \in Nat /\ k <= Len(w)
  BY <1>1
<1> HIDE DEF p, q
<1>4. (\A i \in 1 .. k : w[i] = p[i]) /\ (\A i \in 1 .. Len(w) - k : w[k + i] = q[i])
  <2>1. /\ Len(p) = k /\ Len(q) = Len(w) - k
        /\ \A i \in 1 .. k + (Len(w) - k) : w[i] = IF i <= k THEN p[i] ELSE q[i - k]
    <3>1. \A i \in 1 .. Len(p) + Len(q) : Cat(p, q)[i] = IF i <= Len(p) THEN p[i] ELSE q[i - Len(p)]
      BY <1>2, CatLen DEF LiveLine
    <3> QED BY <1>2, <3>1
  <2>2. ASSUME NEW i \in 1 .. k PROVE w[i] = p[i]
    <3>1. i \in 1 .. k + (Len(w) - k) /\ i <= k
      BY <1>1, <1>3
    <3> QED BY <2>1, <3>1
  <2>3. ASSUME NEW i \in 1 .. Len(w) - k PROVE w[k + i] = q[i]
    <3>1. PICK j \in 1 .. k + (Len(w) - k) : j = k + i
      BY <1>1, <1>3
    <3>2. ~(j <= k) /\ j - k = i
      BY <1>1, <1>3, <3>1
    <3> QED BY <2>1, <3>1, <3>2
  <2> QED BY <2>2, <2>3
<1>5. \A c \in 1 .. Len(w) : w[c].ch = "[" => c < Len(w) /\ w[c + 1] = [w[c] EXCEPT !.ch = "]"]
  BY <1>1 DEF EdPaired
<1>6. \A c \in 1 .. Len(w) : w[c].ch = "]" => c > 1 /\ w[c - 1] = [w[c] EXCEPT !.ch = "["]
  BY <1>1 DEF EdPaired
<1>7. \A c \in 1 .. Len(w) : w[c] \in EdInk /\ (w[c].ch = "[" => w[c].id \in DOMAIN P \cup {0})
  <2>1. \A c \in 1 .. Len(w) : w[c] \in LiveCells(P)
    BY <1>1, ElementOfSeq DEF LiveLine
  <2> QED BY <2>1 DEF LiveCells, IsMark
<1>8. \A cell \in EdInk : [cell EXCEPT !.ch = "]"].id = cell.id /\ [cell EXCEPT !.ch = "]"].ch = "]"
                          /\ [cell EXCEPT !.ch = "["].id = cell.id /\ [cell EXCEPT !.ch = "["].ch = "["
  <2> SUFFICES ASSUME NEW cell \in EdInk
               PROVE  /\ [cell EXCEPT !.ch = "]"].id = cell.id /\ [cell EXCEPT !.ch = "]"].ch = "]"
                      /\ [cell EXCEPT !.ch = "["].id = cell.id /\ [cell EXCEPT !.ch = "["].ch = "["
    OBVIOUS
  <2>1. PICK ch, id, of : cell = [ch |-> ch, id |-> id, of |-> of]
    BY CellIs
  <2> QED BY <2>1
<1>9. ~(k \in 1 .. Len(w) /\ w[k].ch = "[")
  <2> SUFFICES ASSUME k \in 1 .. Len(w), w[k].ch = "[" PROVE FALSE
    OBVIOUS
  <2>1. k < Len(w) /\ w[k + 1] = [w[k] EXCEPT !.ch = "]"] /\ w[k] \in EdInk /\ w[k].id \in DOMAIN P \cup {0}
    BY <1>5, <1>7
  <2>2. w[k + 1].ch = "]" /\ w[k + 1].id = w[k].id
    BY <1>8, <2>1
  <2> QED BY <2>1, <2>2 DEF Joint
<1>10. ~(k < Len(w) /\ w[k + 1].ch = "]")
  <2> SUFFICES ASSUME k < Len(w), w[k + 1].ch = "]" PROVE FALSE
    OBVIOUS
  <2>1. k + 1 \in 1 .. Len(w) /\ k + 1 - 1 = k
    BY <1>1, <1>3
  <2>2. k + 1 > 1 /\ w[k] = [w[k + 1] EXCEPT !.ch = "["] /\ w[k + 1] \in EdInk
    BY <1>6, <1>7, <2>1
  <2>3. w[k].ch = "[" /\ k \in 1 .. Len(w)
    BY <1>1, <1>3, <1>8, <2>2
  <2> QED BY <1>9, <2>3
<1>11. EdPaired(p)
  <2> SUFFICES ASSUME NEW c \in 1 .. k
               PROVE  /\ p[c].ch = "[" => c < k /\ p[c + 1] = [p[c] EXCEPT !.ch = "]"]
                      /\ p[c].ch = "]" => c > 1 /\ p[c - 1] = [p[c] EXCEPT !.ch = "["]
    BY <1>2 DEF EdPaired
  <2>1. c \in 1 .. Len(w) /\ w[c] = p[c]
    BY <1>1, <1>3, <1>4
  <2>2. p[c].ch = "[" => c < k
    BY <1>3, <1>9, <2>1
  <2>3. c < k => w[c + 1] = p[c + 1]
    <3>1. c < k => c + 1 \in 1 .. k
      BY <1>3
    <3> QED BY <1>4, <3>1
  <2>4. c > 1 => w[c - 1] = p[c - 1]
    <3>1. c > 1 => c - 1 \in 1 .. k
      BY <1>3
    <3> QED BY <1>4, <3>1
  <2> QED BY <1>5, <1>6, <2>1, <2>2, <2>3, <2>4
<1>12. EdPaired(q)
  <2> SUFFICES ASSUME NEW c \in 1 .. Len(w) - k
               PROVE  /\ q[c].ch = "[" => c < Len(w) - k /\ q[c + 1] = [q[c] EXCEPT !.ch = "]"]
                      /\ q[c].ch = "]" => c > 1 /\ q[c - 1] = [q[c] EXCEPT !.ch = "["]
    BY <1>2 DEF EdPaired
  <2>1. PICK d \in 1 .. Len(w) : d = k + c
    BY <1>1, <1>3
  <2>2. w[d] = q[c]
    BY <1>4, <2>1
  <2>3. d < Len(w) => c < Len(w) - k /\ w[d + 1] = q[c + 1]
    <3>1. d < Len(w) => c < Len(w) - k /\ c + 1 \in 1 .. Len(w) - k /\ k + (c + 1) = d + 1
      BY <1>1, <1>3, <2>1
    <3> QED BY <1>4, <3>1
  <2>4. c > 1 => w[d - 1] = q[c - 1]
    <3>1. c > 1 => c - 1 \in 1 .. Len(w) - k /\ k + (c - 1) = d - 1
      BY <1>1, <1>3, <2>1
    <3> QED BY <1>4, <3>1
  <2>5. q[c].ch = "]" => c > 1
    <3> SUFFICES ASSUME q[c].ch = "]", c = 1 PROVE FALSE
      BY <1>1, <1>3
    <3>1. d = k + 1 /\ k < Len(w)
      BY <1>1, <1>3, <2>1
    <3> QED BY <1>10, <2>2, <3>1
  <2> QED BY <1>5, <1>6, <2>2, <2>3, <2>4, <2>5
<1> QED BY <1>2, <1>11, <1>12 DEF WholeLine, p, q

LEMMA LinesCut ==
    ASSUME NEW P, NEW clean, NEW torn, NEW w \in Lines(P, clean, torn), NEW k \in 0 .. Len(w), clean /\ ~torn => ~Joint(P, w, k)
    PROVE  Pre(w, k) \in Lines(P, clean, torn) /\ Post(w, k) \in Lines(P, clean, torn)
<1>1. CASE ~clean
  <2>1. Lines(P, clean, torn) = InkLine
    BY <1>1 DEF Lines
  <2> QED BY <2>1, SidesMake DEF InkLine
<1>2. CASE clean /\ torn
  <2>1. Lines(P, clean, torn) = LiveLine(P)
    BY <1>2 DEF Lines
  <2> QED BY <2>1, SidesMake DEF LiveLine
<1>3. CASE clean /\ ~torn
  <2>1. Lines(P, clean, torn) = WholeLine(P)
    BY <1>3 DEF Lines
  <2> QED BY <1>3, <2>1, WholeCut
<1> QED BY <1>1, <1>2, <1>3

-----------------------------------------------------------------------------
(* What is put in: plain text, what the kill ring holds, and a new marker. *)
LEMMA PlainCells ==
    /\ EdChars \subseteq EdInk /\ EdPlain = EdChars \cup {EdNL} /\ EdNL \notin EdChars /\ EdPlain \subseteq EdCells
    /\ \A cell \in EdChars : ~IsMark(cell)
    /\ \A cell \in EdCells : ~IsMark(cell) => cell \in EdPlain
    /\ EdWritten \subseteq EdCells /\ EdPlain \subseteq EdWritten /\ EdNL \in EdWritten
<1>1. \A cell \in EdChars : ~IsMark(cell) /\ cell # EdNL
  <2> SUFFICES ASSUME NEW cell \in EdChars PROVE ~IsMark(cell) /\ cell # EdNL
    OBVIOUS
  <2>1. PICK ch \in {"a", " ", ".", "\\"} : cell = EdCell(ch)
    BY DEF EdChars
  <2>2. cell.ch = ch /\ EdNL.ch = "nl"
    BY <2>1 DEF EdCell, EdNL
  <2> QED BY <2>2 DEF IsMark
<1>2. ASSUME NEW cell \in EdCells, ~IsMark(cell) PROVE cell \in EdPlain
  BY <1>2 DEF EdCells, EdWritten, EdImage, EdMarker, IsMark
<1> QED BY <1>1, <1>2 DEF EdPlain, EdInk, EdCells, EdWritten

LEMMA PlainLines ==
    ASSUME NEW P
    PROVE  Seq(EdChars) \subseteq WholeLine(P)
<1>1. EdChars \subseteq LiveCells(P)
  BY PlainCells DEF LiveCells
<1>2. Seq(EdChars) \subseteq LiveLine(P)
  BY <1>1, SeqMonotonic DEF LiveLine
<1>3. ASSUME NEW l \in Seq(EdChars) PROVE EdPaired(l)
  <2>1. \A c \in 1 .. Len(l) : ~IsMark(l[c])
    BY PlainCells, ElementOfSeq
  <2> QED BY <2>1 DEF EdPaired, IsMark
<1> QED BY <1>2, <1>3 DEF WholeLine

LEMMA WholeIsFit ==
    ASSUME NEW P, NEW clean, NEW torn
    PROVE  WholeLine(P) \subseteq Lines(P, clean, torn)
BY LineKinds DEF Lines

LEMMA SeqOfBoth ==
    ASSUME NEW S, NEW T, NEW s \in Seq(S), \A i \in 1 .. Len(s) : s[i] \in T
    PROVE  s \in Seq(T)
<1>1. Len(s) \in Nat /\ s = [i \in 1 .. Len(s) |-> s[i]]
  BY LenProperties
<1>2. s \in [1 .. Len(s) -> T]
  BY <1>1
<1> QED BY <1>1, <1>2

(* A text as it comes in: the image markers in it are whole. *)
Written == {text \in Seq(EdWritten) : EdIntact(text)}

LEMMA ImageCells ==
    /\ EdWritten \ {EdNL} \subseteq LiveCells(<<>>)
    /\ \A P : Extends(P, <<>>)
<1>1. ASSUME NEW cell \in EdWritten \ {EdNL} PROVE cell \in LiveCells(<<>>)
  <2>1. cell \in EdInk
    BY PlainCells DEF EdInk
  <2>2. IsMark(cell) => cell.id = 0
    <3>1. CASE cell \in EdChars
      BY <3>1, PlainCells
    <3>2. CASE cell = EdImage[1] \/ cell = EdImage[2]
      BY <3>2 DEF EdImage, EdMarker
    <3> QED BY <3>1, <3>2 DEF EdWritten, EdPlain
  <2> QED BY <2>1, <2>2 DEF LiveCells
<1>2. DOMAIN <<>> = {}
  OBVIOUS
<1> QED BY <1>1, <1>2 DEF Extends

(* Lines that are whole are fit, however much is known of the text. *)
LEMMA WholeLinesFit ==
    ASSUME NEW P, NEW clean, NEW torn, NEW ls \in Seq(LiveLine(<<>>)), \A i \in 1 .. Len(ls) : EdPaired(ls[i])
    PROVE  ls \in Seq(Lines(P, clean, torn)) /\ ls \in Seq(WholeLine(<<>>))
<1>1. \A i \in 1 .. Len(ls) : ls[i] \in WholeLine(<<>>)
  BY ElementOfSeq DEF WholeLine
<1>2. ls \in Seq(WholeLine(<<>>))
  BY <1>1, SeqOfBoth
<1>3. WholeLine(<<>>) \subseteq Lines(P, clean, torn)
  <2>1. WholeLine(<<>>) \subseteq Lines(<<>>, clean, torn)
    BY WholeIsFit
  <2>2. Lines(<<>>, clean, torn) \subseteq Lines(P, clean, torn)
    BY ImageCells, LinesLooser
  <2> QED BY <2>1, <2>2
<1> QED BY <1>2, <1>3, SeqMonotonic

LEMMA SplitWritten ==
    ASSUME NEW P, NEW clean, NEW torn, NEW t \in Written
    PROVE  EdSplit(t) \in Seq(Lines(P, clean, torn)) /\ EdSplit(t) # <<>> /\ EdJoin(EdSplit(t)) = t /\ t \in Text
<1> DEFINE K == EdWritten \ {EdNL}
           ls == EdSplit(t)
<1>1. t \in Seq(K \cup {EdNL}) /\ EdNL \notin K /\ EdIntact(t)
  <2>1. K \cup {EdNL} = EdWritten
    BY PlainCells
  <2> QED BY <2>1 DEF Written
<1>2. K \subseteq LiveCells(<<>>)
  BY ImageCells
<1> HIDE DEF K
<1>3. ls \in Seq(Seq(K)) /\ ls # <<>> /\ EdJoin(ls) = t
  BY <1>1, SplitType
<1>4. Seq(Seq(K)) \subseteq Seq(LiveLine(<<>>))
  <2>1. Seq(K) \subseteq LiveLine(<<>>)
    BY <1>2, SeqMonotonic DEF LiveLine
  <2> QED BY <2>1, SeqMonotonic
<1>5. \A i \in 1 .. Len(ls) : EdPaired(ls[i])
  BY <1>1 DEF EdIntact
<1> HIDE DEF ls
<1>6. ls \in Seq(Lines(P, clean, torn))
  BY <1>3, <1>4, <1>5, WholeLinesFit
<1>7. t \in Text
  <2>1. Seq(EdWritten) \subseteq Seq(EdCells)
    BY PlainCells, SeqMonotonic
  <2> QED BY <2>1 DEF Text, Written
<1> QED BY <1>3, <1>6, <1>7 DEF ls

LEMMA PlainIsWritten == Seq(EdPlain) \subseteq Written
<1> SUFFICES ASSUME NEW t \in Seq(EdPlain) PROVE t \in Written
  OBVIOUS
<1> DEFINE ls == EdSplit(t)
<1>1. ls \in Seq(Seq(EdChars))
  BY PlainCells, SplitType
<1> HIDE DEF ls
<1>2. ASSUME NEW i \in 1 .. Len(ls) PROVE EdPaired(ls[i])
  <2>1. ls[i] \in Seq(EdChars)
    BY <1>1, ElementOfSeq
  <2> QED BY <2>1, PlainLines DEF WholeLine
<1>3. EdIntact(t)
  BY <1>2 DEF EdIntact, ls
<1>4. t \in Seq(EdWritten)
  BY PlainCells, SeqMonotonic
<1> QED BY <1>3, <1>4 DEF Written

(* A text with no paste marker in it stands on lines fit whatever is pasted. *)
LEMMA UnpastedLive ==
    ASSUME NEW t \in Text, EdMarkerCells(t) = {}
    PROVE  EdSplit(t) \in Seq(LiveLine(<<>>))
<1> DEFINE K == LiveCells(<<>>)
<1>1. Len(t) \in Nat /\ DOMAIN t = 1 .. Len(t) /\ \A i \in 1 .. Len(t) : t[i] \in EdCells
  BY LenProperties, ElementOfSeq DEF Text
<1>2. ASSUME NEW i \in 1 .. Len(t) PROVE t[i] \in K \cup {EdNL}
  <2>1. t[i] \in Range(t)
    BY <1>1 DEF Range
  <2>2. IsMark(t[i]) => t[i].id = 0
    BY <2>1 DEF EdMarkerCells, IsMark
  <2>3. t[i] # EdNL => t[i] \in EdInk
    BY <1>1 DEF EdInk
  <2> QED BY <2>2, <2>3 DEF LiveCells
<1>3. EdNL \notin K
  BY NLIsCell DEF LiveCells
<1> HIDE DEF K
<1>4. t \in Seq(K \cup {EdNL})
  BY <1>2, SeqOfBoth DEF Text
<1>5. EdSplit(t) \in Seq(Seq(K))
  BY <1>3, <1>4, SplitType
<1> QED BY <1>5 DEF K, LiveLine

LEMMA UnpastedSplit ==
    ASSUME NEW P, NEW clean, NEW torn, NEW t \in Text, clean => EdMarkerCells(t) = {}, EdSplit(t) \in Seq(Lines(P, clean, torn))
    PROVE  EdSplit(t) \in Seq(Lines(<<>>, clean, torn))
<1> DEFINE ls == EdSplit(t)
<1>1. CASE ~clean
  <2>1. Lines(<<>>, clean, torn) = InkLine
    BY <1>1 DEF Lines
  <2> QED BY <2>1, InkJoins
<1>2. CASE clean
  <2>1. ls \in Seq(LiveLine(<<>>))
    BY <1>2, UnpastedLive
  <2>2. CASE torn
    BY <1>2, <2>1, <2>2 DEF Lines
  <2>3. CASE ~torn
    <3>1. ls \in Seq(WholeLine(P))
      BY <1>2, <2>3 DEF Lines
    <3> HIDE DEF ls
    <3>2. \A i \in 1 .. Len(ls) : EdPaired(ls[i])
      BY <3>1, ElementOfSeq DEF WholeLine
    <3>3. ls \in Seq(Lines(<<>>, clean, torn))
      BY <2>1, <3>2, WholeLinesFit
    <3> QED BY <3>3 DEF ls
  <2> QED BY <2>2, <2>3
<1> QED BY <1>1, <1>2

(* What the kill ring holds, while no marker has been killed or torn, is whole
   and has no paste marker in it.                                          *)
RingWhole(ring, clean, torn) == \A i \in 1 .. Len(ring) : EdSplit(ring[i]) \in Seq(Lines(<<>>, clean, torn))

LEMMA RingLooser ==
    ASSUME NEW ring, NEW clean, NEW clean2, NEW torn, NEW torn2, clean2 => clean, torn => torn2, RingWhole(ring, clean, torn)
    PROVE  RingWhole(ring, clean2, torn2)
<1>1. Lines(<<>>, clean, torn) \subseteq Lines(<<>>, clean2, torn2)
  BY ImageCells, LinesLooser
<1>2. Seq(Lines(<<>>, clean, torn)) \subseteq Seq(Lines(<<>>, clean2, torn2))
  BY <1>1, SeqMonotonic
<1> QED BY <1>2 DEF RingWhole

LEMMA SplitMarker ==
    ASSUME NEW P, NEW clean, NEW torn, NEW id \in 1 .. EdMaxPastes, NEW of \in 1 .. EdMaxPastes,
           id \in DOMAIN P, P[id] = of
    PROVE  EdMarker(id, of) \in Text /\ EdSplit(EdMarker(id, of)) \in Seq(Lines(P, clean, torn))
<1> DEFINE h == [ch |-> "[", id |-> id, of |-> of]
           e == [ch |-> "]", id |-> id, of |-> of]
           m == EdMarker(id, of)
<1>1. m = <<h, e>> /\ m[1] = h /\ m[2] = e
  BY DEF EdMarker
<1>2. h \in EdCells /\ e \in EdCells
  <2>1. ASSUME NEW i \in 1 .. EdMaxPastes, NEW o \in 1 .. EdMaxPastes
        PROVE  EdMarker(i, o)[1] \in EdCells /\ EdMarker(i, o)[2] \in EdCells
    <3> DEFINE U == {{EdMarker(j, u)[1], EdMarker(j, u)[2]} : j, u \in 1 .. EdMaxPastes}
               a == EdMarker(i, o)[1]
               b == EdMarker(i, o)[2]
    <3>1. {a, b} \in U
      OBVIOUS
    <3>2. EdCells = EdWritten \cup UNION U
      BY DEF EdCells
    <3> HIDE DEF U, a, b
    <3>3. a \in EdCells /\ b \in EdCells
      BY <3>1, <3>2
    <3> QED BY <3>3 DEF a, b
  <2> QED BY <1>1, <2>1
<1>3. h # EdNL /\ e # EdNL
  BY DEF EdNL, EdCell
<1>4. h \in LiveCells(P) /\ e \in LiveCells(P)
  BY <1>2, <1>3 DEF LiveCells, EdInk
<1>5. m \in LiveLine(P) /\ Len(m) = 2
  <2> HIDE DEF h, e, m
  <2> QED BY <1>1, <1>4 DEF LiveLine
<1>6. EdPaired(m)
  <2>1. [h EXCEPT !.ch = "]"] = e /\ [e EXCEPT !.ch = "["] = h /\ h.ch = "[" /\ e.ch = "]"
    OBVIOUS
  <2> HIDE DEF h, e, m
  <2>2. \A c \in 1 .. Len(m) : c = 1 \/ c = 2
    BY <1>5
  <2> SUFFICES ASSUME NEW c \in 1 .. Len(m)
               PROVE  /\ m[c].ch = "[" => c < Len(m) /\ m[c + 1] = [m[c] EXCEPT !.ch = "]"]
                      /\ m[c].ch = "]" => c > 1 /\ m[c - 1] = [m[c] EXCEPT !.ch = "["]
    BY DEF EdPaired
  <2>3. CASE c = 1
    <3>1. m[c] = h /\ c < Len(m) /\ m[c + 1] = e
      BY <1>1, <1>5, <2>3
    <3> QED BY <2>1, <3>1
  <2>4. CASE c = 2
    <3>1. m[c] = e /\ c > 1 /\ m[c - 1] = h
      BY <1>1, <1>5, <2>4
    <3> QED BY <2>1, <3>1
  <2> QED BY <2>2, <2>3, <2>4
<1> HIDE DEF m, h, e
<1>7. m \in WholeLine(P) /\ m \in InkLine /\ m \in Lines(P, clean, torn)
  BY <1>5, <1>6, LineKinds, WholeIsFit DEF WholeLine
<1>8. m \in Text /\ EdSplit(m) = One(m)
  BY <1>7, InkJoins
<1>9. One(m) \in Seq(Lines(P, clean, torn))
  BY <1>7, OneType
<1> QED BY <1>8, <1>9 DEF m

(* Where the keys cut a line: never inside of a marker. *)
LEMMA BackCut ==
    ASSUME NEW l \in InkLine, l # <<>>
    PROVE  /\ EdLastWidth(l) \in 1 .. Len(l) /\ Len(l) - EdLastWidth(l) \in 0 .. Len(l)
           /\ ~EdAtomicAt(l, Len(l) - EdLastWidth(l))
<1>1. Len(l) \in Nat \ {0}
  BY LenProperties, EmptySeq DEF InkLine
<1>2. CASE EdAtomicAt(l, Len(l) - 1)
  <2>1. EdLastWidth(l) = 2 /\ Len(l) - 1 > 0 /\ l[Len(l) - 1].ch = "["
    BY <1>2 DEF EdLastWidth, EdAtomicAt
  <2>2. Len(l) - 2 + 1 = Len(l) - 1
    BY <1>1
  <2>3. ~EdAtomicAt(l, Len(l) - 2)
    BY <2>1, <2>2 DEF EdAtomicAt
  <2> QED BY <1>1, <2>1, <2>3
<1>3. CASE ~EdAtomicAt(l, Len(l) - 1)
  <2>1. EdLastWidth(l) = 1
    BY <1>3 DEF EdLastWidth
  <2> QED BY <1>1, <1>3, <2>1
<1> QED BY <1>2, <1>3

LEMMA OnCut ==
    ASSUME NEW l \in InkLine, l # <<>>
    PROVE  EdFirstWidth(l) \in 1 .. Len(l) /\ ~EdAtomicAt(l, EdFirstWidth(l))
<1>1. Len(l) \in Nat \ {0}
  BY LenProperties, EmptySeq DEF InkLine
<1>2. CASE EdAtomicAt(l, 1)
  <2>1. EdFirstWidth(l) = 2 /\ 1 < Len(l) /\ l[1 + 1].ch = "]"
    BY <1>2 DEF EdFirstWidth, EdAtomicAt
  <2>2. ~EdAtomicAt(l, 2)
    BY <2>1 DEF EdAtomicAt
  <2> QED BY <1>1, <2>1, <2>2
<1>3. CASE ~EdAtomicAt(l, 1)
  <2>1. EdFirstWidth(l) = 1
    BY <1>3 DEF EdFirstWidth
  <2> QED BY <1>1, <1>3, <2>1
<1> QED BY <1>2, <1>3

LEMMA WordBack ==
    ASSUME NEW l \in InkLine
    PROVE  EdWordStart(l) \in 0 .. Len(l) /\ ~EdAtomicAt(l, EdWordStart(l))
<1> DEFINE C == {p \in 0 .. Len(l) : p = 0 \/ ~EdSpace(l, p)}
           p == Max(C)
           D == {q \in 0 .. p - 1 : EdSameRun(l, q + 1, p)}
<1>1. Len(l) \in Nat
  BY LenProperties DEF InkLine
<1>2. p \in C /\ \A r \in C : p >= r
  <2>1. C \subseteq 0 .. Len(l) /\ C # {}
    <3>1. 0 \in C
      BY <1>1
    <3> QED BY <3>1
  <2> HIDE DEF C
  <2> QED BY <1>1, <2>1, LastPosition
<1>3. p \in 0 .. Len(l)
  BY <1>2
<1>4. EdWordStart(l) = IF p = 0 THEN 0 ELSE IF EdAtomicAt(l, p - 1) THEN p - 2 ELSE Min(D)
  BY DEF EdWordStart
<1>5. ~EdAtomicAt(l, p)
  <2> SUFFICES ASSUME EdAtomicAt(l, p) PROVE FALSE
    OBVIOUS
  <2>1. p + 1 \in 0 .. Len(l) /\ l[p + 1].ch = "]" /\ ~(p >= p + 1)
    BY <1>1, <1>3 DEF EdAtomicAt
  <2>2. ~EdSpace(l, p + 1)
    BY <2>1 DEF EdSpace, EdClass
  <2> QED BY <1>2, <2>1, <2>2
<1> HIDE DEF p
<1>6. CASE p = 0
  <2>1. ~EdAtomicAt(l, 0)
    BY DEF EdAtomicAt
  <2> QED BY <1>1, <1>4, <1>6, <2>1
<1>7. CASE p # 0 /\ EdAtomicAt(l, p - 1)
  <2>1. EdWordStart(l) = p - 2
    BY <1>4, <1>7
  <2>2. p - 1 > 0 /\ l[p - 1].ch = "[" /\ p - 2 + 1 = p - 1
    BY <1>1, <1>3, <1>7 DEF EdAtomicAt
  <2>3. ~EdAtomicAt(l, p - 2)
    BY <2>2 DEF EdAtomicAt
  <2> QED BY <1>1, <1>3, <2>1, <2>2, <2>3
<1>8. CASE p # 0 /\ ~EdAtomicAt(l, p - 1)
  <2>1. p - 1 \in D
    <3>1. p - 1 \in 0 .. p - 1 /\ p - 1 + 1 = p
      BY <1>1, <1>3, <1>8
    <3>2. ASSUME NEW k \in p .. p PROVE EdClass(l[k]) = EdClass(l[p]) /\ ~EdAtomic(l, k)
      <4>1. k = p
        BY <1>1, <1>3
      <4> QED BY <1>5, <1>8, <4>1 DEF EdAtomic
    <3>3. EdSameRun(l, p, p)
      BY <3>2 DEF EdSameRun
    <3> QED BY <3>1, <3>3
  <2>2. Min(D) \in D
    <3>1. D \subseteq Nat /\ D # {}
      <4>1. 0 .. p - 1 \subseteq Nat
        BY <1>1, <1>3
      <4> QED BY <2>1, <4>1
    <3> HIDE DEF D
    <3> QED BY <3>1, FirstPosition
  <2> DEFINE q == Min(D)
  <2>3. q \in 0 .. p - 1 /\ EdSameRun(l, q + 1, p)
    BY <2>2
  <2> HIDE DEF q
  <2>4. PICK j \in q + 1 .. p : j = q + 1 /\ j - 1 = q
    BY <1>1, <1>3, <2>3
  <2>5. ~EdAtomic(l, j)
    BY <2>3, <2>4 DEF EdSameRun
  <2>6. ~EdAtomicAt(l, q)
    BY <2>4, <2>5 DEF EdAtomic
  <2>7. EdWordStart(l) = q
    BY <1>4, <1>8 DEF q
  <2> QED BY <1>1, <1>3, <2>3, <2>6, <2>7
<1> QED BY <1>6, <1>7, <1>8

LEMMA WordOn ==
    ASSUME NEW l \in InkLine
    PROVE  EdWordEnd(l) \in 0 .. Len(l) /\ ~EdAtomicAt(l, EdWordEnd(l))
<1> DEFINE C == {p \in 1 .. Len(l) + 1 : p = Len(l) + 1 \/ ~EdSpace(l, p)}
           p == Min(C)
           D == {q \in p .. Len(l) : EdSameRun(l, p, q)}
<1>1. Len(l) \in Nat
  BY LenProperties DEF InkLine
<1>2. p \in C /\ \A r \in C : p <= r
  <2>1. C \subseteq Nat /\ C # {}
    <3>1. Len(l) + 1 \in C
      BY <1>1
    <3> QED BY <1>1, <3>1
  <2> HIDE DEF C
  <2> QED BY <2>1, FirstPosition
<1>3. p \in 1 .. Len(l) + 1
  BY <1>2
<1>4. EdWordEnd(l) = IF p > Len(l) THEN Len(l) ELSE IF EdAtomicAt(l, p) THEN p + 1 ELSE Max(D)
  BY DEF EdWordEnd
<1>5. ~EdAtomicAt(l, p - 1)
  <2> SUFFICES ASSUME EdAtomicAt(l, p - 1) PROVE FALSE
    OBVIOUS
  <2>1. p - 1 \in 1 .. Len(l) + 1 /\ l[p - 1].ch = "[" /\ ~(p <= p - 1)
    BY <1>1, <1>3 DEF EdAtomicAt
  <2>2. ~EdSpace(l, p - 1)
    BY <2>1 DEF EdSpace, EdClass
  <2> QED BY <1>2, <2>1, <2>2
<1> HIDE DEF p
<1>6. CASE p > Len(l)
  <2>1. ~EdAtomicAt(l, Len(l))
    BY <1>1 DEF EdAtomicAt
  <2> QED BY <1>1, <1>4, <1>6, <2>1
<1>7. CASE ~(p > Len(l)) /\ EdAtomicAt(l, p)
  <2>1. EdWordEnd(l) = p + 1
    BY <1>4, <1>7
  <2>2. p < Len(l) /\ l[p + 1].ch = "]"
    BY <1>7 DEF EdAtomicAt
  <2>3. ~EdAtomicAt(l, p + 1)
    BY <2>2 DEF EdAtomicAt
  <2> QED BY <1>1, <1>3, <2>1, <2>2, <2>3
<1>8. CASE ~(p > Len(l)) /\ ~EdAtomicAt(l, p)
  <2>1. p \in D
    <3>1. p \in p .. Len(l)
      BY <1>1, <1>3, <1>8
    <3>2. ASSUME NEW k \in p .. p PROVE EdClass(l[k]) = EdClass(l[p]) /\ ~EdAtomic(l, k)
      <4>1. k = p
        BY <1>1, <1>3
      <4> QED BY <1>5, <1>8, <4>1 DEF EdAtomic
    <3>3. EdSameRun(l, p, p)
      BY <3>2 DEF EdSameRun
    <3> QED BY <3>1, <3>3
  <2>2. Max(D) \in D
    <3>1. D \subseteq 0 .. Len(l) /\ D # {}
      BY <1>1, <1>3, <2>1
    <3> HIDE DEF D
    <3> QED BY <1>1, <3>1, LastPosition
  <2> DEFINE q == Max(D)
  <2>3. q \in p .. Len(l) /\ EdSameRun(l, p, q)
    BY <2>2
  <2> HIDE DEF q
  <2>4. q \in p .. q
    BY <1>1, <1>3, <2>3
  <2>5. ~EdAtomic(l, q)
    BY <2>3, <2>4 DEF EdSameRun
  <2>6. ~EdAtomicAt(l, q)
    BY <2>5 DEF EdAtomic
  <2>7. EdWordEnd(l) = q
    BY <1>4, <1>8 DEF q
  <2> QED BY <1>1, <1>3, <2>3, <2>6, <2>7
<1> QED BY <1>6, <1>7, <1>8

-----------------------------------------------------------------------------
(* Every operation leaves a text that is fit for the editor.               *)
LEMMA InsertFits ==
    ASSUME NEW P, NEW clean, NEW torn, NEW s, Stands(s, Lines(P, clean, torn)),
           NEW t \in Text, EdSplit(t) \in Seq(Lines(P, clean, torn))
    PROVE  Stands(EdInsertInto(s, t), Lines(P, clean, torn))
<1> DEFINE L == Lines(P, clean, torn)
<1>1. Closed(L)
  BY LinesClosed
<1>2. Stands(s, L) /\ EdSplit(t) \in Seq(L)
  OBVIOUS
<1> HIDE DEF L
<1>3. PICK F \in Seq(L), G \in Seq(L), x \in L, y \in L : s = At(F, x, y, G)
  BY <1>2 DEF Stands
<1>4. \E F2 \in Seq(L), x2 \in L : EdInsertInto(s, t) = At(F2, x2, y, G)
  BY <1>1, <1>2, <1>3, Inserted
<1>5. Stands(EdInsertInto(s, t), L)
  BY <1>4 DEF Stands
<1> QED BY <1>5 DEF L

LEMMA LoadedFits ==
    ASSUME NEW P, NEW clean, NEW torn, NEW t \in Written
    PROVE  Stands(EdLoaded(t), Lines(P, clean, torn)) /\ EdJoin(EdLoaded(t).lines) = t
<1> DEFINE L == Lines(P, clean, torn)
           ls == EdSplit(t)
           n == Len(ls)
<1>1. ls \in Seq(L) /\ ls # <<>> /\ EdJoin(ls) = t
  BY SplitWritten
<1>2. Closed(L) /\ L \subseteq InkLine
  BY LinesClosed
<1> HIDE DEF ls, L
<1>3. n \in Nat \ {0} /\ Last(ls) = ls[n] /\ ls[n] \in L
  BY <1>1, LastIs
<1> DEFINE w == ls[n]
<1> HIDE DEF n
<1>4. w \in L /\ Len(w) \in Nat
  BY <1>2, <1>3, LenProperties DEF InkLine
<1>5. Pre(w, Len(w)) = w /\ Post(w, Len(w)) = <<>>
  <2> HIDE DEF w
  <2>1. w \in Seq(EdInk) /\ <<>> \in Seq(EdInk)
    BY <1>2, <1>4 DEF InkLine
  <2>2. Cat(w, <<>>) = w
    BY <2>1, CatEmpty
  <2> QED BY <2>1, <2>2, CutSides
<1>6. Stands([lines |-> ls, line |-> n, col |-> Len(w)], L)
  <2>1. n \in 1 .. Len(ls)
    BY <1>3 DEF n
  <2>2. Len(w) \in 0 .. Len(w) /\ <<>> \in L
    BY <1>2, <1>4 DEF Closed
  <2> QED BY <1>1, <1>2, <1>4, <1>5, <2>1, <2>2, StandsAt
<1>7. EdLoaded(t) = [lines |-> ls, line |-> n, col |-> Len(w)]
  BY <1>3 DEF EdLoaded, ls, n
<1> HIDE DEF w
<1> QED BY <1>1, <1>6, <1>7 DEF L

LEMMA EmptyIsLoaded == EdEmpty = EdLoaded(<<>>) /\ <<>> \in Written
<1>1. EdSplit(<<>>) = One(<<>>)
  BY SplitEmpty
<1>2. Len(One(<<>>)) = 1 /\ Last(One(<<>>)) = <<>> /\ Len(<<>>) = 0
  BY DEF One, Last
<1> DEFINE ls == EdSplit(<<>>)
<1>3. EdLoaded(<<>>) = [lines |-> ls, line |-> Len(ls), col |-> Len(Last(ls))]
  BY DEF EdLoaded
<1>4. ls = <<<<>>>> /\ Len(ls) = 1 /\ Len(Last(ls)) = 0
  BY <1>1, <1>2 DEF One
<1> HIDE DEF ls
<1>5. EdLoaded(<<>>) = EdEmpty
  BY <1>3, <1>4 DEF EdEmpty
<1>6. <<>> \in Written
  <2>1. <<>> \in Seq(EdPlain)
    OBVIOUS
  <2> QED BY <2>1, PlainIsWritten
<1> QED BY <1>5, <1>6

(* The cells from position `from` to the cursor are taken out. *)
LEMMA CutBackFits ==
    ASSUME NEW clean, NEW torn, Stands(edState, Lines(edPastes, clean, torn)),
           NEW from \in 0 .. Len(EdBefore), clean /\ ~torn => ~Joint(edPastes, EdBefore, from)
    PROVE  LET s == EdCut(from, edState.col)
               k == SubSeq(EdLine, from + 1, edState.col)
           IN  /\ Stands(s, Lines(edPastes, clean, torn)) /\ k \in Text /\ EdSplit(k) \in Seq(Lines(edPastes, clean, torn))
               /\ EdTextBefore(s) \in Text /\ EdTextAfter(s) \in Text
               /\ EdTextBefore(edState) = Cat(EdTextBefore(s), k) /\ EdTextAfter(edState) = EdTextAfter(s)
               /\ k = Post(EdBefore, from)
<1> DEFINE L == Lines(edPastes, clean, torn)
           s == EdCut(from, edState.col)
           k == SubSeq(EdLine, from + 1, edState.col)
<1>1. Closed(L) /\ L \subseteq InkLine /\ Seq(L) \subseteq Seq(InkLine)
  BY LinesClosed, InkJoins
<1>2. PICK F \in Seq(L), G \in Seq(L), x \in L, y \in L : edState = At(F, x, y, G)
  BY DEF Stands
<1>3. F \in Seq(InkLine) /\ G \in Seq(InkLine) /\ x \in InkLine /\ y \in InkLine
  BY <1>1
<1>4. EdBefore = x
  <2>1. AtShape(edState, F, x, y, G)
    BY <1>2, <1>3, AtIs
  <2> QED BY <2>1 DEF AtShape, EdBefore, EdLine
<1> DEFINE p == Pre(x, from)
           c == Post(x, from)
<1>5. p \in L /\ c \in L
  BY <1>4, LinesCut
<1>6. Cat(p, c) = x /\ Len(p) = from
  BY <1>3, <1>4, SidesMake DEF InkLine
<1> HIDE DEF p, c, L
<1>7. p \in InkLine /\ c \in InkLine
  BY <1>1, <1>5
<1>8. edState = At(F, Cat(p, c), y, G) /\ from = Len(p)
  BY <1>2, <1>6
<1>9. s = At(F, p, y, G) /\ k = c
  BY <1>3, <1>7, <1>8, CutBack
<1> HIDE DEF s, k
<1>16. EdSplit(k) \in Seq(L)
  BY <1>5, <1>7, <1>9, InkJoins, OneType
<1>10. Stands(s, L)
  BY <1>5, <1>9 DEF Stands
<1>11. EdTextBefore(s) = UpTo(F, p) /\ EdTextAfter(s) = From(y, G)
  BY <1>3, <1>7, <1>9, AtText
<1>12. EdTextBefore(edState) = UpTo(F, x) /\ EdTextAfter(edState) = From(y, G)
  BY <1>2, <1>3, AtText
<1>13. F \in Seq(Text) /\ G \in Seq(Text) /\ p \in Text /\ c \in Text /\ y \in Text
  BY <1>3, <1>7, InkJoins
<1>14. UpTo(F, x) = Cat(UpTo(F, p), c) /\ UpTo(F, p) \in Text /\ From(y, G) \in Text
  BY <1>6, <1>13, UpToMore, UpToIs, FromIs
<1>15. k = Post(EdBefore, from)
  BY <1>4, <1>9 DEF c
<1> QED BY <1>9, <1>10, <1>11, <1>12, <1>13, <1>14, <1>15, <1>16 DEF s, k, L

(* The cells from the cursor to position `to` behind it are taken out. *)
LEMMA CutOnFits ==
    ASSUME NEW clean, NEW torn, Stands(edState, Lines(edPastes, clean, torn)),
           NEW width \in 0 .. Len(EdAfter), clean /\ ~torn => ~Joint(edPastes, EdAfter, width), NEW to, to = edState.col + width
    PROVE  LET s == EdCut(edState.col, to)
               k == SubSeq(EdLine, edState.col + 1, to)
           IN  /\ Stands(s, Lines(edPastes, clean, torn)) /\ k \in Text /\ EdSplit(k) \in Seq(Lines(edPastes, clean, torn))
               /\ EdTextBefore(s) \in Text /\ EdTextAfter(s) \in Text
               /\ EdTextBefore(edState) = EdTextBefore(s) /\ EdTextAfter(edState) = Cat(k, EdTextAfter(s))
               /\ k = Pre(EdAfter, width)
<1> DEFINE L == Lines(edPastes, clean, torn)
           s == EdCut(edState.col, to)
           k == SubSeq(EdLine, edState.col + 1, to)
<1>1. Closed(L) /\ L \subseteq InkLine /\ Seq(L) \subseteq Seq(InkLine)
  BY LinesClosed, InkJoins
<1>2. PICK F \in Seq(L), G \in Seq(L), x \in L, y \in L : edState = At(F, x, y, G)
  BY DEF Stands
<1>3. F \in Seq(InkLine) /\ G \in Seq(InkLine) /\ x \in InkLine /\ y \in InkLine
  BY <1>1
<1>4. EdAfter = y /\ edState.col = Len(x)
  <2>1. AtShape(edState, F, x, y, G)
    BY <1>2, <1>3, AtIs
  <2> QED BY <2>1 DEF AtShape, EdAfter, EdLine
<1> DEFINE c == Pre(y, width)
           p == Post(y, width)
<1>5. p \in L /\ c \in L
  BY <1>4, LinesCut
<1>6. Cat(c, p) = y /\ Len(c) = width
  BY <1>3, <1>4, SidesMake DEF InkLine
<1> HIDE DEF p, c, L
<1>7. p \in InkLine /\ c \in InkLine
  BY <1>1, <1>5
<1>8. edState = At(F, x, Cat(c, p), G) /\ to = Len(x) + Len(c)
  BY <1>2, <1>4, <1>6
<1>9. s = At(F, x, p, G) /\ k = c
  BY <1>3, <1>7, <1>8, CutOn
<1> HIDE DEF s, k
<1>16. EdSplit(k) \in Seq(L)
  BY <1>5, <1>7, <1>9, InkJoins, OneType
<1>10. Stands(s, L)
  BY <1>5, <1>9 DEF Stands
<1>11. EdTextBefore(s) = UpTo(F, x) /\ EdTextAfter(s) = From(p, G)
  BY <1>3, <1>7, <1>9, AtText
<1>12. EdTextBefore(edState) = UpTo(F, x) /\ EdTextAfter(edState) = From(y, G)
  BY <1>2, <1>3, AtText
<1>13. F \in Seq(Text) /\ G \in Seq(Text) /\ p \in Text /\ c \in Text /\ x \in Text
  BY <1>3, <1>7, InkJoins
<1>14. From(y, G) = Cat(c, From(p, G)) /\ UpTo(F, x) \in Text /\ From(p, G) \in Text
  BY <1>6, <1>13, FromMore, UpToIs, FromIs
<1>15. k = Pre(EdAfter, width)
  BY <1>4, <1>9 DEF c
<1> QED BY <1>9, <1>10, <1>11, <1>12, <1>13, <1>14, <1>15, <1>16 DEF s, k, L

LEMMA HeadAndTail ==
    ASSUME NEW S, NEW s \in Seq(S), s # <<>>
    PROVE  Tail(s) \in Seq(S) /\ Head(s) \in S /\ s = Cat(One(Head(s)), Tail(s))
<1>1. Tail(s) \in Seq(S) /\ Head(s) \in S
  BY HeadTailProperties
<1>2. s = <<Head(s)>> \o Tail(s)
  BY HeadTailProperties, ConcatProperties
<1> QED BY <1>1, <1>2 DEF Cat, One

(* Two texts put together split into the lines of both. *)
LEMMA SplitCat ==
    ASSUME NEW L, Closed(L), NEW a \in Text, NEW b \in Text, EdSplit(a) \in Seq(L), EdSplit(b) \in Seq(L)
    PROVE  EdSplit(Cat(a, b)) \in Seq(L)
<1> DEFINE as == EdSplit(a)
           bs == EdSplit(b)
<1>1. L \subseteq InkLine /\ Seq(L) \subseteq Seq(InkLine)
  BY InkJoins
<1>2. as \in Seq(L) /\ as # <<>> /\ EdJoin(as) = a /\ bs \in Seq(L) /\ bs # <<>> /\ EdJoin(bs) = b
  BY InkJoins
<1> HIDE DEF as, bs
<1> DEFINE F == Front(as)
           x == Last(as)
           y == Head(bs)
           G == Tail(bs)
<1>3. F \in Seq(L) /\ x \in L /\ as = Append(F, x)
  BY <1>2, FrontLast
<1>4. G \in Seq(L) /\ y \in L /\ bs = Cat(One(y), G)
  BY <1>2, HeadAndTail
<1> HIDE DEF F, x, y, G
<1> DEFINE w == Cat(x, y)
           ls == Cat(F, Cat(One(w), G))
<1>5. w \in L
  BY <1>3, <1>4 DEF Closed
<1>6. UpTo(F, x) = a /\ From(y, G) = b
  BY <1>2, <1>3, <1>4 DEF UpTo, From
<1>7. F \in Seq(Text) /\ G \in Seq(Text) /\ x \in Text /\ y \in Text
  BY <1>1, <1>3, <1>4, InkJoins
<1>8. EdJoin(ls) = Cat(a, b)
  BY <1>6, <1>7, TextWhole
<1> HIDE DEF w
<1>9. ls \in Seq(L) /\ ls # <<>>
  BY <1>3, <1>4, <1>5, AtParts
<1> HIDE DEF ls
<1>10. EdSplit(EdJoin(ls)) = ls
  BY <1>1, <1>9, InkJoins
<1> QED BY <1>8, <1>9, <1>10

LEMMA WrittenJoin ==
    ASSUME NEW a \in Written, NEW b \in Written
    PROVE  Cat(a, b) \in Written
<1> DEFINE L == Lines(<<>>, TRUE, FALSE)
           t == Cat(a, b)
<1>1. Closed(L) /\ L = WholeLine(<<>>)
  BY LinesClosed DEF Lines
<1>2. a \in Text /\ b \in Text /\ EdSplit(a) \in Seq(L) /\ EdSplit(b) \in Seq(L)
  BY SplitWritten
<1> HIDE DEF L
<1>3. EdSplit(t) \in Seq(L)
  BY <1>1, <1>2, SplitCat
<1>4. t \in Seq(EdWritten)
  BY CatType DEF Written
<1> HIDE DEF t
<1>5. \A i \in 1 .. Len(EdSplit(t)) : EdPaired(EdSplit(t)[i])
  <2> DEFINE ls == EdSplit(t)
  <2> HIDE DEF ls
  <2>1. ls \in Seq(WholeLine(<<>>))
    BY <1>1, <1>3 DEF ls
  <2>2. \A i \in 1 .. Len(ls) : EdPaired(ls[i])
    BY <2>1, ElementOfSeq DEF WholeLine
  <2> QED BY <2>2 DEF ls
<1> QED BY <1>4, <1>5 DEF Written, EdIntact, t

(* At the start of a line, and at its end. *)
LEMMA MergedBackFits ==
    ASSUME NEW clean, NEW torn, Stands(edState, Lines(edPastes, clean, torn)), ~(edState.col > 0), edState.line > 1
    PROVE  LET s == EdMergedBack
           IN  /\ Stands(s, Lines(edPastes, clean, torn))
               /\ EdTextBefore(s) \in Text /\ EdTextAfter(s) \in Text
               /\ EdTextBefore(edState) = Cat(EdTextBefore(s), Break) /\ EdTextAfter(edState) = EdTextAfter(s)
<1> DEFINE L == Lines(edPastes, clean, torn)
           s == EdMergedBack
<1>1. Closed(L) /\ L \subseteq InkLine /\ Seq(L) \subseteq Seq(InkLine)
  BY LinesClosed, InkJoins
<1>2. PICK F \in Seq(L), G \in Seq(L), x \in L, y \in L : edState = At(F, x, y, G)
  BY DEF Stands
<1> HIDE DEF L
<1>3. F \in Seq(InkLine) /\ G \in Seq(InkLine) /\ x \in InkLine /\ y \in InkLine
  BY <1>1
<1>4. x = <<>> /\ F # <<>>
  <2>1. AtShape(edState, F, x, y, G)
    BY <1>2, <1>3, AtIs
  <2>2. edState.line = Len(F) + 1 /\ edState.col = Len(x) /\ Len(F) \in Nat /\ Len(x) \in Nat
    BY <2>1 DEF AtShape
  <2>3. Len(x) = 0 /\ Len(F) # 0
    BY <2>2
  <2>4. x \in Seq(EdInk)
    BY <1>3 DEF InkLine
  <2> QED BY <1>3, <2>3, <2>4, EmptySeq
<1> DEFINE E == Front(F)
           w == Last(F)
<1>5. E \in Seq(L) /\ w \in L /\ F = Append(E, w)
  BY <1>4, FrontLast
<1> HIDE DEF E, w
<1>6. E \in Seq(InkLine) /\ w \in InkLine /\ edState = At(Append(E, w), <<>>, y, G)
  BY <1>1, <1>2, <1>4, <1>5
<1>7. s = At(E, w, y, G)
  BY <1>3, <1>6, MergedBack
<1> HIDE DEF s
<1>8. Stands(s, L)
  BY <1>5, <1>7 DEF Stands
<1>9. EdTextBefore(s) = UpTo(E, w) /\ EdTextAfter(s) = From(y, G)
  BY <1>3, <1>6, <1>7, AtText
<1>10. EdTextBefore(edState) = UpTo(F, x) /\ EdTextAfter(edState) = From(y, G)
  BY <1>2, <1>3, AtText
<1>11. E \in Seq(Text) /\ G \in Seq(Text) /\ w \in Text /\ y \in Text
  BY <1>3, <1>6, InkJoins
<1>12. UpTo(F, x) = Cat(UpTo(E, w), Break) /\ UpTo(E, w) \in Text /\ From(y, G) \in Text
  BY <1>4, <1>5, <1>11, UpToBreak, UpToIs, FromIs
<1> QED BY <1>8, <1>9, <1>10, <1>12 DEF s, L

LEMMA MergedOnFits ==
    ASSUME NEW clean, NEW torn, Stands(edState, Lines(edPastes, clean, torn)),
           ~(edState.col < Len(EdLine)), edState.line < Len(edState.lines)
    PROVE  LET s == EdMergedOn
           IN  /\ Stands(s, Lines(edPastes, clean, torn))
               /\ EdTextBefore(s) \in Text /\ EdTextAfter(s) \in Text
               /\ EdTextBefore(edState) = EdTextBefore(s) /\ EdTextAfter(edState) = Cat(Break, EdTextAfter(s))
<1> DEFINE L == Lines(edPastes, clean, torn)
           s == EdMergedOn
<1>1. Closed(L) /\ L \subseteq InkLine /\ Seq(L) \subseteq Seq(InkLine)
  BY LinesClosed, InkJoins
<1>2. PICK F \in Seq(L), G \in Seq(L), x \in L, y \in L : edState = At(F, x, y, G)
  BY DEF Stands
<1> HIDE DEF L
<1>3. F \in Seq(InkLine) /\ G \in Seq(InkLine) /\ x \in InkLine /\ y \in InkLine
  BY <1>1
<1>4. y = <<>> /\ G # <<>>
  <2>1. AtShape(edState, F, x, y, G)
    BY <1>2, <1>3, AtIs
  <2>2. /\ edState.line = Len(F) + 1 /\ edState.col = Len(x) /\ Len(F) \in Nat /\ Len(x) \in Nat /\ Len(y) \in Nat /\ Len(G) \in Nat
        /\ Len(edState.lines) = Len(F) + 1 + Len(G) /\ Len(EdLine) = Len(x) + Len(y)
    BY <2>1 DEF AtShape, EdLine
  <2>3. Len(y) = 0 /\ Len(G) # 0
    BY <2>2
  <2>4. y \in Seq(EdInk)
    BY <1>3 DEF InkLine
  <2> QED BY <1>3, <2>3, <2>4, EmptySeq
<1> DEFINE E == Tail(G)
           w == Head(G)
<1>5. E \in Seq(L) /\ w \in L /\ G = Cat(One(w), E)
  BY <1>4, HeadAndTail
<1> HIDE DEF E, w
<1>6. E \in Seq(InkLine) /\ w \in InkLine /\ edState = At(F, x, <<>>, Cat(One(w), E))
  BY <1>1, <1>2, <1>4, <1>5
<1>7. s = At(F, x, w, E)
  BY <1>3, <1>6, MergedOn
<1> HIDE DEF s
<1>8. Stands(s, L)
  BY <1>5, <1>7 DEF Stands
<1>9. EdTextBefore(s) = UpTo(F, x) /\ EdTextAfter(s) = From(w, E)
  BY <1>3, <1>6, <1>7, AtText
<1>10. EdTextBefore(edState) = UpTo(F, x) /\ EdTextAfter(edState) = From(y, G)
  BY <1>2, <1>3, AtText
<1>11. E \in Seq(Text) /\ F \in Seq(Text) /\ w \in Text /\ x \in Text
  BY <1>3, <1>6, InkJoins
<1>12. From(y, G) = Cat(Break, From(w, E)) /\ UpTo(F, x) \in Text /\ From(w, E) \in Text
  BY <1>4, <1>5, <1>11, FromBreak, UpToIs, FromIs
<1> QED BY <1>8, <1>9, <1>10, <1>12 DEF s, L

LEMMA Sizes ==
    ASSUME NEW L, Closed(L), Stands(edState, L)
    PROVE  /\ EdLine \in L /\ EdBefore \in L /\ EdAfter \in L
           /\ Len(EdBefore) = edState.col /\ Len(EdAfter) = Len(EdLine) - edState.col
           /\ edState.col \in 0 .. Len(EdLine) /\ Len(EdLine) \in Nat
           /\ edState.line \in 1 .. Len(edState.lines) /\ Len(edState.lines) \in Nat
           /\ edState.lines \in Seq(L) /\ edState.lines # <<>>
<1>1. /\ edState.lines \in Seq(L) /\ edState.line \in 1 .. Len(edState.lines) /\ edState.col \in 0 .. Len(EdLine) /\ EdLine \in L
      /\ Pre(EdLine, edState.col) \in L /\ Post(EdLine, edState.col) \in L /\ edState.lines # <<>>
  BY StandsIs DEF EdLine
<1>2. EdLine \in Seq(EdInk)
  BY <1>1, InkJoins DEF InkLine
<1>3. Len(EdLine) \in Nat /\ Len(edState.lines) \in Nat
  BY <1>1, <1>2, LenProperties
<1>4. Len(Pre(EdLine, edState.col)) = edState.col /\ Len(Post(EdLine, edState.col)) = Len(EdLine) - edState.col
  <2> DEFINE w == EdLine
  <2> HIDE DEF w
  <2>1. w \in Seq(EdInk) /\ edState.col \in 0 .. Len(w)
    BY <1>1, <1>2 DEF w
  <2>2. Len(Pre(w, edState.col)) = edState.col /\ Len(Post(w, edState.col)) = Len(w) - edState.col
    BY <2>1, SidesMake
  <2> QED BY <2>2 DEF w
<1> QED BY <1>1, <1>3, <1>4 DEF EdBefore, EdAfter, Pre, Post

LEMMA JointIs == \A l, i : Joint(edPastes, l, i) <=> EdAtomicAt(l, i)
BY DEF Joint, EdAtomicAt

LEMMA BackspacedFits ==
    ASSUME NEW clean, NEW torn, Stands(edState, Lines(edPastes, clean, torn))
    PROVE  Stands(EdBackspaced, Lines(edPastes, clean, torn))
<1> DEFINE L == Lines(edPastes, clean, torn)
           from == edState.col - EdLastWidth(EdBefore)
<1>1. Closed(L) /\ L \subseteq InkLine
  BY LinesClosed
<1>2. EdBefore \in L /\ Len(EdBefore) = edState.col /\ edState.col \in Nat
  <2>1. Stands(edState, L)
    OBVIOUS
  <2> HIDE DEF L
  <2> QED BY <1>1, <2>1, Sizes
<1>3. CASE edState.col > 0
  <2>1. EdBefore \in InkLine /\ EdBefore # <<>>
    <3>1. EdBefore # <<>>
      <4>1. Len(<<>>) = 0
        OBVIOUS
      <4> QED BY <1>2, <1>3, <4>1
    <3> QED BY <1>1, <1>2, <3>1
  <2>2. from \in 0 .. Len(EdBefore) /\ ~EdAtomicAt(EdBefore, from)
    BY <1>2, <2>1, BackCut
  <2>3. Stands(EdCut(from, edState.col), L)
    <3>1. ~Joint(edPastes, EdBefore, from)
      BY <2>2, JointIs
    <3> HIDE DEF from
    <3> QED BY <2>2, <3>1, CutBackFits
  <2> QED BY <1>3, <2>3 DEF EdBackspaced
<1>4. CASE ~(edState.col > 0) /\ edState.line > 1
  <2>1. Stands(EdMergedBack, L)
    BY <1>4, MergedBackFits
  <2> QED BY <1>4, <2>1 DEF EdBackspaced
<1>5. CASE ~(edState.col > 0) /\ ~(edState.line > 1)
  BY <1>5 DEF EdBackspaced
<1> QED BY <1>3, <1>4, <1>5

LEMMA ForwardDeletedFits ==
    ASSUME NEW clean, NEW torn, Stands(edState, Lines(edPastes, clean, torn))
    PROVE  Stands(EdForwardDeleted, Lines(edPastes, clean, torn))
<1> DEFINE L == Lines(edPastes, clean, torn)
           width == EdFirstWidth(EdAfter)
           to == edState.col + width
<1>1. Closed(L) /\ L \subseteq InkLine
  BY LinesClosed
<1>2. EdAfter \in L /\ Len(EdAfter) = Len(EdLine) - edState.col /\ edState.col \in Nat /\ Len(EdLine) \in Nat
  <2>1. Stands(edState, L)
    OBVIOUS
  <2> HIDE DEF L
  <2> QED BY <1>1, <2>1, Sizes
<1>3. CASE edState.col < Len(EdLine)
  <2>1. EdAfter \in InkLine /\ EdAfter # <<>>
    <3>1. EdAfter # <<>>
      <4>1. Len(<<>>) = 0
        OBVIOUS
      <4> QED BY <1>2, <1>3, <4>1
    <3> QED BY <1>1, <1>2, <3>1
  <2>2. width \in 0 .. Len(EdAfter) /\ ~EdAtomicAt(EdAfter, width)
    BY <1>2, <2>1, OnCut
  <2>3. Stands(EdCut(edState.col, to), L)
    <3>1. ~Joint(edPastes, EdAfter, width)
      BY <2>2, JointIs
    <3>2. to = edState.col + width
      OBVIOUS
    <3> HIDE DEF width, to
    <3> QED BY <2>2, <3>1, <3>2, CutOnFits
  <2> QED BY <1>3, <2>3 DEF EdForwardDeleted
<1>4. CASE ~(edState.col < Len(EdLine)) /\ edState.line < Len(edState.lines)
  <2>1. Stands(EdMergedOn, L)
    BY <1>4, MergedOnFits
  <2> QED BY <1>4, <2>1 DEF EdForwardDeleted
<1>5. CASE ~(edState.col < Len(EdLine)) /\ ~(edState.line < Len(edState.lines))
  BY <1>5 DEF EdForwardDeleted
<1> QED BY <1>3, <1>4, <1>5

-----------------------------------------------------------------------------
(* The cursor moves. *)
EdMoved(line, col) == [edState EXCEPT !.line = line, !.col = col]

LEMMA MovedIs ==
    ASSUME NEW L, Stands(edState, L), NEW line, NEW col
    PROVE  EdMoved(line, col) = [lines |-> edState.lines, line |-> line, col |-> col]
<1>1. PICK F \in Seq(L), G \in Seq(L), x \in L, y \in L : edState = At(F, x, y, G)
  BY DEF Stands
<1> DEFINE ls == Cat(F, Cat(One(Cat(x, y)), G))
<1>2. edState = [lines |-> ls, line |-> Len(F) + 1, col |-> Len(x)]
  BY <1>1 DEF At
<1> HIDE DEF ls
<1>3. edState.lines = ls
  BY <1>2
<1> DEFINE t == [edState EXCEPT !.line = line]
<1>4. EdMoved(line, col) = [t EXCEPT !.col = col]
  BY DEF EdMoved
<1>5. t = [lines |-> ls, line |-> line, col |-> Len(x)]
  BY <1>2
<1> HIDE DEF t
<1>6. [t EXCEPT !.col = col] = [lines |-> ls, line |-> line, col |-> col]
  BY <1>5
<1> QED BY <1>3, <1>4, <1>6

LEMMA MovedFits ==
    ASSUME NEW clean, NEW torn, Stands(edState, Lines(edPastes, clean, torn)),
           NEW line \in 1 .. Len(edState.lines), NEW col \in 0 .. Len(edState.lines[line]),
           clean /\ ~torn => ~EdAtomicAt(edState.lines[line], col)
    PROVE  Stands(EdMoved(line, col), Lines(edPastes, clean, torn))
<1> DEFINE L == Lines(edPastes, clean, torn)
           ls == edState.lines
<1>1. Closed(L) /\ L \subseteq InkLine
  BY LinesClosed
<1>2. ls \in Seq(L) /\ ls[line] \in L
  <2>1. Stands(edState, L)
    OBVIOUS
  <2> HIDE DEF L
  <2>2. ls \in Seq(L)
    BY <1>1, <2>1, Sizes
  <2> QED BY <2>2, ElementOfSeq
<1>3. Pre(ls[line], col) \in L /\ Post(ls[line], col) \in L
  <2>1. clean /\ ~torn => ~Joint(edPastes, ls[line], col)
    BY JointIs
  <2> DEFINE w == ls[line]
  <2>2. w \in Lines(edPastes, clean, torn) /\ col \in 0 .. Len(w) /\ (clean /\ ~torn => ~Joint(edPastes, w, col))
    BY <1>2, <2>1
  <2> HIDE DEF w
  <2>3. Pre(w, col) \in Lines(edPastes, clean, torn) /\ Post(w, col) \in Lines(edPastes, clean, torn)
    BY <2>2, LinesCut
  <2> QED BY <2>3 DEF w
<1>4. Stands(edState, L)
  OBVIOUS
<1> HIDE DEF L
<1>5. Stands([lines |-> ls, line |-> line, col |-> col], L)
  BY <1>1, <1>2, <1>3, StandsAt
<1> QED BY <1>4, <1>5, MovedIs DEF L

(* Within the text before the cursor, and within that behind it. *)
LEMMA MovedBackFits ==
    ASSUME NEW clean, NEW torn, Stands(edState, Lines(edPastes, clean, torn)),
           NEW col \in 0 .. Len(EdBefore), ~EdAtomicAt(EdBefore, col)
    PROVE  Stands(EdMoved(edState.line, col), Lines(edPastes, clean, torn))
<1> DEFINE L == Lines(edPastes, clean, torn)
<1>1. Closed(L) /\ L \subseteq InkLine /\ Seq(L) \subseteq Seq(InkLine)
  BY LinesClosed, InkJoins
<1>2. PICK F \in Seq(L), G \in Seq(L), x \in L, y \in L : edState = At(F, x, y, G)
  BY DEF Stands
<1>3. x \in InkLine /\ y \in InkLine /\ AtShape(edState, F, x, y, G)
  BY <1>1, <1>2, AtIs
<1>4. EdBefore = x
  BY <1>3 DEF AtShape, EdBefore, EdLine
<1> DEFINE p == Pre(x, col)
           c == Post(x, col)
<1>5. p \in L /\ c \in L
  BY <1>4, JointIs, LinesCut
<1>6. Cat(p, c) = x /\ Len(p) = col
  BY <1>3, <1>4, SidesMake DEF InkLine
<1> HIDE DEF p, c
<1>7. Stands(edState, L)
  OBVIOUS
<1> HIDE DEF L
<1>8. p \in InkLine /\ c \in InkLine /\ Cat(c, y) \in L
  BY <1>1, <1>5 DEF Closed
<1>9. Cat(p, Cat(c, y)) = Cat(x, y)
  BY <1>3, <1>6, <1>8, CatAssoc DEF InkLine
<1>10. EdMoved(edState.line, col) = [lines |-> edState.lines, line |-> edState.line, col |-> col]
  BY <1>7, MovedIs
<1>11. EdMoved(edState.line, col) = At(F, p, Cat(c, y), G)
  BY <1>2, <1>6, <1>9, <1>10 DEF At
<1> QED BY <1>5, <1>8, <1>11 DEF Stands, L

LEMMA MovedOnFits ==
    ASSUME NEW clean, NEW torn, Stands(edState, Lines(edPastes, clean, torn)),
           NEW width \in 0 .. Len(EdAfter), ~EdAtomicAt(EdAfter, width)
    PROVE  Stands(EdMoved(edState.line, edState.col + width), Lines(edPastes, clean, torn))
<1> DEFINE L == Lines(edPastes, clean, torn)
           col == edState.col + width
<1>1. Closed(L) /\ L \subseteq InkLine /\ Seq(L) \subseteq Seq(InkLine)
  BY LinesClosed, InkJoins
<1>2. PICK F \in Seq(L), G \in Seq(L), x \in L, y \in L : edState = At(F, x, y, G)
  BY DEF Stands
<1>3. x \in InkLine /\ y \in InkLine /\ AtShape(edState, F, x, y, G)
  BY <1>1, <1>2, AtIs
<1>4. EdAfter = y /\ edState.col = Len(x)
  BY <1>3 DEF AtShape, EdAfter, EdLine
<1> DEFINE c == Pre(y, width)
           p == Post(y, width)
<1>5. p \in L /\ c \in L
  BY <1>4, JointIs, LinesCut
<1>6. Cat(c, p) = y /\ Len(c) = width
  BY <1>3, <1>4, SidesMake DEF InkLine
<1> HIDE DEF p, c
<1>7. Stands(edState, L)
  OBVIOUS
<1> HIDE DEF L
<1>8. p \in InkLine /\ c \in InkLine /\ Cat(x, c) \in L
  BY <1>1, <1>5 DEF Closed
<1>9. Cat(Cat(x, c), p) = Cat(x, y) /\ Len(Cat(x, c)) = col
  <2>1. Cat(Cat(x, c), p) = Cat(x, Cat(c, p))
    BY <1>3, <1>8, CatAssoc DEF InkLine
  <2>2. Len(Cat(x, c)) = Len(x) + Len(c)
    BY <1>3, <1>8, CatLen DEF InkLine
  <2> QED BY <1>4, <1>6, <2>1, <2>2
<1>10. EdMoved(edState.line, col) = [lines |-> edState.lines, line |-> edState.line, col |-> col]
  BY <1>7, MovedIs
<1> HIDE DEF col
<1>11. EdMoved(edState.line, col) = At(F, Cat(x, c), p, G)
  BY <1>2, <1>9, <1>10 DEF At
<1> QED BY <1>5, <1>8, <1>11 DEF Stands, L, col

-----------------------------------------------------------------------------
(* The inductive invariant: the text, and every text that undo can bring back,
   stand on lines fit for the pastes live with them; the ids of the pastes come
   from the counter, which never runs ahead of the pastes made.  The last kill
   is what is missing from the text before the run of kills, and what was
   yanked was put into a text that is fit itself.                          *)
Snap(u, made, clean, torn) ==
    /\ Stands(u.state, Lines(u.pastes, clean, torn))
    /\ u.counter \in 0 .. made /\ DOMAIN u.pastes \subseteq 1 .. u.counter

Fit == Lines(edPastes, EdNoMarkerKilled, edTorn)

EdPlace == Stands(edState, Fit) /\ edCounter \in 0 .. edMade /\ DOMAIN edPastes \subseteq 1 .. edCounter

EdPast == \E S : edUndo \in Seq(S) /\ \A u \in S : Snap(u, edMade, EdNoMarkerKilled, edTorn)

EdTypes ==
    /\ edRing \in Seq(Text) /\ edHistory \in Seq(Written)
    /\ edMade \in 0 .. EdMaxPastes /\ edTorn \in BOOLEAN
    /\ edBrowsing \in -1 .. Len(edHistory) - 1
    /\ edLast \in {"none", "kill", "yank", "type-word"} /\ edJump \in {"none", "forward", "backward"}

EdKillKept ==
    edLast = "kill" =>
        /\ edRing # <<>> /\ edRun \in Text
        /\ Cat(Cat(EdTextBefore(edState), Last(edRing)), EdTextAfter(edState)) = edRun

EdYankKept ==
    edLast = "yank" =>
        /\ edRing # <<>>
        /\ \E s : /\ Stands(s, Fit) /\ edState = EdInsertInto(s, Last(edRing))
                  /\ edAround = <<EdTextBefore(s), EdTextAfter(s)>>

EdRingFits == RingWhole(edRing, EdNoMarkerKilled, edTorn)

EdInv == EdTypes /\ EdRingFits /\ EdPlace /\ EdPast /\ EdKillKept /\ EdYankKept /\ BrowsedIsEntry

LEMMA SnapLooser ==
    ASSUME NEW u, NEW made \in Nat, NEW made2 \in Nat, made <= made2,
           NEW clean, NEW clean2, clean2 => clean, NEW torn, NEW torn2, torn => torn2,
           Snap(u, made, clean, torn)
    PROVE  Snap(u, made2, clean2, torn2)
<1>1. Extends(u.pastes, u.pastes)
  BY DEF Extends
<1>2. Lines(u.pastes, clean, torn) \subseteq Lines(u.pastes, clean2, torn2)
  BY <1>1, LinesLooser
<1>3. Stands(u.state, Lines(u.pastes, clean2, torn2))
  BY <1>2, StandsLooser DEF Snap
<1>4. u.counter \in 0 .. made2
  BY DEF Snap
<1> QED BY <1>3, <1>4 DEF Snap

(* What an action may make of the undo stack. *)
EdUndoMade ==
    \/ edUndo' = edUndo \/ edUndo' = EdPush \/ edUndo' = <<>>
    \/ edUndo # <<>> /\ edUndo' = Front(edUndo)
    \/ \E u : Snap(u, edMade, EdNoMarkerKilled, edTorn) /\ edUndo' = Append(EdPush, u)

LEMMA SnapshotIs ==
    ASSUME EdPlace
    PROVE  Snap(EdSnapshot, edMade, EdNoMarkerKilled, edTorn)
BY DEF EdPlace, Snap, EdSnapshot, Fit

LEMMA PastKept ==
    ASSUME EdPast, EdPlace, EdUndoMade, edMade \in Nat, edMade' \in Nat, edMade <= edMade',
           EdNoMarkerKilled' => EdNoMarkerKilled, edTorn => edTorn'
    PROVE  EdPast'
<1> DEFINE Ok(u) == Snap(u, edMade, EdNoMarkerKilled, edTorn)
<1>1. PICK S : edUndo \in Seq(S) /\ \A u \in S : Ok(u)
  BY DEF EdPast
<1>2. Ok(EdSnapshot)
  BY SnapshotIs
<1>3. \E S2 : edUndo' \in Seq(S2) /\ \A u \in S2 : Ok(u)
  <2> HIDE DEF Ok
  <2> DEFINE S1 == S \cup {EdSnapshot}
  <2>1. edUndo \in Seq(S1) /\ EdSnapshot \in S1 /\ \A u \in S1 : Ok(u)
    <3>1. Seq(S) \subseteq Seq(S1)
      BY SeqMonotonic
    <3> QED BY <1>1, <1>2, <3>1
  <2>2. EdPush \in Seq(S1)
    <3> HIDE DEF S1
    <3> QED BY <2>1, AppendProperties DEF EdPush
  <2> HIDE DEF S1
  <2>3. CASE edUndo' = edUndo \/ edUndo' = EdPush \/ edUndo' = <<>>
    <3>1. <<>> \in Seq(S1)
      OBVIOUS
    <3>2. edUndo' \in Seq(S1)
      BY <2>1, <2>2, <2>3, <3>1
    <3> QED BY <2>1, <3>2
  <2>4. CASE edUndo # <<>> /\ edUndo' = Front(edUndo)
    <3>1. edUndo' \in Seq(S1)
      BY <2>1, <2>4, LastIs
    <3> QED BY <2>1, <3>1
  <2>5. CASE \E u : Ok(u) /\ edUndo' = Append(EdPush, u)
    <3>1. PICK v : Ok(v) /\ edUndo' = Append(EdPush, v)
      BY <2>5
    <3> DEFINE S2 == S1 \cup {v}
    <3>2. EdPush \in Seq(S2) /\ v \in S2 /\ \A u \in S2 : Ok(u)
      <4>1. Seq(S1) \subseteq Seq(S2)
        BY SeqMonotonic
      <4> QED BY <2>1, <2>2, <3>1, <4>1
    <3> HIDE DEF S2
    <3>3. edUndo' \in Seq(S2)
      BY <3>1, <3>2, AppendProperties
    <3> QED BY <3>2, <3>3
  <2> QED BY <2>3, <2>4, <2>5 DEF EdUndoMade, Ok
<1>4. PICK S2 : edUndo' \in Seq(S2) /\ \A u \in S2 : Ok(u)
  BY <1>3
<1>5. ASSUME NEW u \in S2 PROVE Snap(u, edMade', EdNoMarkerKilled', edTorn')
  <2>1. Snap(u, edMade, EdNoMarkerKilled, edTorn)
    BY <1>4
  <2> QED BY <2>1, SnapLooser
<1> QED BY <1>4, <1>5 DEF EdPast

LEMMA CleanStays ==
    ASSUME edRing' = edRing
    PROVE  EdNoMarkerKilled' = EdNoMarkerKilled
BY DEF EdNoMarkerKilled

(* An action that is neither a kill nor a yank: the undo stack, the new text and
   the history are left to show.                                           *)
LEMMA QuietKept ==
    ASSUME EdInv, edRing' = edRing, edHistory' = edHistory, edLast' \in {"none", "type-word"}, EdUndoMade,
           edMade' \in 0 .. EdMaxPastes, edMade <= edMade', edTorn' \in BOOLEAN, edTorn => edTorn',
           edJump' \in {"none", "forward", "backward"},
           Stands(edState', Lines(edPastes', EdNoMarkerKilled, edTorn')),
           edCounter' \in 0 .. edMade', DOMAIN edPastes' \subseteq 1 .. edCounter',
           edBrowsing' \in -1 .. Len(edHistory) - 1, BrowsedIsEntry'
    PROVE  EdInv'
<1>1. EdNoMarkerKilled' = EdNoMarkerKilled
  BY CleanStays
<1>2. EdTypes'
  BY DEF EdInv, EdTypes
<1>3. EdPlace'
  BY <1>1 DEF EdPlace, Fit
<1>4. EdPast'
  <2>1. edMade \in Nat /\ edMade' \in Nat
    BY EdAssumption DEF EdInv, EdTypes
  <2> QED BY <1>1, <2>1, PastKept DEF EdInv
<1>5. EdKillKept' /\ EdYankKept'
  BY DEF EdKillKept, EdYankKept
<1>6. EdRingFits'
  <2>1. RingWhole(edRing, EdNoMarkerKilled, edTorn')
    BY RingLooser DEF EdInv, EdRingFits
  <2> QED BY <1>1, <2>1 DEF EdRingFits
<1> QED BY <1>2, <1>3, <1>4, <1>5, <1>6 DEF EdInv

LEMMA NotBrowsing == ASSUME EdInv PROVE -1 \in -1 .. Len(edHistory) - 1
<1>1. Len(edHistory) \in Nat
  BY LenProperties DEF EdInv, EdTypes
<1> QED BY <1>1

(* An edit. *)
LEMMA EditKept ==
    ASSUME EdInv, NEW s, NEW last \in {"none", "type-word"}, EdEdit(s, last), EdUndoMade,
           edMade' \in 0 .. EdMaxPastes, edMade <= edMade', edJump' \in {"none", "forward", "backward"},
           Stands(s, Lines(edPastes', EdNoMarkerKilled, edTorn)), edCounter' \in 0 .. edMade', DOMAIN edPastes' \subseteq 1 .. edCounter'
    PROVE  EdInv'
<1>1. /\ edState' = s /\ edLast' = last /\ edBrowsing' = -1
      /\ edHistory' = edHistory /\ edRing' = edRing /\ edTorn' = edTorn
  BY DEF EdEdit, EdStopBrowsing, EdGhostStays
<1>2. BrowsedIsEntry'
  BY <1>1 DEF BrowsedIsEntry
<1>3. edTorn' \in BOOLEAN
  BY <1>1 DEF EdInv, EdTypes
<1> QED BY <1>1, <1>2, <1>3, NotBrowsing, QuietKept

(* ... that makes no large paste. *)
LEMMA PlainEditKept ==
    ASSUME EdInv, NEW s, NEW last \in {"none", "type-word"}, EdEdit(s, last), EdUndoMade, EdPastesStay,
           edJump' \in {"none", "forward", "backward"}, Stands(s, Fit)
    PROVE  EdInv'
<1>1. edPastes' = edPastes /\ edCounter' = edCounter /\ edMade' = edMade
  BY DEF EdPastesStay
<1>2. edMade \in 0 .. EdMaxPastes /\ edCounter \in 0 .. edMade /\ DOMAIN edPastes \subseteq 1 .. edCounter
  BY DEF EdInv, EdTypes, EdPlace
<1>3. edMade <= edMade'
  BY <1>1, <1>2, EdAssumption
<1> QED BY <1>1, <1>2, <1>3, EditKept DEF Fit

LEMMA PlainFits ==
    ASSUME EdInv, NEW t \in Written
    PROVE  Stands(edState, Fit) /\ Stands(EdInsertInto(edState, t), Fit)
<1>1. Stands(edState, Fit)
  BY DEF EdInv, EdPlace
<1>2. t \in Text /\ EdSplit(t) \in Seq(Fit)
  BY SplitWritten DEF Fit
<1> QED BY <1>1, <1>2, InsertFits DEF Fit

LEMMA TypeKept == ASSUME EdInv, NEW cell \in EdChars, EdType(cell) PROVE EdInv'
<1>1. <<cell>> \in Seq(EdPlain)
  <2>1. cell \in EdPlain
    BY PlainCells
  <2> QED BY <2>1
<1>2. Stands(EdInsertInto(edState, <<cell>>), Fit)
  BY <1>1, PlainIsWritten, PlainFits
<1>3. EdUndoMade /\ edJump' = "none" /\ EdPastesStay /\ EdEdit(EdInsertInto(edState, <<cell>>), "type-word")
  BY DEF EdType, EdUndoMade, EdKey
<1> QED BY <1>2, <1>3, PlainEditKept

LEMMA NewLineKept == ASSUME EdInv, EdNewLine PROVE EdInv'
<1>1. <<EdNL>> \in Seq(EdPlain)
  BY DEF EdPlain
<1>2. Stands(EdSplitLine(edState), Fit)
  BY <1>1, PlainIsWritten, PlainFits DEF EdSplitLine
<1>3. EdUndoMade /\ edJump' = "none" /\ EdPastesStay /\ EdEdit(EdSplitLine(edState), "none")
  BY DEF EdNewLine, EdUndoMade, EdKey
<1> QED BY <1>2, <1>3, PlainEditKept

LEMMA BackspaceKept == ASSUME EdInv, EdBackspace PROVE EdInv'
<1>1. Stands(EdBackspaced, Fit)
  BY BackspacedFits DEF EdInv, EdPlace, Fit
<1>2. EdUndoMade /\ edJump' = "none" /\ EdPastesStay /\ EdEdit(EdBackspaced, "none")
  BY DEF EdBackspace, EdUndoMade, EdKey, EdUndoFor
<1> QED BY <1>1, <1>2, PlainEditKept

LEMMA ForwardDeleteKept == ASSUME EdInv, EdForwardDelete PROVE EdInv'
<1>1. Stands(EdForwardDeleted, Fit)
  BY ForwardDeletedFits DEF EdInv, EdPlace, Fit
<1>2. EdUndoMade /\ edJump' = "none" /\ EdPastesStay /\ EdEdit(EdForwardDeleted, "none")
  BY DEF EdForwardDelete, EdUndoMade, EdKey, EdUndoFor
<1> QED BY <1>1, <1>2, PlainEditKept

LEMMA PasteKept == ASSUME EdInv, NEW text \in EdTexts, EdPaste(text) PROVE EdInv'
<1>1. EdPasted(text) \in Written
  <2>1. text \in Written
    BY EdAssumption DEF Written
  <2>2. <<EdCell(" ")>> \in Written
    <3>1. EdCell(" ") \in EdPlain
      BY DEF EdPlain, EdChars
    <3>2. <<EdCell(" ")>> \in Seq(EdPlain)
      BY <3>1, OneType DEF One
    <3> QED BY <3>2, PlainIsWritten
  <2>3. Cat(<<EdCell(" ")>>, text) \in Written
    BY <2>1, <2>2, WrittenJoin
  <2> QED BY <2>1, <2>3 DEF EdPasted, Cat
<1>2. Stands(EdInsertInto(edState, EdPasted(text)), Fit)
  BY <1>1, PlainFits
<1>3. EdUndoMade /\ edJump' = "none" /\ EdPastesStay /\ EdEdit(EdInsertInto(edState, EdPasted(text)), "none")
  BY DEF EdPaste, EdUndoMade, EdKey
<1> QED BY <1>2, <1>3, PlainEditKept

LEMMA SetTextKept == ASSUME EdInv, NEW text \in Written, EdSetText(text) PROVE EdInv'
<1>1. Stands(EdLoaded(text), Fit)
  BY LoadedFits DEF Fit
<1>2. EdUndoMade /\ edJump' \in {"none", "forward", "backward"} /\ EdPastesStay /\ EdEdit(EdLoaded(text), "none")
  BY DEF EdSetText, EdUndoMade, EdInv, EdTypes
<1> QED BY <1>1, <1>2, PlainEditKept

LEMMA InsertTextKept == ASSUME EdInv, NEW text \in EdTexts, EdInsertText(text) PROVE EdInv'
<1>1. Stands(EdInsertInto(edState, text), Fit)
  <2>1. text \in Written
    BY EdAssumption DEF Written
  <2> QED BY <2>1, PlainFits
<1>2. EdUndoMade /\ edJump' \in {"none", "forward", "backward"} /\ EdPastesStay /\ EdEdit(EdInsertInto(edState, text), "none")
  BY DEF EdInsertText, EdUndoMade, EdInv, EdTypes
<1> QED BY <1>1, <1>2, PlainEditKept

LEMMA PasteLargeKept == ASSUME EdInv, EdPasteLarge PROVE EdInv'
<1> DEFINE id == edCounter + 1
           of == edMade + 1
           P == edPastes'
<1>1. /\ edMade < EdMaxPastes /\ edMade' = of /\ edJump' = "none" /\ edUndo' = EdPush /\ edCounter' = id
      /\ P = [i \in DOMAIN edPastes \cup {id} |-> IF i = id THEN of ELSE edPastes[i]]
      /\ EdEdit(EdInsertInto(edState, EdMarker(id, of)), "none")
  BY DEF EdPasteLarge, EdKey
<1>2. edMade \in 0 .. EdMaxPastes /\ edCounter \in 0 .. edMade /\ DOMAIN edPastes \subseteq 1 .. edCounter /\ EdMaxPastes \in Nat
  BY EdAssumption DEF EdInv, EdTypes, EdPlace
<1>3. /\ id \in 1 .. EdMaxPastes /\ of \in 1 .. EdMaxPastes /\ of \in 0 .. EdMaxPastes /\ edMade <= of
      /\ id \in 0 .. of /\ 1 .. edCounter \subseteq 1 .. id /\ id \in 1 .. id /\ id \notin 1 .. edCounter
  BY <1>1, <1>2
<1> HIDE DEF id, of, P
<1>4. DOMAIN P \subseteq 1 .. id /\ id \in DOMAIN P /\ P[id] = of
  BY <1>1, <1>2, <1>3
<1>5. Extends(P, edPastes)
  BY <1>1, <1>2, <1>3 DEF Extends
<1>6. Stands(edState, Lines(P, EdNoMarkerKilled, edTorn))
  <2>1. Lines(edPastes, EdNoMarkerKilled, edTorn) \subseteq Lines(P, EdNoMarkerKilled, edTorn)
    BY <1>5, LinesLooser
  <2> QED BY <2>1, StandsLooser DEF EdInv, EdPlace, Fit
<1>7. Stands(EdInsertInto(edState, EdMarker(id, of)), Lines(P, EdNoMarkerKilled, edTorn))
  BY <1>3, <1>4, <1>6, SplitMarker, InsertFits
<1>8. EdUndoMade
  BY <1>1 DEF EdUndoMade
<1> QED BY <1>1, <1>3, <1>4, <1>7, <1>8, EditKept DEF P

LEMMA SubmitKept == ASSUME EdInv, EdSubmit, edJump' = "none" PROVE EdInv'
<1>1. /\ edState' = EdEmpty /\ edPastes' = <<>> /\ edCounter' = 0 /\ edBrowsing' = -1 /\ edUndo' = <<>> /\ edLast' = "none"
      /\ edHistory' = edHistory /\ edRing' = edRing /\ edMade' = edMade /\ edTorn' = edTorn
  BY DEF EdSubmit, EdGhostStays
<1>2. Stands(EdEmpty, Lines(<<>>, EdNoMarkerKilled, edTorn))
  BY EmptyIsLoaded, LoadedFits
<1>3. BrowsedIsEntry'
  BY <1>1 DEF BrowsedIsEntry
<1>4. edMade \in 0 .. EdMaxPastes /\ edTorn \in BOOLEAN /\ edMade <= edMade /\ 0 \in 0 .. edMade
  BY EdAssumption DEF EdInv, EdTypes
<1>5. EdUndoMade
  BY <1>1 DEF EdUndoMade
<1>6. DOMAIN edPastes' \subseteq 1 .. edCounter'
  BY <1>1
<1> QED BY <1>1, <1>2, <1>3, <1>4, <1>5, <1>6, NotBrowsing, QuietKept

LEMMA EnterKept == ASSUME EdInv, EdEnter PROVE EdInv'
<1>1. edJump' = "none"
  BY DEF EdEnter, EdKey
<1>2. CASE EdSubmit
  BY <1>1, <1>2, SubmitKept
<1>3. CASE /\ EdEdit(EdSplitLine(EdBackspaced), "none") /\ EdPastesStay
           /\ edUndo' = Append(EdPush, [EdSnapshot EXCEPT !.state = EdBackspaced])
  <2>1. Stands(EdBackspaced, Fit)
    BY BackspacedFits DEF EdInv, EdPlace, Fit
  <2>2. Stands(EdSplitLine(EdBackspaced), Fit)
    <3>1. <<EdNL>> \in Seq(EdPlain)
      BY DEF EdPlain
    <3>2. <<EdNL>> \in Text /\ EdSplit(<<EdNL>>) \in Seq(Fit)
      BY <3>1, PlainIsWritten, SplitWritten DEF Fit
    <3> QED BY <2>1, <3>2, InsertFits DEF Fit, EdSplitLine
  <2>3. Snap([EdSnapshot EXCEPT !.state = EdBackspaced], edMade, EdNoMarkerKilled, edTorn)
    <3>1. [EdSnapshot EXCEPT !.state = EdBackspaced] = [state |-> EdBackspaced, pastes |-> edPastes, counter |-> edCounter]
      BY DEF EdSnapshot
    <3> QED BY <2>1, <3>1 DEF Snap, Fit, EdInv, EdPlace
  <2>4. EdUndoMade
    BY <1>3, <2>3 DEF EdUndoMade
  <2> QED BY <1>1, <1>3, <2>2, <2>4, PlainEditKept
<1> QED BY <1>2, <1>3 DEF EdEnter

LEMMA CompleteKept == ASSUME EdInv, EdComplete PROVE EdInv'
<1>1. /\ edState' = EdInsertInto(edState, <<EdCell("a")>>) /\ edUndo' = EdPush /\ edLast' = "none" /\ edJump' = "none"
      /\ edCompleted' = (edBrowsing # -1) /\ edBrowsing' = edBrowsing
      /\ edHistory' = edHistory /\ edRing' = edRing /\ edTorn' = edTorn
      /\ edMade' = edMade /\ edPastes' = edPastes /\ edCounter' = edCounter
  BY DEF EdComplete, EdKey, EdPastesStay
<1>2. Stands(edState', Fit)
  <2>1. EdCell("a") \in EdPlain
    BY DEF EdPlain, EdChars
  <2>2. <<EdCell("a")>> \in Seq(EdPlain)
    BY <2>1, OneType DEF One
  <2> QED BY <1>1, <2>2, PlainIsWritten, PlainFits
<1>3. BrowsedIsEntry'
  <2>1. edBrowsing' > -1 => edBrowsing # -1
    BY <1>1 DEF EdInv, EdTypes
  <2> QED BY <1>1, <2>1 DEF BrowsedIsEntry
<1>4. /\ edMade \in 0 .. EdMaxPastes /\ edTorn \in BOOLEAN /\ edMade <= edMade /\ edCounter \in 0 .. edMade
      /\ DOMAIN edPastes \subseteq 1 .. edCounter /\ edBrowsing \in -1 .. Len(edHistory) - 1
  BY EdAssumption DEF EdInv, EdTypes, EdPlace
<1>5. EdUndoMade
  BY <1>1 DEF EdUndoMade
<1> QED BY <1>1, <1>2, <1>3, <1>4, <1>5, QuietKept DEF Fit

(* Nothing moves but what the history, the mode or the count of steps is about. *)
LEMMA StillKept ==
    ASSUME EdInv, EdTypes', BrowsedIsEntry',
           UNCHANGED <<edState, edPastes, edCounter, edRing, edLast, edUndo, edMade, edRun, edAround, edTorn>>
    PROVE  EdInv'
<1>1. EdNoMarkerKilled' = EdNoMarkerKilled
  BY CleanStays
<1>2. EdPlace'
  BY <1>1 DEF EdInv, EdPlace, Fit
<1>3. EdPast'
  BY <1>1 DEF EdInv, EdPast
<1>4. EdKillKept'
  BY DEF EdInv, EdKillKept
<1>5. EdYankKept'
  BY <1>1 DEF EdInv, EdYankKept, Fit
<1>6. EdRingFits'
  BY <1>1 DEF EdInv, EdRingFits
<1> QED BY <1>2, <1>3, <1>4, <1>5, <1>6 DEF EdInv

LEMMA UndoKept == ASSUME EdInv, EdUndoKey PROVE EdInv'
<1>1. /\ edJump' = "none" /\ edBrowsing' = -1 /\ edHistory' = edHistory /\ edRing' = edRing /\ edMade' = edMade
      /\ edTorn' = edTorn /\ edRun' = edRun /\ edAround' = edAround
  BY DEF EdUndoKey, EdKey, EdStopBrowsing, EdGhostStays
<1>2. BrowsedIsEntry'
  BY <1>1 DEF BrowsedIsEntry
<1>3. CASE edUndo = <<>>
  <2>1. UNCHANGED <<edState, edPastes, edCounter, edUndo, edLast>>
    BY <1>3 DEF EdUndoKey
  <2>2. EdTypes'
    BY <1>1, <2>1, NotBrowsing DEF EdInv, EdTypes
  <2> QED BY <1>1, <1>2, <2>1, <2>2, StillKept
<1>4. CASE edUndo # <<>>
  <2>1. /\ edState' = Last(edUndo).state /\ edPastes' = Last(edUndo).pastes /\ edCounter' = Last(edUndo).counter
        /\ edUndo' = Front(edUndo) /\ edLast' = "none"
    BY <1>4 DEF EdUndoKey, EdRestoredCounter
  <2>2. Snap(Last(edUndo), edMade, EdNoMarkerKilled, edTorn)
    <3>1. PICK S : edUndo \in Seq(S) /\ \A u \in S : Snap(u, edMade, EdNoMarkerKilled, edTorn)
      BY DEF EdInv, EdPast
    <3> QED BY <1>4, <3>1, LastIs
  <2>3. /\ Stands(edState', Lines(edPastes', EdNoMarkerKilled, edTorn)) /\ edCounter' \in 0 .. edMade
        /\ DOMAIN edPastes' \subseteq 1 .. edCounter'
    BY <2>1, <2>2 DEF Snap
  <2>4. edMade \in 0 .. EdMaxPastes /\ edTorn \in BOOLEAN /\ edMade <= edMade
    BY EdAssumption DEF EdInv, EdTypes
  <2>5. EdUndoMade
    BY <1>4, <2>1 DEF EdUndoMade
  <2> QED BY <1>1, <1>2, <2>1, <2>3, <2>4, <2>5, NotBrowsing, QuietKept
<1> QED BY <1>3, <1>4

LEMMA AddToHistoryKept == ASSUME EdInv, NEW text \in EdTexts, EdAddToHistory(text) PROVE EdInv'
<1>1. /\ edBrowsing = -1 /\ edBrowsing' = -1 /\ edJump' = edJump
      /\ edHistory' = IF edHistory # <<>> /\ Head(edHistory) = text THEN edHistory ELSE <<text>> \o edHistory
      /\ UNCHANGED <<edState, edPastes, edCounter, edRing, edLast, edUndo, edMade, edRun, edAround, edTorn>>
  BY DEF EdAddToHistory, edGhost
<1>2. edHistory' \in Seq(Written)
  <2> DEFINE T == Written
  <2>1. text \in T /\ edHistory \in Seq(T)
    BY EdAssumption DEF EdInv, EdTypes, Written
  <2> HIDE DEF T
  <2>2. <<text>> \o edHistory \in Seq(T)
    BY <2>1, OneType, CatType DEF One, Cat
  <2>3. edHistory' \in Seq(T)
    BY <1>1, <2>1, <2>2
  <2> QED BY <2>3 DEF T
<1>3. -1 \in -1 .. Len(edHistory') - 1
  <2>1. Len(edHistory') \in Nat
    BY <1>2, LenProperties
  <2> QED BY <2>1
<1>4. EdTypes'
  BY <1>1, <1>2, <1>3 DEF EdInv, EdTypes
<1>5. BrowsedIsEntry'
  BY <1>1 DEF BrowsedIsEntry
<1> QED BY <1>1, <1>4, <1>5, StillKept

LEMMA ClearHistoryKept == ASSUME EdInv, EdClearHistory PROVE EdInv'
<1>1. /\ edBrowsing' = -1 /\ edJump' = edJump /\ edHistory' = <<>>
      /\ UNCHANGED <<edState, edPastes, edCounter, edRing, edLast, edUndo, edMade, edRun, edAround, edTorn>>
  BY DEF EdClearHistory, edGhost
<1>2. <<>> \in Seq(Written) /\ Len(<<>>) = 0
  OBVIOUS
<1>3. EdTypes'
  <2>1. -1 \in -1 .. 0 - 1
    OBVIOUS
  <2> QED BY <1>1, <1>2, <2>1 DEF EdInv, EdTypes
<1>4. BrowsedIsEntry'
  BY <1>1 DEF BrowsedIsEntry
<1> QED BY <1>1, <1>3, <1>4, StillKept

LEMMA JumpKeyKept == ASSUME EdInv, NEW direction \in {"forward", "backward"}, EdJumpKey(direction) PROVE EdInv'
<1>1. /\ edJump' = (IF edJump = "none" THEN direction ELSE "none") /\ edBrowsing' = edBrowsing /\ edHistory' = edHistory /\ edCompleted' = edCompleted
      /\ UNCHANGED <<edState, edPastes, edCounter, edRing, edLast, edUndo, edMade, edRun, edAround, edTorn>>
  BY DEF EdJumpKey, EdPastesStay, EdGhostStays
<1>2. EdTypes'
  BY <1>1 DEF EdInv, EdTypes
<1>3. BrowsedIsEntry'
  BY <1>1 DEF EdInv, BrowsedIsEntry
<1> QED BY <1>1, <1>2, <1>3, StillKept

LEMMA StutterKept == ASSUME EdInv, UNCHANGED edVars PROVE EdInv'
<1>1. /\ edJump' = edJump /\ edBrowsing' = edBrowsing /\ edHistory' = edHistory /\ edCompleted' = edCompleted
      /\ UNCHANGED <<edState, edPastes, edCounter, edRing, edLast, edUndo, edMade, edRun, edAround, edTorn>>
  BY DEF edVars, edGhost
<1>2. EdTypes'
  BY <1>1 DEF EdInv, EdTypes
<1>3. BrowsedIsEntry'
  BY <1>1 DEF EdInv, BrowsedIsEntry
<1> QED BY <1>1, <1>2, <1>3, StillKept

-----------------------------------------------------------------------------
(* Keys that move the cursor. *)
LEMMA FitSizes ==
    ASSUME EdInv
    PROVE  /\ Stands(edState, Fit) /\ Closed(Fit) /\ Fit \subseteq InkLine
           /\ EdLine \in Fit /\ EdBefore \in Fit /\ EdAfter \in Fit
           /\ Len(EdBefore) = edState.col /\ Len(EdAfter) = Len(EdLine) - edState.col
           /\ edState.col \in 0 .. Len(EdLine) /\ Len(EdLine) \in Nat /\ edState.col \in Nat
           /\ edState.line \in 1 .. Len(edState.lines) /\ Len(edState.lines) \in Nat
           /\ edState.lines \in Seq(Fit) /\ edState.lines # <<>>
           /\ \A i \in 1 .. Len(edState.lines) : edState.lines[i] \in Fit /\ Len(edState.lines[i]) \in Nat
<1>1. Stands(edState, Fit) /\ Closed(Fit) /\ Fit \subseteq InkLine
  BY LinesClosed DEF EdInv, EdPlace, Fit
<1>2. /\ EdLine \in Fit /\ EdBefore \in Fit /\ EdAfter \in Fit
      /\ Len(EdBefore) = edState.col /\ Len(EdAfter) = Len(EdLine) - edState.col
      /\ edState.col \in 0 .. Len(EdLine) /\ Len(EdLine) \in Nat
      /\ edState.line \in 1 .. Len(edState.lines) /\ Len(edState.lines) \in Nat
      /\ edState.lines \in Seq(Fit) /\ edState.lines # <<>>
  BY <1>1, Sizes
<1>3. ASSUME NEW i \in 1 .. Len(edState.lines) PROVE edState.lines[i] \in Fit /\ Len(edState.lines[i]) \in Nat
  <2>1. edState.lines[i] \in Fit
    BY <1>2, ElementOfSeq
  <2>2. edState.lines[i] \in Seq(EdInk)
    BY <1>1, <2>1 DEF InkLine
  <2> QED BY <2>1, <2>2, LenProperties
<1> QED BY <1>1, <1>2, <1>3

LEMMA MoveKept ==
    ASSUME EdInv, NEW line, NEW col, EdMoveTo(line, col), Stands(EdMoved(line, col), Fit)
    PROVE  EdInv'
<1>1. /\ edState' = EdMoved(line, col) /\ edJump' = "none" /\ edLast' = "none" /\ edUndo' = edUndo
      /\ edHistory' = edHistory /\ edBrowsing' = edBrowsing /\ edRing' = edRing
      /\ edPastes' = edPastes /\ edCounter' = edCounter /\ edMade' = edMade
      /\ edTorn' = edTorn /\ edCompleted' = edCompleted
  BY DEF EdMoveTo, EdKey, EdPastesStay, EdGhostStays, EdMoved
<1>2. edState'.lines = edState.lines
  <2>1. EdMoved(line, col) = [lines |-> edState.lines, line |-> line, col |-> col]
    BY FitSizes, MovedIs
  <2> QED BY <1>1, <2>1
<1>3. BrowsedIsEntry'
  BY <1>1, <1>2 DEF EdInv, BrowsedIsEntry
<1>4. /\ edMade \in 0 .. EdMaxPastes /\ edTorn \in BOOLEAN /\ edMade <= edMade /\ edCounter \in 0 .. edMade
      /\ DOMAIN edPastes \subseteq 1 .. edCounter /\ edBrowsing \in -1 .. Len(edHistory) - 1
  BY EdAssumption DEF EdInv, EdTypes, EdPlace
<1>5. EdUndoMade
  BY <1>1 DEF EdUndoMade
<1> QED BY <1>1, <1>3, <1>4, <1>5, QuietKept DEF Fit

LEMMA EdgesAreApart == \A l : ~EdAtomicAt(l, 0) /\ ~EdAtomicAt(l, Len(l))
<1>1. ASSUME NEW l PROVE ~EdAtomicAt(l, 0)
  BY DEF EdAtomicAt
<1>2. ASSUME NEW l PROVE ~EdAtomicAt(l, Len(l))
  BY DEF EdAtomicAt
<1> QED BY <1>1, <1>2

(* To the start or the end of a line, and nowhere at all. *)
LEMMA EdgeKept ==
    ASSUME EdInv, NEW line \in 1 .. Len(edState.lines), NEW col, col = 0 \/ col = Len(edState.lines[line]), EdMoveTo(line, col)
    PROVE  EdInv'
<1>1. col \in 0 .. Len(edState.lines[line]) /\ ~EdAtomicAt(edState.lines[line], col)
  BY FitSizes, EdgesAreApart
<1>2. Stands(EdMoved(line, col), Fit)
  BY <1>1, FitSizes, MovedFits DEF Fit
<1> QED BY <1>2, MoveKept

LEMMA StayKept == ASSUME EdInv, EdMoveTo(edState.line, edState.col) PROVE EdInv'
<1>1. EdMoved(edState.line, edState.col) = [lines |-> edState.lines, line |-> edState.line, col |-> edState.col]
  BY FitSizes, MovedIs
<1>2. edState = [lines |-> edState.lines, line |-> edState.line, col |-> edState.col]
  BY FitSizes, StandsIs
<1>3. Stands(EdMoved(edState.line, edState.col), Fit)
  BY <1>1, <1>2, FitSizes
<1> QED BY <1>3, MoveKept

LEMMA BackKept ==
    ASSUME EdInv, NEW col, EdBack(col), edState.col > 0 => col \in 0 .. Len(EdBefore) /\ ~EdAtomicAt(EdBefore, col)
    PROVE  EdInv'
<1>1. CASE edState.col > 0
  <2>1. Stands(EdMoved(edState.line, col), Fit)
    BY <1>1, FitSizes, MovedBackFits DEF Fit
  <2> QED BY <1>1, <2>1, MoveKept DEF EdBack
<1>2. CASE ~(edState.col > 0) /\ edState.line > 1
  <2>1. edState.line - 1 \in 1 .. Len(edState.lines)
    BY <1>2, FitSizes
  <2> DEFINE line == edState.line - 1
  <2>2. EdMoveTo(line, Len(edState.lines[line]))
    BY <1>2 DEF EdBack, EdLineEnd
  <2> HIDE DEF line
  <2> QED BY <2>1, <2>2, EdgeKept DEF line
<1>3. CASE ~(edState.col > 0) /\ ~(edState.line > 1)
  BY <1>3, StayKept DEF EdBack
<1> QED BY <1>1, <1>2, <1>3

LEMMA OnKept ==
    ASSUME EdInv, NEW width, EdOn(edState.col + width),
           edState.col < Len(EdLine) => width \in 0 .. Len(EdAfter) /\ ~EdAtomicAt(EdAfter, width)
    PROVE  EdInv'
<1>1. CASE edState.col < Len(EdLine)
  <2>1. Stands(EdMoved(edState.line, edState.col + width), Fit)
    BY <1>1, FitSizes, MovedOnFits DEF Fit
  <2> QED BY <1>1, <2>1, MoveKept DEF EdOn
<1>2. CASE ~(edState.col < Len(EdLine)) /\ edState.line < Len(edState.lines)
  <2>1. edState.line + 1 \in 1 .. Len(edState.lines)
    BY <1>2, FitSizes
  <2>2. EdMoveTo(edState.line + 1, 0)
    BY <1>2 DEF EdOn
  <2> QED BY <2>1, <2>2, EdgeKept
<1>3. CASE ~(edState.col < Len(EdLine)) /\ ~(edState.line < Len(edState.lines))
  BY <1>3, StayKept DEF EdOn
<1> QED BY <1>1, <1>2, <1>3

(* The cells a key passes, or takes out, never end inside of a marker. *)
LEMMA Steps ==
    ASSUME EdInv
    PROVE  /\ edState.col > 0 => LET from == edState.col - EdLastWidth(EdBefore) IN
                                     from \in 0 .. Len(EdBefore) /\ ~EdAtomicAt(EdBefore, from)
           /\ edState.col < Len(EdLine) => EdFirstWidth(EdAfter) \in 0 .. Len(EdAfter) /\ ~EdAtomicAt(EdAfter, EdFirstWidth(EdAfter))
           /\ EdWordStart(EdBefore) \in 0 .. Len(EdBefore) /\ ~EdAtomicAt(EdBefore, EdWordStart(EdBefore))
           /\ EdWordEnd(EdAfter) \in 0 .. Len(EdAfter) /\ ~EdAtomicAt(EdAfter, EdWordEnd(EdAfter))
<1>1. EdBefore \in InkLine /\ EdAfter \in InkLine
  BY FitSizes
<1>2. Len(<<>>) = 0
  OBVIOUS
<1>3. ASSUME edState.col > 0
      PROVE  LET from == edState.col - EdLastWidth(EdBefore) IN from \in 0 .. Len(EdBefore) /\ ~EdAtomicAt(EdBefore, from)
  <2>1. EdBefore # <<>> /\ Len(EdBefore) = edState.col
    BY <1>2, <1>3, FitSizes
  <2> QED BY <1>1, <2>1, BackCut
<1>4. ASSUME edState.col < Len(EdLine) PROVE EdFirstWidth(EdAfter) \in 0 .. Len(EdAfter) /\ ~EdAtomicAt(EdAfter, EdFirstWidth(EdAfter))
  <2>1. EdAfter # <<>>
    BY <1>2, <1>4, FitSizes
  <2> QED BY <1>1, <2>1, OnCut
<1> QED BY <1>1, <1>3, <1>4, WordBack, WordOn

LEMMA LeftKept == ASSUME EdInv, EdLeft PROVE EdInv'
BY Steps, BackKept DEF EdLeft

LEMMA RightKept == ASSUME EdInv, EdRight PROVE EdInv'
BY Steps, OnKept DEF EdRight

LEMMA WordLeftKept == ASSUME EdInv, EdWordLeft PROVE EdInv'
BY Steps, BackKept DEF EdWordLeft

LEMMA WordRightKept == ASSUME EdInv, EdWordRight PROVE EdInv'
BY Steps, OnKept DEF EdWordRight

LEMMA LineStartKept == ASSUME EdInv, EdLineStart PROVE EdInv'
BY FitSizes, EdgeKept DEF EdLineStart

LEMMA ToLineEndKept == ASSUME EdInv, EdToLineEnd PROVE EdInv'
BY FitSizes, EdgeKept DEF EdToLineEnd, EdLine

LEMMA VerticalKept == ASSUME EdInv, NEW i \in 1 .. Len(edState.lines), EdVertical(i) PROVE EdInv'
<1>1. PICK col \in 0 .. Len(edState.lines[i]) : ~EdAtomicAt(edState.lines[i], col) /\ EdMoveTo(i, col)
  BY DEF EdVertical, EdBoundary, EdLineEnd
<1>2. Stands(EdMoved(i, col), Fit)
  BY <1>1, FitSizes, MovedFits DEF Fit
<1> QED BY <1>1, <1>2, MoveKept

LEMMA NavigateKept == ASSUME EdInv, NEW index \in Int, EdNavigate(index) PROVE EdInv'
<1>1. /\ edJump' = "none" /\ edLast' = "none" /\ edHistory' = edHistory /\ edRing' = edRing
      /\ edTorn' = edTorn /\ edPastes' = edPastes /\ edCounter' = edCounter /\ edMade' = edMade
  BY DEF EdNavigate, EdKey, EdPastesStay
<1>2. /\ edMade \in 0 .. EdMaxPastes /\ edTorn \in BOOLEAN /\ edMade <= edMade /\ edCounter \in 0 .. edMade
      /\ DOMAIN edPastes \subseteq 1 .. edCounter /\ edBrowsing \in -1 .. Len(edHistory) - 1
      /\ edHistory \in Seq(Written)
  BY EdAssumption DEF EdInv, EdTypes, EdPlace
<1>3. EdUndoMade
  BY DEF EdNavigate, EdUndoMade
<1>4. CASE index < -1 \/ index >= Len(edHistory)
  <2>1. UNCHANGED <<edState, edBrowsing, edCompleted>>
    BY <1>4 DEF EdNavigate
  <2>2. BrowsedIsEntry'
    BY <1>1, <2>1 DEF EdInv, BrowsedIsEntry
  <2>3. Stands(edState', Fit)
    BY <2>1, FitSizes
  <2> QED BY <1>1, <1>2, <1>3, <2>1, <2>2, <2>3, QuietKept DEF Fit
<1>5. CASE ~(index < -1 \/ index >= Len(edHistory))
  <2>1. edState' = EdBrowsed(index) /\ edBrowsing' = index
    BY <1>5 DEF EdNavigate
  <2>2. Len(edHistory) \in Nat
    BY <1>2, LenProperties
  <2>3. index \in -1 .. Len(edHistory) - 1
    BY <1>5, <2>2
  <2>4. Stands(edState', Fit) /\ (index > -1 => EdJoin(edState'.lines) = edHistory[index + 1])
    <3>1. CASE index = -1
      <4>1. edState' = EdLoaded(<<>>)
        BY <2>1, <3>1, EmptyIsLoaded DEF EdBrowsed
      <4>2. Stands(edState', Fit)
        BY <4>1, EmptyIsLoaded, LoadedFits DEF Fit
      <4> QED BY <3>1, <4>2
    <3>2. CASE index # -1
      <4>1. index + 1 \in 1 .. Len(edHistory)
        BY <2>2, <2>3, <3>2
      <4>2. edHistory[index + 1] \in Written
        <5> DEFINE T == Written
        <5>1. edHistory \in Seq(T)
          BY <1>2
        <5> HIDE DEF T
        <5>2. edHistory[index + 1] \in T
          BY <4>1, <5>1, ElementOfSeq
        <5> QED BY <5>2 DEF T
      <4> QED BY <2>1, <3>2, <4>2, LoadedFits DEF EdBrowsed, Fit
    <3> QED BY <3>1, <3>2
  <2>5. BrowsedIsEntry'
    BY <1>1, <2>1, <2>4 DEF BrowsedIsEntry
  <2> QED BY <1>1, <1>2, <1>3, <2>1, <2>3, <2>4, <2>5, QuietKept DEF Fit
<1> QED BY <1>4, <1>5

LEMMA UpKept == ASSUME EdInv, EdUp PROVE EdInv'
<1>1. edBrowsing + 1 \in Int
  BY DEF EdInv, EdTypes
<1>2. edState.line > 1 => edState.line - 1 \in 1 .. Len(edState.lines)
  BY FitSizes
<1> QED BY <1>1, <1>2, VerticalKept, NavigateKept, LineStartKept DEF EdUp

LEMMA DownKept == ASSUME EdInv, EdDown PROVE EdInv'
<1>1. edBrowsing - 1 \in Int
  BY DEF EdInv, EdTypes
<1>2. edState.line < Len(edState.lines) => edState.line + 1 \in 1 .. Len(edState.lines)
  BY FitSizes
<1> QED BY <1>1, <1>2, VerticalKept, NavigateKept, ToLineEndKept DEF EdDown

(* A jump may land inside of a marker: then edTorn says so. *)
LEMMA JumpToKept == ASSUME EdInv, NEW ch, EdJumpTo(ch) PROVE EdInv'
<1>1. /\ edJump' = "none" /\ edLast' = "none" /\ edHistory' = edHistory /\ edRing' = edRing /\ edBrowsing' = edBrowsing
      /\ edUndo' = edUndo /\ edCompleted' = edCompleted /\ edPastes' = edPastes /\ edCounter' = edCounter /\ edMade' = edMade
  BY DEF EdJumpTo, EdKey, EdPastesStay
<1>2. /\ edMade \in 0 .. EdMaxPastes /\ edTorn \in BOOLEAN /\ edMade <= edMade /\ edCounter \in 0 .. edMade
      /\ DOMAIN edPastes \subseteq 1 .. edCounter /\ edBrowsing \in -1 .. Len(edHistory) - 1
  BY EdAssumption DEF EdInv, EdTypes, EdPlace
<1>3. EdUndoMade
  BY <1>1 DEF EdUndoMade
<1>4. CASE EdHits(ch) = {}
  <2>1. UNCHANGED <<edState, edTorn>>
    BY <1>4 DEF EdJumpTo
  <2>2. BrowsedIsEntry'
    BY <1>1, <2>1 DEF EdInv, BrowsedIsEntry
  <2>3. Stands(edState', Fit)
    BY <2>1, FitSizes
  <2> QED BY <1>1, <1>2, <1>3, <2>1, <2>2, <2>3, QuietKept DEF Fit
<1>5. CASE EdHits(ch) # {}
  <2>1. PICK p \in EdHits(ch) : /\ edState' = EdMoved(p[1], p[2])
                               /\ edTorn' = (edTorn \/ EdAtomicAt(edState.lines[p[1]], p[2]))
    BY <1>5 DEF EdJumpTo, EdMoved
  <2>2. p \in EdFound(ch)
    BY DEF EdHits
  <2>3. PICK i \in 1 .. Len(edState.lines) : \E c \in 0 .. Len(edState.lines[i]) - 1 : p = <<i, c>>
    <3> DEFINE U == {{i} \X (0 .. EdLineEnd(i) - 1) : i \in 1 .. Len(edState.lines)}
    <3>1. p \in UNION U
      BY <2>2 DEF EdFound
    <3>2. PICK u \in U : p \in u
      BY <3>1
    <3> QED BY <3>2 DEF EdLineEnd
  <2> DEFINE c == p[2]
  <2>4. p[1] = i /\ p[2] = c /\ c \in 0 .. Len(edState.lines[i])
    BY <2>3, FitSizes
  <2> HIDE DEF c
  <2>5. Stands(edState, Lines(edPastes, EdNoMarkerKilled, edTorn'))
    <3>1. Extends(edPastes, edPastes) /\ (edTorn => edTorn')
      BY <2>1 DEF Extends
    <3>2. Fit \subseteq Lines(edPastes, EdNoMarkerKilled, edTorn')
      BY <3>1, LinesLooser DEF Fit
    <3> QED BY <3>2, FitSizes, StandsLooser
  <2>6. Stands(edState', Lines(edPastes, EdNoMarkerKilled, edTorn'))
    <3>1. ~edTorn' => ~EdAtomicAt(edState.lines[i], c)
      BY <2>1, <2>4
    <3>2. Stands(EdMoved(i, c), Lines(edPastes, EdNoMarkerKilled, edTorn'))
      BY <2>4, <2>5, <3>1, MovedFits
    <3> QED BY <2>1, <2>4, <3>2
  <2>7. edState'.lines = edState.lines
    <3>1. EdMoved(i, c) = [lines |-> edState.lines, line |-> i, col |-> c]
      BY FitSizes, MovedIs
    <3> QED BY <2>1, <2>4, <3>1
  <2>8. BrowsedIsEntry'
    BY <1>1, <2>7 DEF EdInv, BrowsedIsEntry
  <2>9. edTorn' \in BOOLEAN /\ (edTorn => edTorn')
    <3>1. EdAtomicAt(edState.lines[p[1]], p[2]) \in BOOLEAN
      BY DEF EdAtomicAt
    <3> QED BY <1>2, <2>1, <3>1
  <2> QED BY <1>1, <1>2, <1>3, <2>6, <2>8, <2>9, QuietKept
<1> QED BY <1>4, <1>5

-----------------------------------------------------------------------------
(* The kill ring. *)
Unmarked(ring) == \A i \in 1 .. Len(ring) : EdMarkerCells(ring[i]) = {}

LEMMA MarksJoin ==
    ASSUME NEW a \in Text, NEW b \in Text, EdMarkerCells(Cat(a, b)) = {}
    PROVE  EdMarkerCells(a) = {} /\ EdMarkerCells(b) = {}
<1>1. /\ Len(a) \in Nat /\ Len(b) \in Nat /\ Len(Cat(a, b)) = Len(a) + Len(b)
      /\ \A i \in 1 .. Len(a) + Len(b) : Cat(a, b)[i] = IF i <= Len(a) THEN a[i] ELSE b[i - Len(a)]
  BY CatLen DEF Text
<1>2. \A t \in Text : DOMAIN t = 1 .. Len(t)
  BY LenProperties DEF Text
<1> DEFINE c == Cat(a, b)
<1>3. c \in Text
  BY TextJoins
<1> HIDE DEF c
<1>4. \A i \in 1 .. Len(a) : a[i] \in Range(c)
  <2> SUFFICES ASSUME NEW i \in 1 .. Len(a) PROVE a[i] \in Range(c)
    OBVIOUS
  <2>1. i \in 1 .. Len(c) /\ c[i] = a[i]
    BY <1>1 DEF c
  <2> QED BY <1>2, <1>3, <2>1 DEF Range
<1>5. \A i \in 1 .. Len(b) : b[i] \in Range(c)
  <2> SUFFICES ASSUME NEW i \in 1 .. Len(b) PROVE b[i] \in Range(c)
    OBVIOUS
  <2>1. PICK j \in 1 .. Len(c) : j = Len(a) + i
    BY <1>1 DEF c
  <2>2. c[j] = b[i]
    BY <1>1, <2>1 DEF c
  <2> QED BY <1>2, <1>3, <2>1, <2>2 DEF Range
<1>6. Range(a) \subseteq Range(c) /\ Range(b) \subseteq Range(c)
  <2>1. Range(a) \subseteq Range(c)
    BY <1>2, <1>4 DEF Range
  <2>2. Range(b) \subseteq Range(c)
    BY <1>2, <1>5 DEF Range
  <2> QED BY <2>1, <2>2
<1> QED BY <1>6 DEF EdMarkerCells, c

LEMMA KilledIs ==
    ASSUME NEW text \in Text, NEW prepend \in BOOLEAN, edRing \in Seq(Text)
    PROVE  LET ring == EdKilled(text, prepend) IN
           /\ ring \in Seq(Text) /\ ring # <<>>
           /\ Last(ring) = IF edLast = "kill" /\ edRing # <<>>
                           THEN IF prepend THEN Cat(text, Last(edRing)) ELSE Cat(Last(edRing), text)
                           ELSE text
           /\ \A i \in 1 .. Len(ring) : i # Len(ring) => i \in 1 .. Len(edRing) /\ ring[i] = edRing[i]
           /\ Unmarked(ring) => Unmarked(edRing)
<1> DEFINE ring == EdKilled(text, prepend)
           n == Len(edRing)
<1>1. CASE edLast = "kill" /\ edRing # <<>>
  <2> DEFINE more == IF prepend THEN Cat(text, Last(edRing)) ELSE Cat(Last(edRing), text)
  <2>1. n \in Nat \ {0} /\ n \in 1 .. n /\ Last(edRing) \in Text /\ Last(edRing) = edRing[n]
    BY <1>1, LastIs
  <2>2. more \in Text
    BY <2>1, TextJoins
  <2>3. ring = [edRing EXCEPT ![n] = more]
    BY <1>1, <2>1 DEF EdKilled, Cat
  <2>4. \A i \in 1 .. n : edRing[i] \in Text
    BY ElementOfSeq
  <2>5. Unmarked(ring) /\ ring[n] = more => EdMarkerCells(edRing[n]) = {} \/ Len(ring) # n
    <3>1. EdMarkerCells(more) = {} => EdMarkerCells(edRing[n]) = {}
      BY <2>1, MarksJoin
    <3> HIDE DEF more, ring
    <3> QED BY <2>1, <3>1 DEF Unmarked
  <2> HIDE DEF more
  <2>6. /\ ring \in Seq(Text) /\ Len(ring) = n
        /\ \A j \in 1 .. n : ring[j] = IF j = n THEN more ELSE edRing[j]
    <3> DEFINE q == [edRing EXCEPT ![n] = more]
    <3>1. q \in Seq(Text) /\ Len(q) = n /\ \A j \in 1 .. n : q[j] = IF j = n THEN more ELSE edRing[j]
      BY <2>1, <2>2, ExceptSeq
    <3> QED BY <2>3, <3>1
  <2> HIDE DEF ring
  <2>7. ring # <<>> /\ Last(ring) = more
    <3>1. ring # <<>>
      BY <2>1, <2>6, EmptySeq
    <3>2. Last(ring) = ring[Len(ring)]
      BY <2>6, <3>1, LastIs
    <3> QED BY <2>1, <2>6, <3>1, <3>2
  <2>8. Unmarked(ring) => Unmarked(edRing)
    <3> SUFFICES ASSUME Unmarked(ring), NEW i \in 1 .. n PROVE EdMarkerCells(edRing[i]) = {}
      BY DEF Unmarked
    <3>1. CASE i = n
      BY <2>1, <2>5, <2>6, <3>1
    <3>2. CASE i # n
      BY <2>6, <3>2 DEF Unmarked
    <3> QED BY <3>1, <3>2
  <2>9. \A i \in 1 .. Len(ring) : i # Len(ring) => i \in 1 .. Len(edRing) /\ ring[i] = edRing[i]
    BY <2>6
  <2> QED BY <1>1, <2>6, <2>7, <2>8, <2>9 DEF ring, more
<1>2. CASE ~(edLast = "kill" /\ edRing # <<>>)
  <2>1. ring = Append(edRing, text)
    BY <1>2 DEF EdKilled
  <2>2. /\ n \in Nat /\ ring \in Seq(Text) /\ Len(ring) = n + 1 /\ \A i \in 1 .. n : ring[i] = edRing[i]
    BY <2>1, AppendProperties, LenProperties
  <2>3. ring # <<>> /\ Last(ring) = text
    BY <2>1, FrontOfMore, AppendProperties
  <2> HIDE DEF ring
  <2>4. Unmarked(ring) => Unmarked(edRing)
    <3> SUFFICES ASSUME Unmarked(ring), NEW i \in 1 .. n PROVE EdMarkerCells(edRing[i]) = {}
      BY DEF Unmarked
    <3>1. i \in 1 .. Len(ring)
      BY <2>2
    <3> QED BY <2>2, <3>1 DEF Unmarked
  <2>5. \A i \in 1 .. Len(ring) : i # Len(ring) => i \in 1 .. Len(edRing) /\ ring[i] = edRing[i]
    BY <2>2
  <2> QED BY <1>2, <2>2, <2>3, <2>4, <2>5 DEF ring
<1> QED BY <1>1, <1>2

LEMMA TextIs ==
    ASSUME NEW L, Closed(L), NEW s, Stands(s, L)
    PROVE  /\ EdTextBefore(s) \in Text /\ EdTextAfter(s) \in Text
           /\ EdJoin(s.lines) = Cat(EdTextBefore(s), EdTextAfter(s))
<1>1. PICK F \in Seq(L), G \in Seq(L), x \in L, y \in L : s = At(F, x, y, G)
  BY DEF Stands
<1>2. F \in Seq(InkLine) /\ G \in Seq(InkLine) /\ x \in InkLine /\ y \in InkLine
  BY InkJoins
<1>3. F \in Seq(Text) /\ G \in Seq(Text) /\ x \in Text /\ y \in Text
  BY <1>2, InkJoins
<1>4. UpTo(F, x) \in Text /\ From(y, G) \in Text
  BY <1>3, UpToIs, FromIs
<1>5. /\ EdTextBefore(s) = UpTo(F, x) /\ EdTextAfter(s) = From(y, G)
      /\ EdJoin(s.lines) = Cat(UpTo(F, x), From(y, G))
  BY <1>1, <1>2, AtText
<1> QED BY <1>4, <1>5

(* What is yanked splits into lines fit for the text. *)
LEMMA RingSplits ==
    ASSUME NEW P, NEW clean, NEW torn, NEW ring \in Seq(Text), ring # <<>>, RingWhole(ring, clean, torn)
    PROVE  Last(ring) \in Text /\ EdSplit(Last(ring)) \in Seq(Lines(P, clean, torn))
<1>1. Last(ring) \in Text /\ Len(ring) \in Nat \ {0} /\ Last(ring) = ring[Len(ring)]
  BY LastIs
<1>2. EdSplit(Last(ring)) \in Seq(Lines(<<>>, clean, torn))
  <2>1. Len(ring) \in 1 .. Len(ring)
    BY <1>1
  <2> QED BY <1>1, <2>1 DEF RingWhole
<1>3. Seq(Lines(<<>>, clean, torn)) \subseteq Seq(Lines(P, clean, torn))
  BY ImageCells, LinesLooser, SeqMonotonic
<1> QED BY <1>1, <1>2, <1>3

(* A kill takes `text` away right before the cursor, or right behind it. *)
Takes(s, text, prepend) ==
    /\ Stands(s, Fit) /\ EdTextBefore(s) \in Text /\ EdTextAfter(s) \in Text
    /\ EdSplit(text) \in Seq(Fit)
    /\ IF prepend THEN EdTextBefore(edState) = Cat(EdTextBefore(s), text) /\ EdTextAfter(edState) = EdTextAfter(s)
       ELSE EdTextBefore(edState) = EdTextBefore(s) /\ EdTextAfter(edState) = Cat(text, EdTextAfter(s))

LEMMA KillKept ==
    ASSUME EdInv, NEW s, NEW text \in Text, NEW prepend \in BOOLEAN, EdKill(s, text, prepend),
           text # <<>> => Takes(s, text, prepend)
    PROVE  EdInv'
<1>1. /\ edJump' = "none" /\ edBrowsing' = -1 /\ edHistory' = edHistory /\ edTorn' = edTorn /\ edAround' = edAround
      /\ edPastes' = edPastes /\ edCounter' = edCounter /\ edMade' = edMade
  BY DEF EdKill, EdKey, EdStopBrowsing, EdPastesStay
<1>2. BrowsedIsEntry'
  BY <1>1 DEF BrowsedIsEntry
<1>3. CASE text = <<>>
  <2>1. UNCHANGED <<edState, edRing, edLast, edUndo, edRun>>
    BY <1>3 DEF EdKill
  <2>2. EdTypes'
    BY <1>1, <2>1, NotBrowsing DEF EdInv, EdTypes
  <2> QED BY <1>1, <1>2, <2>1, <2>2, StillKept
<1>4. CASE text # <<>>
  <2>1. /\ edState' = s /\ edRing' = EdKilled(text, prepend) /\ edLast' = "kill" /\ edUndo' = EdPush
        /\ edRun' = IF edLast = "kill" THEN edRun ELSE EdJoin(edState.lines)
    BY <1>4 DEF EdKill
  <2>2. edRing \in Seq(Text) /\ edMade \in Nat /\ edMade <= edMade
    BY EdAssumption DEF EdInv, EdTypes
  <2>3. /\ edRing' \in Seq(Text) /\ edRing' # <<>>
        /\ Last(edRing') = IF edLast = "kill" /\ edRing # <<>>
                           THEN IF prepend THEN Cat(text, Last(edRing)) ELSE Cat(Last(edRing), text)
                           ELSE text
        /\ \A i \in 1 .. Len(edRing') : i # Len(edRing') => i \in 1 .. Len(edRing) /\ edRing'[i] = edRing[i]
        /\ Unmarked(edRing') => Unmarked(edRing)
    BY <2>1, <2>2, KilledIs
  <2>4. EdNoMarkerKilled' => EdNoMarkerKilled
    BY <2>3 DEF EdNoMarkerKilled, Unmarked
  <2>5. EdTypes'
    BY <1>1, <2>1, <2>3, NotBrowsing DEF EdInv, EdTypes
  <2>6. EdPlace'
    <3>1. Extends(edPastes, edPastes)
      BY DEF Extends
    <3>2. Fit \subseteq Lines(edPastes, EdNoMarkerKilled', edTorn)
      BY <2>4, <3>1, LinesLooser DEF Fit
    <3>3. Stands(s, Lines(edPastes, EdNoMarkerKilled', edTorn))
      BY <1>4, <3>2, StandsLooser DEF Takes
    <3> QED BY <1>1, <2>1, <3>3 DEF EdInv, EdPlace, Fit
  <2>7. EdPast'
    <3>1. EdUndoMade
      BY <2>1 DEF EdUndoMade
    <3> QED BY <1>1, <2>2, <2>4, <3>1, PastKept DEF EdInv
  <2>8. EdKillKept'
    <3> DEFINE a == EdTextBefore(s)
               b == EdTextAfter(s)
               A == EdTextBefore(edState)
               B == EdTextAfter(edState)
    <3>1. /\ a \in Text /\ b \in Text
          /\ prepend => A = Cat(a, text) /\ B = b
          /\ ~prepend => A = a /\ B = Cat(text, b)
      BY <1>4 DEF Takes
    <3>2. A \in Text /\ B \in Text /\ EdJoin(edState.lines) = Cat(A, B)
      <4>1. Closed(Fit) /\ Stands(edState, Fit)
        BY FitSizes
      <4> QED BY <4>1, TextIs
    <3>3. edRun' \in Text /\ Cat(Cat(a, Last(edRing')), b) = edRun'
      <4>1. CASE edLast = "kill"
        <5> DEFINE k == Last(edRing)
        <5>1. edRing # <<>> /\ edRun \in Text /\ Cat(Cat(A, k), B) = edRun /\ edRun' = edRun
          BY <2>1, <4>1 DEF EdInv, EdKillKept
        <5>2. k \in Text
          BY <2>2, <5>1, LastIs
        <5>3. Last(edRing') = IF prepend THEN Cat(text, k) ELSE Cat(k, text)
          BY <2>3, <4>1, <5>1
        <5> HIDE DEF a, b, A, B, k
        <5>4. CASE prepend
          <6>1. Cat(a, Cat(text, k)) = Cat(Cat(a, text), k)
            BY <3>1, <5>2, TextJoins
          <6> QED BY <3>1, <5>1, <5>3, <5>4, <6>1
        <5>5. CASE ~prepend
          <6>1. Cat(a, Cat(k, text)) = Cat(Cat(a, k), text) /\ Cat(a, k) \in Text
            BY <3>1, <5>2, TextJoins
          <6>2. Cat(Cat(Cat(a, k), text), b) = Cat(Cat(a, k), Cat(text, b))
            BY <3>1, <6>1, TextJoins
          <6> QED BY <3>1, <5>1, <5>3, <5>5, <6>1, <6>2
        <5> QED BY <5>4, <5>5
      <4>2. CASE edLast # "kill"
        <5>1. Last(edRing') = text /\ edRun' = Cat(A, B)
          BY <2>1, <2>3, <3>2, <4>2
        <5> HIDE DEF a, b, A, B
        <5>2. A \in Text /\ B \in Text
          BY <3>2
        <5>3. Cat(Cat(a, text), b) = Cat(a, Cat(text, b))
          BY <3>1, TextJoins
        <5>4. CASE prepend
          BY <3>1, <5>1, <5>2, <5>4, TextJoins
        <5>5. CASE ~prepend
          BY <3>1, <5>1, <5>2, <5>3, <5>5, TextJoins
        <5> QED BY <5>4, <5>5
      <4> QED BY <4>1, <4>2
    <3> QED BY <2>1, <2>3, <3>3 DEF EdKillKept
  <2>9. EdYankKept'
    BY <2>1 DEF EdYankKept
  <2>10. EdRingFits'
    <3> DEFINE clean == EdNoMarkerKilled
               clean2 == EdNoMarkerKilled'
               more == Last(edRing')
    <3>1. RingWhole(edRing, clean2, edTorn) /\ RingWhole(edRing, clean, edTorn)
      BY <2>4, RingLooser DEF EdInv, EdRingFits
    <3>2. more \in Text /\ Len(edRing') \in Nat \ {0} /\ more = edRing'[Len(edRing')]
      BY <2>3, LastIs
    <3>3. clean2 => EdMarkerCells(more) = {}
      <4>1. Len(edRing') \in 1 .. Len(edRing')
        BY <3>2
      <4> QED BY <3>2, <4>1 DEF EdNoMarkerKilled
    <3>4. Closed(Fit) /\ Fit \subseteq Lines(edPastes, clean2, edTorn)
      <4>1. Extends(edPastes, edPastes)
        BY DEF Extends
      <4> QED BY <2>4, <4>1, FitSizes, LinesLooser DEF Fit
    <3>5. EdSplit(more) \in Seq(Fit)
      <4>1. EdSplit(text) \in Seq(Fit)
        BY <1>4 DEF Takes
      <4>2. CASE edLast = "kill" /\ edRing # <<>>
        <5> DEFINE k == Last(edRing)
        <5>1. k \in Text /\ EdSplit(k) \in Seq(Fit)
          BY <2>2, <3>1, <4>2, RingSplits DEF Fit
        <5>2. more = IF prepend THEN Cat(text, k) ELSE Cat(k, text)
          BY <2>3, <4>2
        <5> HIDE DEF k, more
        <5> QED BY <3>4, <4>1, <5>1, <5>2, SplitCat
      <4>3. CASE ~(edLast = "kill" /\ edRing # <<>>)
        BY <2>3, <4>1, <4>3
      <4> QED BY <4>2, <4>3
    <3> HIDE DEF more, clean, clean2
    <3>6. EdSplit(more) \in Seq(Lines(edPastes, clean2, edTorn))
      BY <3>4, <3>5, SeqMonotonic
    <3>7. EdSplit(more) \in Seq(Lines(<<>>, clean2, edTorn))
      BY <3>2, <3>3, <3>6, UnpastedSplit
    <3>8. ASSUME NEW i \in 1 .. Len(edRing') PROVE EdSplit(edRing'[i]) \in Seq(Lines(<<>>, clean2, edTorn))
      <4>1. CASE i = Len(edRing')
        BY <3>2, <3>7, <4>1
      <4>2. CASE i # Len(edRing')
        BY <2>3, <3>1, <4>2 DEF RingWhole
      <4> QED BY <4>1, <4>2
    <3>9. RingWhole(edRing', clean2, edTorn)
      BY <3>8 DEF RingWhole
    <3> QED BY <1>1, <3>9 DEF EdRingFits, clean2
  <2> QED BY <1>2, <2>5, <2>6, <2>7, <2>8, <2>9, <2>10 DEF EdInv
<1> QED BY <1>3, <1>4

LEMMA BreakFits == EdSplit(Break) \in Seq(Fit)
<1>1. Break \in Seq(EdPlain)
  BY DEF Break, EdPlain
<1> QED BY <1>1, PlainIsWritten, SplitWritten DEF Fit

LEMMA NothingKilled ==
    ASSUME EdInv, NEW prepend \in BOOLEAN, EdKill(edState, <<>>, prepend)
    PROVE  EdInv'
BY TextJoins, KillKept

LEMMA KillBackKept ==
    ASSUME EdInv, NEW from, EdKillBack(from), from \in 0 .. Len(EdBefore), ~EdAtomicAt(EdBefore, from)
    PROVE  EdInv'
<1>1. CASE edState.col > 0
  <2> DEFINE s == EdCut(from, edState.col)
             k == SubSeq(EdLine, from + 1, edState.col)
  <2>1. EdKill(s, k, TRUE)
    BY <1>1 DEF EdKillBack
  <2>2. Stands(edState, Lines(edPastes, EdNoMarkerKilled, edTorn)) /\ ~Joint(edPastes, EdBefore, from)
    BY FitSizes, JointIs DEF Fit
  <2>3. Takes(s, k, TRUE) /\ k \in Text
    BY <2>2, CutBackFits DEF Takes, Fit
  <2> HIDE DEF s, k
  <2> QED BY <2>1, <2>3, KillKept
<1>2. CASE ~(edState.col > 0) /\ edState.line > 1
  <2>1. EdKill(EdMergedBack, Break, TRUE)
    BY <1>2 DEF EdKillBack, Break
  <2>2. Takes(EdMergedBack, Break, TRUE)
    BY <1>2, FitSizes, BreakFits, MergedBackFits DEF Takes, Fit
  <2> QED BY <2>1, <2>2, TextJoins, KillKept
<1>3. CASE ~(edState.col > 0) /\ ~(edState.line > 1)
  BY <1>3, NothingKilled DEF EdKillBack
<1> QED BY <1>1, <1>2, <1>3

LEMMA KillOnKept ==
    ASSUME EdInv, NEW to, EdKillOn(to), NEW width \in 0 .. Len(EdAfter), to = edState.col + width, ~EdAtomicAt(EdAfter, width)
    PROVE  EdInv'
<1>1. CASE edState.col < Len(EdLine)
  <2> DEFINE s == EdCut(edState.col, to)
             k == SubSeq(EdLine, edState.col + 1, to)
  <2>1. EdKill(s, k, FALSE)
    BY <1>1 DEF EdKillOn
  <2>2. Stands(edState, Lines(edPastes, EdNoMarkerKilled, edTorn)) /\ ~Joint(edPastes, EdAfter, width)
    BY FitSizes, JointIs DEF Fit
  <2>3. Takes(s, k, FALSE) /\ k \in Text
    BY <2>2, CutOnFits DEF Takes, Fit
  <2> HIDE DEF s, k
  <2> QED BY <2>1, <2>3, KillKept
<1>2. CASE ~(edState.col < Len(EdLine)) /\ edState.line < Len(edState.lines)
  <2>1. EdKill(EdMergedOn, Break, FALSE)
    BY <1>2 DEF EdKillOn, Break
  <2>2. Takes(EdMergedOn, Break, FALSE)
    BY <1>2, FitSizes, BreakFits, MergedOnFits DEF Takes, Fit
  <2> QED BY <2>1, <2>2, TextJoins, KillKept
<1>3. CASE ~(edState.col < Len(EdLine)) /\ ~(edState.line < Len(edState.lines))
  BY <1>3, NothingKilled DEF EdKillOn
<1> QED BY <1>1, <1>2, <1>3

LEMMA DeleteToStartKept == ASSUME EdInv, EdDeleteToStart PROVE EdInv'
<1>1. 0 \in 0 .. Len(EdBefore)
  BY FitSizes
<1> QED BY <1>1, EdgesAreApart, KillBackKept DEF EdDeleteToStart

LEMMA DeleteToEndKept == ASSUME EdInv, EdDeleteToEnd PROVE EdInv'
<1>1. Len(EdAfter) \in 0 .. Len(EdAfter) /\ Len(EdLine) = edState.col + Len(EdAfter)
  BY FitSizes
<1> QED BY <1>1, EdgesAreApart, KillOnKept DEF EdDeleteToEnd

LEMMA DeleteWordBackKept == ASSUME EdInv, EdDeleteWordBack PROVE EdInv'
BY Steps, KillBackKept DEF EdDeleteWordBack

LEMMA DeleteWordOnKept == ASSUME EdInv, EdDeleteWordOn PROVE EdInv'
BY Steps, KillOnKept DEF EdDeleteWordOn

LEMMA YankKept == ASSUME EdInv, EdYank PROVE EdInv'
<1>1. /\ edRing # <<>> /\ edJump' = "none" /\ edUndo' = EdPush /\ edBrowsing' = -1 /\ edLast' = "yank"
      /\ edState' = EdInsertInto(edState, Last(edRing)) /\ edAround' = <<EdTextBefore(edState), EdTextAfter(edState)>>
      /\ edHistory' = edHistory /\ edRing' = edRing /\ edTorn' = edTorn
      /\ edPastes' = edPastes /\ edCounter' = edCounter /\ edMade' = edMade
  BY DEF EdYank, EdKey, EdStopBrowsing, EdPastesStay
<1>2. edRing \in Seq(Text) /\ edMade \in Nat /\ edMade <= edMade /\ EdNoMarkerKilled' = EdNoMarkerKilled
  BY <1>1, EdAssumption, CleanStays DEF EdInv, EdTypes
<1>3. Last(edRing) \in Text /\ EdSplit(Last(edRing)) \in Seq(Fit)
  BY <1>1, <1>2, RingSplits DEF EdInv, EdRingFits, Fit
<1>4. Stands(edState', Fit)
  BY <1>1, <1>3, FitSizes, InsertFits DEF Fit
<1>5. Fit' = Fit
  BY <1>1, <1>2 DEF Fit
<1>6. EdTypes'
  BY <1>1, NotBrowsing DEF EdInv, EdTypes
<1>7. EdPlace'
  BY <1>1, <1>4, <1>5 DEF EdInv, EdPlace
<1>8. EdPast'
  <2>1. EdUndoMade
    BY <1>1 DEF EdUndoMade
  <2> QED BY <1>1, <1>2, <2>1, PastKept DEF EdInv
<1>9. EdYankKept'
  <2>1. Stands(edState, Fit')
    BY <1>5, FitSizes
  <2> QED BY <1>1, <2>1 DEF EdYankKept
<1>10. EdRingFits'
  BY <1>1, <1>2 DEF EdInv, EdRingFits
<1> QED BY <1>1, <1>6, <1>7, <1>8, <1>9, <1>10 DEF EdInv, EdKillKept, BrowsedIsEntry

LEMMA RingTurned ==
    ASSUME NEW ring \in Seq(Text), Len(ring) > 1
    PROVE  LET turned == <<Last(ring)>> \o Front(ring) IN
           /\ turned \in Seq(Text) /\ turned # <<>> /\ (Unmarked(turned) => Unmarked(ring))
           /\ \A i \in 1 .. Len(turned) : \E j \in 1 .. Len(ring) : turned[i] = ring[j]
<1> DEFINE F == Front(ring)
           e == Last(ring)
           turned == Cat(One(e), F)
<1>1. ring # <<>> /\ Len(ring) \in Nat
  BY LenProperties, EmptySeq
<1>2. e \in Text /\ e = ring[Len(ring)] /\ F \in Seq(Text) /\ Len(F) = Len(ring) - 1 /\ \A k \in 1 .. Len(ring) - 1 : F[k] = ring[k]
  BY <1>1, LastIs
<1>3. One(e) \in Seq(Text) /\ Len(One(e)) = 1 /\ One(e)[1] = e /\ One(e) # <<>>
  BY <1>2, OneType
<1> HIDE DEF F, e
<1>4. turned \in Seq(Text) /\ turned # <<>>
  BY <1>2, <1>3, CatType, CatNotEmpty
<1>5. /\ Len(turned) = Len(ring)
      /\ \A i \in 1 .. Len(ring) : turned[i] = IF i <= 1 THEN One(e)[i] ELSE F[i - 1]
  <2> DEFINE o == One(e)
  <2>1. o \in Seq(Text) /\ Len(o) = 1
    BY <1>3
  <2> HIDE DEF o
  <2>2. /\ Len(Cat(o, F)) = Len(o) + Len(F)
        /\ \A i \in 1 .. Len(o) + Len(F) : Cat(o, F)[i] = IF i <= Len(o) THEN o[i] ELSE F[i - Len(o)]
    BY <1>2, <2>1, CatLen
  <2> QED BY <1>1, <1>2, <2>1, <2>2 DEF o
<1> HIDE DEF turned
<1>6. Unmarked(turned) => Unmarked(ring)
  <2> SUFFICES ASSUME Unmarked(turned), NEW i \in 1 .. Len(ring) PROVE EdMarkerCells(ring[i]) = {}
    BY DEF Unmarked
  <2>1. CASE i = Len(ring)
    <3>1. 1 \in 1 .. Len(turned) /\ turned[1] = e
      BY <1>1, <1>3, <1>5
    <3> QED BY <1>2, <2>1, <3>1 DEF Unmarked
  <2>2. CASE i # Len(ring)
    <3>1. PICK j \in 1 .. Len(ring) : j = i + 1
      BY <1>1, <2>2
    <3>2. turned[j] = ring[i]
      BY <1>1, <1>2, <1>5, <2>2, <3>1
    <3> QED BY <1>5, <3>2 DEF Unmarked
  <2> QED BY <2>1, <2>2
<1>7. ASSUME NEW i \in 1 .. Len(turned) PROVE \E j \in 1 .. Len(ring) : turned[i] = ring[j]
  <2>1. CASE i = 1
    <3>1. turned[i] = ring[Len(ring)] /\ Len(ring) \in 1 .. Len(ring)
      BY <1>1, <1>2, <1>3, <1>5, <2>1
    <3> QED BY <3>1
  <2>2. CASE i # 1
    <3>1. PICK j \in 1 .. Len(ring) - 1 : j = i - 1
      BY <1>1, <1>5, <2>2
    <3>2. turned[i] = F[j] /\ F[j] = ring[j] /\ j \in 1 .. Len(ring)
      BY <1>1, <1>2, <1>5, <2>2, <3>1
    <3> QED BY <3>2
  <2> QED BY <2>1, <2>2
<1> QED BY <1>4, <1>6, <1>7 DEF turned, Cat, One, F, e

(* Taking out what was yanked gives back the text before the yank. *)
LEMMA YankTakenOut ==
    ASSUME EdInv, NEW s, Stands(s, Fit), NEW t \in Text, EdSplit(t) \in Seq(Fit), edState = EdInsertInto(s, t)
    PROVE  /\ EdWithoutYank(t) = s
           /\ EdJoin(edState.lines) = Cat(Cat(EdTextBefore(s), t), EdTextAfter(s))
<1>1. Closed(Fit)
  BY FitSizes
<1>2. PICK F \in Seq(Fit), G \in Seq(Fit), x \in Fit, y \in Fit : s = At(F, x, y, G)
  BY DEF Stands
<1>3. PICK F2 \in Seq(Fit), x2 \in Fit :
              /\ EdInsertInto(At(F, x, y, G), t) = At(F2, x2, y, G)
              /\ UpTo(F2, x2) = Cat(UpTo(F, x), t)
              /\ edState = At(F2, x2, y, G) => EdWithoutYank(t) = At(F, x, y, G)
  BY <1>1, Inserted
<1>4. EdWithoutYank(t) = s
  BY <1>2, <1>3
<1>5. /\ F \in Seq(InkLine) /\ G \in Seq(InkLine) /\ x \in InkLine /\ y \in InkLine
      /\ F2 \in Seq(InkLine) /\ x2 \in InkLine
  BY <1>1, InkJoins
<1>6. EdTextBefore(s) = UpTo(F, x) /\ EdTextAfter(s) = From(y, G)
  BY <1>2, <1>5, AtText
<1>7. EdJoin(edState.lines) = Cat(UpTo(F2, x2), From(y, G))
  <2>1. edState = At(F2, x2, y, G)
    BY <1>2, <1>3
  <2> QED BY <1>5, <2>1, AtText
<1> QED BY <1>3, <1>4, <1>6, <1>7

LEMMA YankPopKept == ASSUME EdInv, EdYankPop PROVE EdInv'
<1>1. /\ edLast = "yank" /\ Len(edRing) > 1 /\ edJump' = "none" /\ edUndo' = EdPush /\ edBrowsing' = -1
      /\ edRing' = <<Last(edRing)>> \o Front(edRing)
      /\ edState' = EdInsertInto(EdWithoutYank(Last(edRing)), Last(edRing'))
      /\ edHistory' = edHistory /\ edLast' = edLast /\ edTorn' = edTorn /\ edAround' = edAround
      /\ edPastes' = edPastes /\ edCounter' = edCounter /\ edMade' = edMade
  BY DEF EdYankPop, EdKey, EdStopBrowsing, EdPastesStay
<1>2. edRing \in Seq(Text) /\ edMade \in Nat /\ edMade <= edMade
  BY EdAssumption DEF EdInv, EdTypes
<1>3. /\ edRing' \in Seq(Text) /\ edRing' # <<>> /\ (Unmarked(edRing') => Unmarked(edRing))
      /\ \A i \in 1 .. Len(edRing') : \E j \in 1 .. Len(edRing) : edRing'[i] = edRing[j]
  BY <1>1, <1>2, RingTurned
<1>4. EdNoMarkerKilled' => EdNoMarkerKilled
  BY <1>3 DEF EdNoMarkerKilled, Unmarked
<1>5. PICK s : /\ Stands(s, Fit) /\ edState = EdInsertInto(s, Last(edRing)) /\ edRing # <<>>
               /\ edAround = <<EdTextBefore(s), EdTextAfter(s)>>
  BY <1>1 DEF EdInv, EdYankKept
<1>6. EdWithoutYank(Last(edRing)) = s
  <2>1. Last(edRing) \in Text /\ EdSplit(Last(edRing)) \in Seq(Fit)
    BY <1>2, <1>5, RingSplits DEF EdInv, EdRingFits, Fit
  <2> QED BY <1>5, <2>1, YankTakenOut
<1>7. Stands(s, Fit')
  <2>1. Extends(edPastes, edPastes)
    BY DEF Extends
  <2>2. Fit \subseteq Lines(edPastes, EdNoMarkerKilled', edTorn)
    BY <1>4, <2>1, LinesLooser DEF Fit
  <2>3. Stands(s, Lines(edPastes, EdNoMarkerKilled', edTorn))
    BY <1>5, <2>2, StandsLooser
  <2> QED BY <1>1, <2>3 DEF Fit
<1>8. edState' = EdInsertInto(s, Last(edRing'))
  BY <1>1, <1>6
<1>14. EdRingFits'
  <2>1. RingWhole(edRing, EdNoMarkerKilled', edTorn)
    BY <1>4, RingLooser DEF EdInv, EdRingFits
  <2>2. RingWhole(edRing', EdNoMarkerKilled', edTorn)
    BY <1>3, <2>1 DEF RingWhole
  <2> QED BY <1>1, <2>2 DEF EdRingFits
<1>9. Stands(edState', Fit')
  <2>1. Last(edRing') \in Text /\ EdSplit(Last(edRing')) \in Seq(Lines(edPastes', EdNoMarkerKilled', edTorn'))
    BY <1>3, <1>14, RingSplits DEF EdRingFits
  <2>2. Stands(s, Lines(edPastes', EdNoMarkerKilled', edTorn'))
    BY <1>7 DEF Fit
  <2>3. Stands(edState', Lines(edPastes', EdNoMarkerKilled', edTorn'))
    BY <1>8, <2>1, <2>2, InsertFits
  <2> QED BY <2>3 DEF Fit
<1>10. EdTypes'
  BY <1>1, <1>3, NotBrowsing DEF EdInv, EdTypes
<1>11. EdPlace'
  BY <1>1, <1>9 DEF EdInv, EdPlace
<1>12. EdPast'
  <2>1. EdUndoMade
    BY <1>1 DEF EdUndoMade
  <2> QED BY <1>1, <1>2, <1>4, <2>1, PastKept DEF EdInv
<1>13. EdYankKept'
  BY <1>1, <1>3, <1>5, <1>7, <1>8 DEF EdYankKept
<1> QED BY <1>1, <1>10, <1>11, <1>12, <1>13, <1>14 DEF EdInv, EdKillKept, BrowsedIsEntry

-----------------------------------------------------------------------------
(* The editor as a whole. *)
LEMMA InitFits == ASSUME EdInit PROVE EdInv
<1>1. /\ edState = EdEmpty /\ edPastes = <<>> /\ edCounter = 0 /\ edHistory \in Seq(Written) /\ edBrowsing = -1
      /\ edRing \in Seq({text \in Text : EdIntact(text)}) /\ edLast = "none" /\ edUndo = <<>> /\ edJump = "none" /\ edMade = 0 /\ edTorn = FALSE
      /\ EdMaxPastes \in Nat
  BY EdAssumption DEF EdInit, Text, Written
<1>2. Stands(edState, Fit)
  BY <1>1, EmptyIsLoaded, LoadedFits DEF Fit
<1>3. EdPlace
  <2>1. 0 \in 0 .. 0 /\ DOMAIN edPastes \subseteq 1 .. 0
    BY <1>1
  <2> QED BY <1>1, <1>2, <2>1 DEF EdPlace
<1>4. EdPast
  <2>1. edUndo \in Seq({})
    BY <1>1
  <2> QED BY <2>1 DEF EdPast
<1>6. edRing \in Seq(Text)
  BY <1>1, SeqMonotonic
<1>7. EdRingFits
  <2> DEFINE clean == EdNoMarkerKilled
  <2> SUFFICES ASSUME NEW i \in 1 .. Len(edRing) PROVE EdSplit(edRing[i]) \in Seq(Lines(<<>>, clean, edTorn))
    BY DEF EdRingFits, RingWhole
  <2> DEFINE t == edRing[i]
  <2>1. t \in Text /\ EdIntact(t)
    BY <1>1, ElementOfSeq
  <2>2. CASE clean
    <3>1. EdMarkerCells(t) = {}
      BY <2>2 DEF EdNoMarkerKilled
    <3> HIDE DEF t, clean
    <3>2. EdSplit(t) \in Seq(LiveLine(<<>>)) /\ \A j \in 1 .. Len(EdSplit(t)) : EdPaired(EdSplit(t)[j])
      BY <2>1, <3>1, UnpastedLive DEF EdIntact
    <3>3. EdSplit(t) \in Seq(Lines(<<>>, clean, edTorn))
      BY <3>2, WholeLinesFit
    <3> QED BY <3>3 DEF t
  <2>3. CASE ~clean
    <3> HIDE DEF t, clean
    <3>1. Lines(<<>>, clean, edTorn) = InkLine
      BY <2>3 DEF Lines
    <3>2. EdSplit(t) \in Seq(Lines(<<>>, clean, edTorn))
      BY <2>1, <3>1, InkJoins
    <3> QED BY <3>2 DEF t
  <2> QED BY <2>2, <2>3
<1>5. EdTypes
  <2>1. Len(edHistory) \in Nat
    BY <1>1, LenProperties
  <2>2. 0 \in 0 .. EdMaxPastes /\ -1 \in -1 .. Len(edHistory) - 1
    BY <1>1, <2>1
  <2> QED BY <1>1, <1>6, <2>2 DEF EdTypes
<1> QED BY <1>1, <1>3, <1>4, <1>5, <1>7 DEF EdInv, EdKillKept, EdYankKept, BrowsedIsEntry

LEMMA StepFits == ASSUME EdInv, [EdNext]_edVars PROVE EdInv'
<1>1. CASE UNCHANGED edVars
  BY <1>1, StutterKept
<1>2. CASE EdHandleInput
  <2>1. CASE \E cell \in EdChars : EdType(cell)
    BY <2>1, TypeKept
  <2>2. CASE \E ch \in {"a", "]"} : EdJumpTo(ch)
    BY <2>2, JumpToKept
  <2>3. CASE \E direction \in {"forward", "backward"} : EdJumpKey(direction)
    BY <2>3, JumpKeyKept
  <2>4. CASE \E text \in EdTexts : EdPaste(text)
    BY <2>4, PasteKept
  <2>5. CASE EdPasteLarge \/ EdUndoKey \/ EdComplete \/ EdNewLine \/ EdEnter
    BY <2>5, PasteLargeKept, UndoKept, CompleteKept, NewLineKept, EnterKept
  <2>6. CASE EdBackspace \/ EdForwardDelete
    BY <2>6, BackspaceKept, ForwardDeleteKept
  <2>7. CASE EdDeleteToStart \/ EdDeleteToEnd \/ EdDeleteWordBack \/ EdDeleteWordOn
    BY <2>7, DeleteToStartKept, DeleteToEndKept, DeleteWordBackKept, DeleteWordOnKept
  <2>8. CASE EdYank \/ EdYankPop
    BY <2>8, YankKept, YankPopKept
  <2>9. CASE EdLeft \/ EdRight \/ EdWordLeft \/ EdWordRight
    BY <2>9, LeftKept, RightKept, WordLeftKept, WordRightKept
  <2>10. CASE EdLineStart \/ EdToLineEnd \/ EdUp \/ EdDown
    BY <2>10, LineStartKept, ToLineEndKept, UpKept, DownKept
  <2> QED BY <1>2, <2>1, <2>2, <2>3, <2>4, <2>5, <2>6, <2>7, <2>8, <2>9, <2>10 DEF EdHandleInput
<1>3. CASE \E text \in EdTexts : EdSetText(text) \/ EdInsertText(text) \/ EdAddToHistory(text)
  <2>1. \A text \in EdTexts : text \in Written
    BY EdAssumption DEF Written
  <2> QED BY <1>3, <2>1, SetTextKept, InsertTextKept, AddToHistoryKept
<1>4. CASE EdSetText(<<>>)
  BY <1>4, EmptyIsLoaded, SetTextKept
<1>5. CASE EdClearHistory
  BY <1>5, ClearHistoryKept
<1> QED BY <1>1, <1>2, <1>3, <1>4, <1>5 DEF EdNext

LEMMA FitIsSafe == ASSUME EdInv PROVE EditorSafe
<1>1. EdTypeOK
  <2>1. EdCursorOk(edState)
    BY FitSizes, StandsIs
  <2>2. ASSUME NEW i \in 1 .. Len(edUndo) PROVE EdCursorOk(edUndo[i].state)
    <3>1. PICK S : edUndo \in Seq(S) /\ \A u \in S : Snap(u, edMade, EdNoMarkerKilled, edTorn)
      BY DEF EdInv, EdPast
    <3>2. edUndo[i] \in S
      BY <3>1, ElementOfSeq
    <3> DEFINE u == edUndo[i]
               L == Lines(u.pastes, EdNoMarkerKilled, edTorn)
    <3>3. Stands(u.state, L)
      BY <3>1, <3>2 DEF Snap
    <3>4. Closed(L)
      BY LinesClosed
    <3> HIDE DEF u, L
    <3>5. EdCursorOk(u.state)
      BY <3>3, <3>4, StandsIs
    <3> QED BY <3>5 DEF u
  <2>3. edState.lines \in Seq(Seq(EdCells \ {EdNL}))
    <3>1. Seq(Fit) \subseteq Seq(InkLine)
      BY FitSizes, SeqMonotonic
    <3> QED BY <3>1, FitSizes DEF InkLine, EdInk
  <2>4. /\ edRing \in Seq(Seq(EdCells)) /\ edBrowsing \in -1 .. Len(edHistory) - 1
        /\ edLast \in {"none", "kill", "yank", "type-word"} /\ edJump \in {"none", "forward", "backward"}
    BY DEF EdInv, EdTypes, Text
  <2>5. DOMAIN edPastes \subseteq 1 .. EdMaxPastes /\ edCounter \in 0 .. EdMaxPastes
    <3>1. edMade \in 0 .. EdMaxPastes /\ edCounter \in 0 .. edMade /\ DOMAIN edPastes \subseteq 1 .. edCounter /\ EdMaxPastes \in Nat
      BY EdAssumption DEF EdInv, EdTypes, EdPlace
    <3>2. 1 .. edCounter \subseteq 1 .. EdMaxPastes /\ edCounter \in 0 .. EdMaxPastes
      BY <3>1
    <3> QED BY <3>1, <3>2
  <2> QED BY <2>1, <2>2, <2>3, <2>4, <2>5 DEF EdTypeOK
<1>2. KillRunRecoverable
  BY DEF EdInv, EdKillKept, KillRunRecoverable, Cat
<1>3. YankReplaced
  <2> SUFFICES ASSUME edLast = "yank" PROVE EdJoin(edState.lines) = edAround[1] \o Last(edRing) \o edAround[2]
    BY DEF YankReplaced
  <2>1. PICK s : /\ Stands(s, Fit) /\ edState = EdInsertInto(s, Last(edRing)) /\ edRing # <<>>
                 /\ edAround = <<EdTextBefore(s), EdTextAfter(s)>>
    BY DEF EdInv, EdYankKept
  <2>2. Last(edRing) \in Text /\ EdSplit(Last(edRing)) \in Seq(Fit)
    BY <2>1, RingSplits DEF EdInv, EdTypes, EdRingFits, Fit
  <2>3. EdJoin(edState.lines) = Cat(Cat(EdTextBefore(s), Last(edRing)), EdTextAfter(s))
    BY <2>1, <2>2, YankTakenOut
  <2>4. edAround[1] = EdTextBefore(s) /\ edAround[2] = EdTextAfter(s)
    BY <2>1
  <2> QED BY <2>3, <2>4 DEF Cat
<1>4. MarkerMeansPaste
  <2> SUFFICES ASSUME EdNoMarkerKilled, NEW cell \in EdMarkerCells(EdJoin(edState.lines))
               PROVE  cell.id \in DOMAIN edPastes /\ edPastes[cell.id] = cell.of
    BY DEF MarkerMeansPaste
  <2> DEFINE K == LiveCells(edPastes) \cup {EdNL}
             text == EdJoin(edState.lines)
  <2>1. Fit \subseteq LiveLine(edPastes)
    BY LineKinds DEF Fit, Lines
  <2>2. Fit \subseteq Seq(K)
    <3>1. LiveCells(edPastes) \subseteq K
      OBVIOUS
    <3>2. Seq(LiveCells(edPastes)) \subseteq Seq(K)
      BY <3>1, SeqMonotonic
    <3> QED BY <2>1, <3>2 DEF LiveLine
  <2>3. EdNL \in K
    OBVIOUS
  <2> HIDE DEF K
  <2>4. edState.lines \in Seq(Seq(K)) /\ edState.lines # <<>>
    <3>1. Seq(Fit) \subseteq Seq(Seq(K))
      BY <2>2, SeqMonotonic
    <3> QED BY <3>1, FitSizes
  <2>5. text \in Seq(K)
    BY <2>3, <2>4, JoinType
  <2>6. cell \in Range(text) /\ IsMark(cell) /\ cell.id # 0
    BY DEF EdMarkerCells, IsMark
  <2> HIDE DEF text
  <2>7. cell \in K
    <3>1. PICK i \in DOMAIN text : cell = text[i]
      BY <2>6 DEF Range
    <3>2. i \in 1 .. Len(text)
      BY <2>5, LenProperties
    <3> QED BY <2>5, <3>1, <3>2, ElementOfSeq
  <2>8. cell # EdNL
    BY <2>6 DEF IsMark, EdNL, EdCell
  <2>9. cell \in LiveCells(edPastes)
    BY <2>7, <2>8 DEF K
  <2> QED BY <2>6, <2>9 DEF LiveCells
<1>5. MarkersWhole
  <2> SUFFICES ASSUME ~edTorn, EdNoMarkerKilled
               PROVE  ~EdAtomicAt(EdLine, edState.col) /\ \A i \in 1 .. Len(edState.lines) : EdPaired(edState.lines[i])
    BY DEF MarkersWhole
  <2>1. Fit = WholeLine(edPastes)
    BY DEF Fit, Lines
  <2>2. \A l \in Fit : EdPaired(l)
    BY <2>1 DEF WholeLine
  <2>3. ASSUME EdAtomicAt(EdLine, edState.col) PROVE FALSE
    <3> DEFINE c == edState.col
               b == EdBefore
    <3>1. c > 0 /\ EdLine[c].ch = "["
      BY <2>3 DEF EdAtomicAt
    <3>2. Len(b) = c /\ c \in Nat /\ EdPaired(b) /\ c \in 0 .. Len(EdLine) /\ EdLine \in Seq(EdInk) /\ Len(EdLine) \in Nat
      BY <2>2, FitSizes DEF InkLine
    <3>3. c \in 1 .. Len(b) /\ b[c] = EdLine[c]
      <4> DEFINE w == EdLine
      <4>1. b = SubSeq(w, 1, c)
        BY DEF EdBefore
      <4> HIDE DEF w, b, c
      <4>2. c \in 1 .. Len(b)
        BY <3>1, <3>2
      <4>3. \A i \in 1 .. c : SubSeq(w, 1, c)[i] = w[i]
        <5>1. w \in Seq(EdInk) /\ 1 \in 1 .. Len(w) + 1 /\ c \in 0 .. Len(w)
          BY <3>2 DEF w
        <5> QED BY <5>1
      <4> QED BY <3>2, <4>1, <4>2, <4>3 DEF w
    <3> HIDE DEF b, c
    <3>4. c < Len(b)
      BY <3>1, <3>2, <3>3 DEF EdPaired
    <3> QED BY <3>2, <3>4
  <2>4. \A i \in 1 .. Len(edState.lines) : EdPaired(edState.lines[i])
    BY <2>2, FitSizes
  <2> QED BY <2>3, <2>4
<1>6. BrowsedIsEntry
  BY DEF EdInv
<1> QED BY <1>1, <1>2, <1>3, <1>4, <1>5, <1>6 DEF EditorSafe

-----------------------------------------------------------------------------
(* What is replaced can be recalled. *)
Recalled ==
    \/ edState'.lines = edState.lines
    \/ edUndo' # <<>> /\ Last(edUndo') = EdSnapshot
    \/ edUndo' # <<>> /\ Len(edUndo') = Len(edUndo) + 2 /\ Front(edUndo') = EdPush
    \/ edUndo # <<>> /\ edUndo' = Front(edUndo)
    \/ edState' = EdEmpty /\ edUndo' = <<>>
    \/ EdTyping
    \/ edBrowsing > -1 /\ edState' = EdBrowsed(edBrowsing')

LEMMA PushIs ==
    ASSUME EdInv
    PROVE  /\ EdPush # <<>> /\ Last(EdPush) = EdSnapshot
           /\ \A u : LET two == Append(EdPush, u) IN two # <<>> /\ Len(two) = Len(edUndo) + 2 /\ Front(two) = EdPush
<1>1. PICK S : edUndo \in Seq(S)
  BY DEF EdInv, EdPast
<1> DEFINE S1 == S \cup {EdSnapshot}
<1>2. edUndo \in Seq(S1) /\ EdSnapshot \in S1
  <2>1. Seq(S) \subseteq Seq(S1)
    BY SeqMonotonic
  <2> QED BY <1>1, <2>1
<1> HIDE DEF S1
<1>3. EdPush \in Seq(S1) /\ Len(EdPush) = Len(edUndo) + 1 /\ EdPush # <<>> /\ Len(edUndo) \in Nat
  BY <1>2, AppendProperties, LenProperties DEF EdPush
<1>4. Last(EdPush) = EdSnapshot
  BY <1>2, FrontOfMore DEF EdPush
<1>5. ASSUME NEW u PROVE LET two == Append(EdPush, u) IN two # <<>> /\ Len(two) = Len(edUndo) + 2 /\ Front(two) = EdPush
  <2> DEFINE S2 == S1 \cup {u}
  <2>1. EdPush \in Seq(S2) /\ u \in S2
    <3>1. Seq(S1) \subseteq Seq(S2)
      BY SeqMonotonic
    <3> QED BY <1>3, <3>1
  <2> HIDE DEF S2
  <2>2. Append(EdPush, u) # <<>> /\ Len(Append(EdPush, u)) = Len(EdPush) + 1
    BY <2>1, AppendProperties
  <2>3. Front(Append(EdPush, u)) = EdPush
    BY <2>1, FrontOfMore
  <2> QED BY <1>3, <2>2, <2>3
<1> QED BY <1>3, <1>4, <1>5

LEMMA PushRecalls == ASSUME EdInv, edUndo' = EdPush PROVE Recalled
BY PushIs DEF Recalled

LEMMA MoveRecalls == ASSUME EdInv, NEW line, NEW col, edState' = EdMoved(line, col) PROVE Recalled
<1>1. EdMoved(line, col) = [lines |-> edState.lines, line |-> line, col |-> col]
  BY FitSizes, MovedIs
<1> QED BY <1>1 DEF Recalled

LEMMA MoveToRecalls == ASSUME EdInv, NEW line, NEW col, EdMoveTo(line, col) PROVE Recalled
BY MoveRecalls DEF EdMoveTo, EdMoved

LEMMA KillRecalls == ASSUME EdInv, NEW s, NEW text, NEW prepend, EdKill(s, text, prepend) PROVE Recalled
BY PushRecalls DEF EdKill, Recalled

LEMMA KillBackRecalls == ASSUME EdInv, NEW from, EdKillBack(from) PROVE Recalled
BY KillRecalls DEF EdKillBack

LEMMA KillOnRecalls == ASSUME EdInv, NEW to, EdKillOn(to) PROVE Recalled
BY KillRecalls DEF EdKillOn

LEMMA NavigateRecalls == ASSUME EdInv, NEW index, EdNavigate(index) PROVE Recalled
<1>1. edBrowsing \in Int /\ edBrowsing >= -1
  BY DEF EdInv, EdTypes
<1>2. CASE UNCHANGED edState
  BY <1>2 DEF Recalled
<1>3. CASE edState' = EdBrowsed(index) /\ edBrowsing' = index /\ edUndo' = IF edBrowsing = -1 THEN EdPush ELSE edUndo
  <2>1. CASE edBrowsing = -1
    BY <1>3, <2>1, PushRecalls
  <2>2. CASE edBrowsing # -1
    BY <1>1, <1>3, <2>2 DEF Recalled
  <2> QED BY <2>1, <2>2
<1> QED BY <1>2, <1>3 DEF EdNavigate

LEMMA VerticalRecalls == ASSUME EdInv, NEW i, EdVertical(i) PROVE Recalled
BY MoveToRecalls DEF EdVertical

LEMMA SetTextRecalls == ASSUME EdInv, NEW text, EdSetText(text) PROVE Recalled
<1>1. CASE EdJoin(edState.lines) # text
  BY <1>1, PushRecalls DEF EdSetText
<1>2. CASE EdJoin(edState.lines) = text
  <2>1. edState' = EdLoaded(EdJoin(edState.lines))
    BY <1>2 DEF EdSetText, EdEdit
  <2>2. edState'.lines = EdSplit(EdJoin(edState.lines))
    BY <2>1 DEF EdLoaded
  <2>3. edState.lines \in Seq(InkLine) /\ edState.lines # <<>>
    <3>1. Seq(Fit) \subseteq Seq(InkLine)
      BY FitSizes, SeqMonotonic
    <3> QED BY <3>1, FitSizes
  <2> QED BY <2>2, <2>3, InkJoins DEF Recalled
<1> QED BY <1>1, <1>2

LEMMA EnterRecalls == ASSUME EdInv, EdEnter PROVE Recalled
<1>1. CASE EdSubmit
  BY <1>1 DEF EdSubmit, Recalled
<1>2. CASE edUndo' = Append(EdPush, [EdSnapshot EXCEPT !.state = EdBackspaced])
  BY <1>2, PushIs DEF Recalled
<1> QED BY <1>1, <1>2 DEF EdEnter

LEMMA JumpToRecalls == ASSUME EdInv, NEW ch, EdJumpTo(ch) PROVE Recalled
<1>1. CASE UNCHANGED edState
  BY <1>1 DEF Recalled
<1>2. CASE \E p \in EdHits(ch) : edState' = EdMoved(p[1], p[2])
  BY <1>2, MoveRecalls
<1> QED BY <1>1, <1>2 DEF EdJumpTo, EdMoved

LEMMA StepRecalls == ASSUME EdInv, EdNext PROVE Recalled
<1>1. CASE EdHandleInput
  <2>1. CASE \E cell \in EdChars : EdType(cell)
    <3>1. PICK cell \in EdChars : EdType(cell)
      BY <2>1
    <3>2. edUndo' = EdPush \/ (edLast = "type-word" /\ edLast' = "type-word")
      BY <3>1 DEF EdType, EdEdit
    <3> QED BY <3>2, PushRecalls DEF Recalled, EdTyping
  <2>2. CASE \E ch \in {"a", "]"} : EdJumpTo(ch)
    BY <2>2, JumpToRecalls
  <2>3. CASE \E direction \in {"forward", "backward"} : EdJumpKey(direction)
    BY <2>3 DEF EdJumpKey, Recalled
  <2>4. CASE \E text \in EdTexts : EdPaste(text)
    BY <2>4, PushRecalls DEF EdPaste
  <2>5. CASE EdPasteLarge \/ EdComplete \/ EdNewLine \/ EdYank \/ EdYankPop
    BY <2>5, PushRecalls DEF EdPasteLarge, EdComplete, EdNewLine, EdYank, EdYankPop
  <2>6. CASE EdUndoKey
    BY <2>6 DEF EdUndoKey, Recalled
  <2>7. CASE EdEnter
    BY <2>7, EnterRecalls
  <2>8. CASE EdBackspace \/ EdForwardDelete
    <3>1. PICK s : edState' = s /\ edUndo' = EdUndoFor(s)
      BY <2>8 DEF EdBackspace, EdForwardDelete, EdEdit
    <3> QED BY <3>1, PushRecalls DEF EdUndoFor, Recalled
  <2>9. CASE EdDeleteToStart \/ EdDeleteToEnd \/ EdDeleteWordBack \/ EdDeleteWordOn
    BY <2>9, KillBackRecalls, KillOnRecalls DEF EdDeleteToStart, EdDeleteToEnd, EdDeleteWordBack, EdDeleteWordOn
  <2>10. CASE EdLeft \/ EdRight \/ EdWordLeft \/ EdWordRight \/ EdLineStart \/ EdToLineEnd
    BY <2>10, MoveToRecalls DEF EdLeft, EdRight, EdWordLeft, EdWordRight, EdLineStart, EdToLineEnd, EdBack, EdOn
  <2>11. CASE EdUp \/ EdDown
    BY <2>11, VerticalRecalls, NavigateRecalls, MoveToRecalls DEF EdUp, EdDown, EdLineStart, EdToLineEnd
  <2> QED BY <1>1, <2>1, <2>2, <2>3, <2>4, <2>5, <2>6, <2>7, <2>8, <2>9, <2>10, <2>11 DEF EdHandleInput
<1>2. CASE \E text \in EdTexts : EdSetText(text) \/ EdInsertText(text) \/ EdAddToHistory(text)
  BY <1>2, SetTextRecalls, PushRecalls DEF EdInsertText, EdAddToHistory, Recalled
<1>3. CASE EdSetText(<<>>)
  BY <1>3, SetTextRecalls
<1>4. CASE EdClearHistory
  BY <1>4 DEF EdClearHistory, Recalled
<1> QED BY <1>1, <1>2, <1>3, <1>4 DEF EdNext

(* EditorKeeps, for every text, kill ring and history the editor can be given
   and every bound: the cursor stays inside the text, a run of kills and a yank
   give back exactly the text they took, markers stay whole and paste markers keep
   their pastes, browsing shows whole entries, and whatever a key replaces can
   be had back. *)
THEOREM EditorIsSafe == EdSpec => EditorKeeps
<1>1. EdInit => EdInv
  BY InitFits
<1>2. EdInv /\ [EdNext]_edVars => EdInv'
  BY StepFits
<1>3. EdInv => EditorSafe
  BY FitIsSafe
<1>4. EdInv /\ [EdNext]_edVars =>
        [edState'.lines # edState.lines =>
         \/ edUndo' # <<>> /\ Last(edUndo') = EdSnapshot
         \/ edUndo' # <<>> /\ Len(edUndo') = Len(edUndo) + 2 /\ Front(edUndo') = EdPush
         \/ edUndo # <<>> /\ edUndo' = Front(edUndo)
         \/ edState' = EdEmpty /\ edUndo' = <<>>
         \/ EdTyping
         \/ edBrowsing > -1 /\ edState' = EdBrowsed(edBrowsing')]_edVars
  BY StepRecalls DEF Recalled
<1> QED BY <1>1, <1>2, <1>3, <1>4, PTL DEF EdSpec, EditorKeeps, EdRecallable

=============================================================================

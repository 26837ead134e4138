------------------------ MODULE KnowledgeRetrieval_proofs ------------------------
(* The evidence of a query shows no clause twice, and the pool its reranker   *)
(* sees is as full and as diverse as the quota promises, whatever the legs    *)
(* rank and whatever the size of the corpus.                                  *)
(*                                                                            *)
(* The two loops of diversity.py, the round-robin over the seeds and the sums *)
(* are recursive functions over the length of a list.  Iteration says such a  *)
(* function exists, UpTo is the induction over the length; both rest on the   *)
(* least counterexample, which the library's theorems about well-founded      *)
(* relations provide.                                                         *)
EXTENDS KnowledgeRetrieval, FiniteSetTheorems, WellFoundedInduction, TLAPS

\* A nonempty set of numbers has a smallest member.
LEMMA LeastNumber ==
  ASSUME NEW T, T \subseteq Nat, T # {}
  PROVE  \E m \in T : \A k \in T : m <= k
<1> DEFINE R == {ss \in Nat \X Nat : ss[1] < ss[2]}
<1>1. IsWellFoundedOn(R, Nat)
  BY NatLessThanWellFounded DEF OpToRel
<1>2. \E x \in T : \A y \in T : ~ (<<y, x>> \in R)
  <2> HIDE DEF R
  <2> QED BY <1>1, WFMin
<1>3. PICK x \in T : \A y \in T : ~ (<<y, x>> \in R)
  BY <1>2
<1>4. ASSUME NEW y \in T PROVE x <= y
  <2>1. x \in Nat /\ y \in Nat
    OBVIOUS
  <2>2. <<y, x>> \in Nat \X Nat /\ <<y, x>>[1] = y /\ <<y, x>>[2] = x
    BY <2>1
  <2>3. ~(<<y, x>>[1] < <<y, x>>[2])
    <3>1. <<y, x>> \notin R
      BY <1>3
    <3> QED BY <2>2, <3>1, Zenon
  <2> QED BY <2>1, <2>2, <2>3
<1> QED BY <1>4

\* Induction over the length of a list.
LEMMA UpTo ==
  ASSUME NEW k \in Nat, NEW P,
         0 \in P, \A n \in 1..k : n - 1 \in P => n \in P
  PROVE  0..k \subseteq P
<1> DEFINE Left == (0..k) \ P
<1>1. ASSUME Left # {} PROVE FALSE
  <2>1. Left \subseteq Nat
    OBVIOUS
  <2>2. PICK m \in Left : \A j \in Left : m <= j
    <3> HIDE DEF Left
    <3> QED BY <1>1, <2>1, LeastNumber
  <2>3. m \in 1..k /\ m - 1 \in 0..k /\ ~(m <= m - 1)
    BY <2>2
  <2>4. m - 1 \in P
    BY <2>2, <2>3
  <2> QED BY <2>2, <2>3, <2>4
<1> QED BY <1>1

\* The functions that take a value of S to the next, one for each of k places.
Steps(k, S) == [1..k -> [S -> S]]

\* What is reached after each number of steps.
Iterates(f, k, S, base, step) ==
    /\ f \in [0..k -> S]
    /\ f[0] = base
    /\ \A n \in 1..k : f[n] = step[n][f[n - 1]]

\* A function may be defined by recursion over the length of a list.
LEMMA Iteration ==
  ASSUME NEW k \in Nat, NEW S, NEW base \in S, NEW step \in Steps(k, S)
  PROVE  \E f : Iterates(f, k, S, base, step)
<1> DEFINE Solves(f, j) == f[0] = base /\ \A n \in 1..j : f[n] = step[n][f[n - 1]]
           Good == {j \in 0..k : \E f \in [0..j -> S] : Solves(f, j)}
<1>1. 0 \in Good
  <2>1. Solves([n \in 0..0 |-> base], 0) /\ [n \in 0..0 |-> base] \in [0..0 -> S]
    OBVIOUS
  <2> HIDE DEF Solves
  <2> QED BY <2>1
<1>2. ASSUME NEW j \in 1..k, j - 1 \in Good PROVE j \in Good
  <2>1. PICK f \in [0..(j - 1) -> S] : Solves(f, j - 1)
    BY <1>2
  <2>0. step \in [1..k -> [S -> S]]
    BY DEF Steps
  <2> DEFINE g == [n \in 0..j |-> IF n = j THEN step[j][f[j - 1]] ELSE f[n]]
  <2>2. g \in [0..j -> S]
    <3>1. step[j] \in [S -> S] /\ f[j - 1] \in S
      BY <2>0, <2>1
    <3>2. ASSUME NEW n \in 0..j, n # j PROVE f[n] \in S
      BY <2>1, <3>2
    <3> QED BY <3>1, <3>2
  <2>3. Solves(g, j)
    <3>1. g[0] = base
      BY <2>1
    <3>2. ASSUME NEW n \in 1..j PROVE g[n] = step[n][g[n - 1]]
      <4>1. CASE n = j
        BY <4>1
      <4>2. CASE n # j
        <5>1. n \in 1..(j - 1) /\ g[n] = f[n] /\ g[n - 1] = f[n - 1]
          BY <4>2
        <5>2. f[n] = step[n][f[n - 1]]
          BY <2>1, <5>1
        <5> QED BY <5>1, <5>2
      <4> QED BY <4>1, <4>2
    <3> QED BY <3>1, <3>2
  <2> HIDE DEF Solves, g
  <2> QED BY <2>2, <2>3
<1>3. 0..k \subseteq Good
  <2> HIDE DEF Good
  <2> QED BY <1>1, <1>2, UpTo
<1>4. k \in Good
  BY <1>3
<1> QED BY <1>4 DEF Iterates

-----------------------------------------------------------------------------
\* One chunk per clause (collapse_by_parent).

\* No clause has two chunks in a list.
OneEach(t) == \A i, j \in DOMAIN t : ClauseOf[t[i]] = ClauseOf[t[j]] => i = j

\* Keeping a chunk leaves a list of chunks.
LEMMA KeepTyped ==
  ASSUME NEW t \in Seq(Chunks), NEW c \in Chunks
  PROVE  Keep(t, c) \in Seq(Chunks)
BY DEF Keep

LEMMA Collapsing ==
  ASSUME NEW s \in Seq(Chunks)
  PROVE  /\ collapsing(s) \in [0..Len(s) -> Seq(Chunks)]
         /\ collapsing(s)[0] = <<>>
         /\ \A n \in 1..Len(s) : collapsing(s)[n] = Keep(collapsing(s)[n - 1], s[n])
<1> DEFINE Solves(f) == f = [n \in 0..Len(s) |-> IF n = 0 THEN <<>> ELSE Keep(f[n - 1], s[n])]
           step == [n \in 1..Len(s) |-> [t \in Seq(Chunks) |-> Keep(t, s[n])]]
<1>1. Len(s) \in Nat /\ \A n \in 1..Len(s) : s[n] \in Chunks
  OBVIOUS
<1>2. step \in [1..Len(s) -> [Seq(Chunks) -> Seq(Chunks)]]
  BY <1>1, KeepTyped
<1>3. <<>> \in Seq(Chunks)
  OBVIOUS
<1>4. PICK f \in [0..Len(s) -> Seq(Chunks)] :
        f[0] = <<>> /\ \A n \in 1..Len(s) : f[n] = step[n][f[n - 1]]
  <2> DEFINE k == Len(s)
             S == Seq(Chunks)
             base == <<>>
  <2>1. k \in Nat /\ base \in S /\ step \in Steps(k, S)
    BY <1>1, <1>2, <1>3 DEF Steps
  <2> HIDE DEF step, k, S, base
  <2>2. PICK f : Iterates(f, k, S, base, step)
    BY <2>1, Iteration
  <2> QED BY <2>2 DEF k, S, base, Iterates
<1>5. Solves(f)
  <2>1. ASSUME NEW n \in 1..Len(s) PROVE f[n] = Keep(f[n - 1], s[n])
    <3>1. f[n - 1] \in Seq(Chunks)
      BY <1>1, <1>4
    <3>2. step[n][f[n - 1]] = Keep(f[n - 1], s[n])
      BY <3>1
    <3>3. f[n] = step[n][f[n - 1]]
      <4> HIDE DEF step
      <4> QED BY <1>4
    <3> QED BY <3>2, <3>3
  <2>2. ASSUME NEW n \in 0..Len(s) PROVE f[n] = IF n = 0 THEN <<>> ELSE Keep(f[n - 1], s[n])
    BY <1>1, <1>4, <2>1
  <2>3. f = [n \in 0..Len(s) |-> f[n]]
    BY <1>4
  <2> QED BY <2>2, <2>3
<1>6. collapsing(s) = CHOOSE g : Solves(g)
  BY DEF collapsing
<1>7. Solves(collapsing(s))
  <2> HIDE DEF Solves
  <2> QED BY <1>5, <1>6
<1> DEFINE Typed == {n \in 0..Len(s) : collapsing(s)[n] \in Seq(Chunks)}
<1>8. 0 \in Typed
  BY <1>1, <1>3, <1>7
<1>9. ASSUME NEW n \in 1..Len(s), n - 1 \in Typed PROVE n \in Typed
  <2>1. collapsing(s)[n] = Keep(collapsing(s)[n - 1], s[n])
    BY <1>1, <1>7
  <2>2. collapsing(s)[n - 1] \in Seq(Chunks) /\ s[n] \in Chunks /\ n \in 0..Len(s)
    BY <1>1, <1>9
  <2>3. Keep(collapsing(s)[n - 1], s[n]) \in Seq(Chunks)
    BY <2>2, KeepTyped
  <2> QED BY <2>1, <2>2, <2>3
<1>10. 0..Len(s) \subseteq Typed
  <2> HIDE DEF Typed
  <2> QED BY <1>1, <1>8, <1>9, UpTo
<1>11. collapsing(s) \in [0..Len(s) -> Seq(Chunks)]
  <2>1. \E e : collapsing(s) = [n \in 0..Len(s) |-> e[n]]
    BY <1>7
  <2> QED BY <1>7, <1>10
<1>12. collapsing(s)[0] = <<>>
  BY <1>1, <1>7
<1>13. ASSUME NEW n \in 1..Len(s) PROVE collapsing(s)[n] = Keep(collapsing(s)[n - 1], s[n])
  BY <1>1, <1>7
<1> QED BY <1>11, <1>12, <1>13

\* The collapsed hits are hits, one of each clause, the best one first.
LEMMA Collapsed ==
  ASSUME NEW s \in Seq(Chunks)
  PROVE  /\ collapse_by_parent(s) \in Seq(Chunks)
         /\ OneEach(collapse_by_parent(s))
         /\ s # <<>> => collapse_by_parent(s) # <<>> /\ collapse_by_parent(s)[1] = s[1]
<1> DEFINE kept(n) == collapsing(s)[n]
           Thin(n) == /\ OneEach(kept(n))
                      /\ n > 0 => Len(kept(n)) > 0 /\ kept(n)[1] = s[1]
           Good == {n \in 0..Len(s) : Thin(n)}
<1>1. /\ Len(s) \in Nat /\ \A n \in 1..Len(s) : s[n] \in Chunks
      /\ \A n \in 0..Len(s) : kept(n) \in Seq(Chunks)
      /\ kept(0) = <<>>
      /\ \A n \in 1..Len(s) : kept(n) = Keep(kept(n - 1), s[n])
  <2>1. Len(s) \in Nat /\ \A n \in 1..Len(s) : s[n] \in Chunks
    OBVIOUS
  <2> HIDE DEF kept
  <2>2. \A n \in 0..Len(s) : kept(n) \in Seq(Chunks)
    BY Collapsing DEF kept
  <2>3. kept(0) = <<>> /\ \A n \in 1..Len(s) : kept(n) = Keep(kept(n - 1), s[n])
    BY Collapsing DEF kept
  <2> QED BY <2>1, <2>2, <2>3
<1>2. 0 \in Good
  BY <1>1 DEF OneEach
<1> HIDE DEF kept
<1>3. ASSUME NEW n \in 1..Len(s), n - 1 \in Good PROVE n \in Good
  <2> DEFINE t == kept(n - 1)
             c == s[n]
  <2>1. t \in Seq(Chunks) /\ OneEach(t) /\ (n - 1 > 0 => Len(t) > 0 /\ t[1] = s[1])
    BY <1>1, <1>3
  <2>2. n - 1 = 0 => t = <<>> /\ c = s[1]
    BY <1>1
  <2>3. kept(n) = Keep(t, c) /\ n > 0 /\ n \in 0..Len(s)
    BY <1>1
  <2>4. c \in Chunks
    BY <1>1
  <2> HIDE DEF t, c
  <2>5. CASE ClauseOf[c] \in ClausesIn(t)
    <3>1. t # <<>>
      BY <2>5 DEF ClausesIn
    <3>2. kept(n) = t
      BY <2>3, <2>5 DEF Keep
    <3> QED BY <2>1, <2>2, <2>3, <3>1, <3>2
  <2>6. CASE ClauseOf[c] \notin ClausesIn(t)
    <3>1. kept(n) = Append(t, c)
      BY <2>3, <2>6 DEF Keep
    <3>2. \A i \in DOMAIN t : ClauseOf[t[i]] # ClauseOf[c]
      BY <2>6 DEF ClausesIn
    <3>3. OneEach(Append(t, c))
      BY <2>1, <2>4, <3>2 DEF OneEach
    <3>4. Len(Append(t, c)) > 0 /\ Append(t, c)[1] = s[1]
      BY <2>1, <2>2, <2>4
    <3> QED BY <2>3, <3>1, <3>3, <3>4
  <2> QED BY <2>5, <2>6
<1>4. 0..Len(s) \subseteq Good
  <2> HIDE DEF Good
  <2> QED BY <1>1, <1>2, <1>3, UpTo
<1>5. Len(s) \in 0..Len(s) /\ (s # <<>> => Len(s) > 0)
  BY <1>1
<1>6. kept(Len(s)) \in Seq(Chunks) /\ Thin(Len(s))
  BY <1>1, <1>4, <1>5
<1>7. collapse_by_parent(s) = kept(Len(s))
  BY DEF collapse_by_parent, kept
<1>8. Len(kept(Len(s))) > 0 => kept(Len(s)) # <<>>
  BY <1>6
<1> QED BY <1>5, <1>6, <1>7, <1>8

-----------------------------------------------------------------------------
\* The quota of a document (cap_per_document).

Accs == [kept : Seq(Chunks), skipped : Seq(Chunks)]
Nothing == [kept |-> <<>>, skipped |-> <<>>]

\* One more hit counts for its own document only.
LEMMA CountAppend ==
  ASSUME NEW t \in Seq(Chunks), NEW x \in Chunks, NEW c
  PROVE  /\ OfDocument(t, c) \in Nat
         /\ OfDocument(Append(t, x), c) =
              IF DocumentOf[x] = DocumentOf[c] THEN OfDocument(t, c) + 1 ELSE OfDocument(t, c)
<1> DEFINE Places(u) == {i \in DOMAIN u : DocumentOf[u[i]] = DocumentOf[c]}
           last == Len(t) + 1
<1>1. IsFiniteSet(1..Len(t))
  <2>1. Len(t) \in Nat
    OBVIOUS
  <2> QED BY <2>1, FS_Interval
<1>2. Places(t) \subseteq 1..Len(t)
  OBVIOUS
<1>3. IsFiniteSet(Places(t))
  BY <1>1, <1>2, FS_Subset
<1>4. Cardinality(Places(t)) \in Nat
  BY <1>3, FS_CardinalityType
<1>5. Places(Append(t, x)) =
        IF DocumentOf[x] = DocumentOf[c] THEN Places(t) \cup {last} ELSE Places(t)
  <2>1. DOMAIN Append(t, x) = (DOMAIN t) \cup {last} /\ last \notin DOMAIN t
    OBVIOUS
  <2>2. Append(t, x)[last] = x /\ \A i \in DOMAIN t : Append(t, x)[i] = t[i]
    OBVIOUS
  <2> HIDE DEF last
  <2> QED BY <2>1, <2>2
<1>6. last \notin Places(t)
  OBVIOUS
<1> HIDE DEF Places, last
<1>7. Cardinality(Places(t) \cup {last}) = Cardinality(Places(t)) + 1
  BY <1>3, <1>6, FS_AddElement
<1>8. OfDocument(t, c) = Cardinality(Places(t))
      /\ OfDocument(Append(t, x), c) = Cardinality(Places(Append(t, x)))
  BY DEF OfDocument, Places
<1> QED BY <1>4, <1>5, <1>7, <1>8

\* Hits added behind do not lessen a count.
LEMMA CountMore ==
  ASSUME NEW t \in Seq(Chunks), NEW u \in Seq(Chunks), NEW c
  PROVE  /\ OfDocument(t, c) \in Nat /\ OfDocument(t \o u, c) \in Nat
         /\ OfDocument(t, c) <= OfDocument(t \o u, c)
<1> DEFINE Places(v) == {i \in DOMAIN v : DocumentOf[v[i]] = DocumentOf[c]}
           n == Len(t \o u)
<1>1. n \in Nat /\ Places(t \o u) \subseteq 1..n
  OBVIOUS
<1>2. Places(t) \subseteq Places(t \o u)
  OBVIOUS
<1> HIDE DEF Places, n
<1>3. IsFiniteSet(1..n)
  BY <1>1, FS_Interval
<1>4. IsFiniteSet(Places(t \o u)) /\ IsFiniteSet(Places(t))
  BY <1>1, <1>2, <1>3, FS_Subset
<1>5. /\ Cardinality(Places(t)) \in Nat /\ Cardinality(Places(t \o u)) \in Nat
      /\ Cardinality(Places(t)) <= Cardinality(Places(t \o u))
  BY <1>2, <1>4, FS_Subset, FS_CardinalityType
<1> QED BY <1>5 DEF OfDocument, Places

\* Hits of one document have one count.
LEMMA CountOfDocument ==
  ASSUME NEW t, NEW c, NEW e, DocumentOf[c] = DocumentOf[e]
  PROVE  OfDocument(t, c) = OfDocument(t, e)
BY DEF OfDocument

LEMMA CountEmpty ==
  ASSUME NEW c
  PROVE  OfDocument(<<>>, c) = 0
<1>1. {i \in DOMAIN <<>> : DocumentOf[<<>>[i]] = DocumentOf[c]} = {}
  OBVIOUS
<1> QED BY <1>1, FS_EmptySet DEF OfDocument

LEMMA WalkTyped ==
  ASSUME NEW acc \in Accs, NEW c \in Chunks, NEW limit
  PROVE  Walk(acc, c, limit) \in Accs
<1>1. acc.kept \in Seq(Chunks) /\ acc.skipped \in Seq(Chunks)
  BY DEF Accs
<1>2. Append(acc.kept, c) \in Seq(Chunks) /\ Append(acc.skipped, c) \in Seq(Chunks)
  BY <1>1
<1>3. /\ [acc EXCEPT !.kept = Append(@, c)] \in Accs
      /\ [acc EXCEPT !.skipped = Append(@, c)] \in Accs
  BY <1>2 DEF Accs
<1> QED BY <1>3 DEF Walk

LEMMA Walking ==
  ASSUME NEW s \in Seq(Chunks), NEW limit
  PROVE  /\ walking(s, limit) \in [0..Len(s) -> Accs]
         /\ walking(s, limit)[0] = Nothing
         /\ \A n \in 1..Len(s) : walking(s, limit)[n] = Walk(walking(s, limit)[n - 1], s[n], limit)
<1> DEFINE Solves(f) ==
             f = [n \in 0..Len(s) |-> IF n = 0 THEN Nothing ELSE Walk(f[n - 1], s[n], limit)]
           step == [n \in 1..Len(s) |-> [acc \in Accs |-> Walk(acc, s[n], limit)]]
<1>1. Len(s) \in Nat /\ \A n \in 1..Len(s) : s[n] \in Chunks
  OBVIOUS
<1>2. step \in [1..Len(s) -> [Accs -> Accs]]
  BY <1>1, WalkTyped
<1>3. Nothing \in Accs
  BY DEF Nothing, Accs
<1>4. PICK f \in [0..Len(s) -> Accs] :
        f[0] = Nothing /\ \A n \in 1..Len(s) : f[n] = step[n][f[n - 1]]
  <2> DEFINE k == Len(s)
  <2>1. k \in Nat /\ Nothing \in Accs /\ step \in Steps(k, Accs)
    BY <1>1, <1>2, <1>3 DEF Steps
  <2> HIDE DEF step, k
  <2>2. PICK f : Iterates(f, k, Accs, Nothing, step)
    BY <2>1, Iteration
  <2> QED BY <2>2 DEF k, Iterates
<1>5. Solves(f)
  <2>1. ASSUME NEW n \in 1..Len(s) PROVE f[n] = Walk(f[n - 1], s[n], limit)
    <3>1. f[n - 1] \in Accs
      BY <1>1, <1>4
    <3>2. step[n][f[n - 1]] = Walk(f[n - 1], s[n], limit)
      BY <3>1
    <3>3. f[n] = step[n][f[n - 1]]
      <4> HIDE DEF step
      <4> QED BY <1>4
    <3> QED BY <3>2, <3>3
  <2>2. ASSUME NEW n \in 0..Len(s)
        PROVE  f[n] = IF n = 0 THEN Nothing ELSE Walk(f[n - 1], s[n], limit)
    BY <1>1, <1>4, <2>1
  <2>3. f = [n \in 0..Len(s) |-> f[n]]
    BY <1>4
  <2> QED BY <2>2, <2>3
<1>6. walking(s, limit) = CHOOSE g : Solves(g)
  BY DEF walking, Nothing
<1> DEFINE w == walking(s, limit)
<1>7. Solves(w)
  <2> HIDE DEF Solves
  <2> QED BY <1>5, <1>6
<1> HIDE DEF w
<1> DEFINE Typed == {n \in 0..Len(s) : w[n] \in Accs}
<1>8. 0 \in Typed
  BY <1>1, <1>3, <1>7
<1>9. ASSUME NEW n \in 1..Len(s), n - 1 \in Typed PROVE n \in Typed
  <2>1. w[n] = Walk(w[n - 1], s[n], limit)
    BY <1>1, <1>7
  <2>2. w[n - 1] \in Accs /\ s[n] \in Chunks /\ n \in 0..Len(s)
    BY <1>1, <1>9
  <2>3. Walk(w[n - 1], s[n], limit) \in Accs
    BY <2>2, WalkTyped
  <2> QED BY <2>1, <2>2, <2>3
<1>10. 0..Len(s) \subseteq Typed
  <2> HIDE DEF Typed
  <2> QED BY <1>1, <1>8, <1>9, UpTo
<1>11. w \in [0..Len(s) -> Accs]
  <2>1. \E e : w = [n \in 0..Len(s) |-> e[n]]
    BY <1>7
  <2> QED BY <1>7, <1>10
<1>12. w[0] = Nothing
  BY <1>1, <1>7
<1>13. ASSUME NEW n \in 1..Len(s) PROVE w[n] = Walk(w[n - 1], s[n], limit)
  BY <1>1, <1>7
<1> QED BY <1>11, <1>12, <1>13 DEF w

-----------------------------------------------------------------------------
\* What the walk has done with the first n hits.

\* Every hit went one way until the pool was full.
Parted(s, limit, acc, n) ==
    /\ Len(acc.kept) <= limit /\ Len(acc.kept) + Len(acc.skipped) <= n
    /\ Len(acc.kept) < limit => Len(acc.kept) + Len(acc.skipped) = n
    /\ \A i \in DOMAIN acc.kept : \E j \in 1..n : acc.kept[i] = s[j]
    /\ \A i \in DOMAIN acc.skipped : \E j \in 1..n : acc.skipped[i] = s[j]
    /\ Len(acc.kept) < limit => \A j \in 1..n : \/ \E i \in DOMAIN acc.kept : acc.kept[i] = s[j]
                                                \/ \E i \in DOMAIN acc.skipped : acc.skipped[i] = s[j]
    /\ n > 0 => Len(acc.kept) > 0 /\ acc.kept[1] = s[1]

\* No clause went both ways or twice the same way.
Apart(acc) ==
    /\ OneEach(acc.kept) /\ OneEach(acc.skipped)
    /\ \A i \in DOMAIN acc.kept, j \in DOMAIN acc.skipped :
          ClauseOf[acc.kept[i]] # ClauseOf[acc.skipped[j]]

\* The pool keeps to the quota; what was skipped met a full document.
Quota(acc) ==
    /\ \A i \in DOMAIN acc.kept : OfDocument(acc.kept, acc.kept[i]) <= MaxPerDocument
    /\ \A i \in DOMAIN acc.skipped : OfDocument(acc.kept, acc.skipped[i]) >= MaxPerDocument

LEMMA WalkKept ==
  ASSUME NEW s \in Seq(Chunks), OneEach(s), NEW limit \in Nat, limit > 0,
         NEW n \in 1..Len(s), NEW acc \in Accs,
         Parted(s, limit, acc, n - 1), Apart(acc), Quota(acc),
         Len(acc.kept) < limit, OfDocument(acc.kept, s[n]) < MaxPerDocument,
         NEW new \in Accs, new.kept = Append(acc.kept, s[n]), new.skipped = acc.skipped
  PROVE  Parted(s, limit, new, n) /\ Apart(new) /\ Quota(new)
<1> DEFINE kept == acc.kept
           skipped == acc.skipped
           c == s[n]
<1>1. kept \in Seq(Chunks) /\ skipped \in Seq(Chunks) /\ Len(s) \in Nat /\ n \in Nat /\ c \in Chunks
  BY DEF Accs
<1>0. Len(kept) \in Nat /\ Len(skipped) \in Nat /\ Len(kept) < limit
  BY <1>1
<1>2. MaxPerDocument \in Nat
  BY RetrievalAssumption
<1>3. /\ DOMAIN Append(kept, c) = (DOMAIN kept) \cup {Len(kept) + 1}
      /\ \A i \in DOMAIN kept : Append(kept, c)[i] = kept[i]
      /\ Append(kept, c)[Len(kept) + 1] = c
      /\ Len(Append(kept, c)) = Len(kept) + 1 /\ Len(kept) + 1 \notin DOMAIN kept
  <2> HIDE DEF kept, c
  <2> QED BY <1>1
<1>4. /\ \A i \in DOMAIN kept : \E j \in 1..(n - 1) : kept[i] = s[j]
      /\ \A i \in DOMAIN skipped : \E j \in 1..(n - 1) : skipped[i] = s[j]
  BY DEF Parted
<1>5. \A j \in 1..(n - 1) : j \in 1..n /\ j # n /\ ClauseOf[s[j]] # ClauseOf[c]
  BY <1>1 DEF OneEach
<1>6. Parted(s, limit, new, n)
  <2>1. /\ Len(kept) + 1 <= limit /\ Len(kept) + 1 + Len(skipped) = n
    <3>1. Len(kept) + Len(skipped) = n - 1
      BY DEF Parted
    <3> HIDE DEF kept, skipped
    <3> QED BY <1>0, <1>1, <3>1
  <2>2. \A i \in DOMAIN new.kept : \E j \in 1..n : new.kept[i] = s[j]
    BY <1>1, <1>3, <1>4, <1>5
  <2>3. \A i \in DOMAIN new.skipped : \E j \in 1..n : new.skipped[i] = s[j]
    BY <1>4, <1>5
  <2>4. \A j \in 1..n : \/ \E i \in DOMAIN new.kept : new.kept[i] = s[j]
                        \/ \E i \in DOMAIN new.skipped : new.skipped[i] = s[j]
    <3> SUFFICES ASSUME NEW j \in 1..n
                 PROVE  \/ \E i \in DOMAIN new.kept : new.kept[i] = s[j]
                        \/ \E i \in DOMAIN new.skipped : new.skipped[i] = s[j]
      OBVIOUS
    <3>1. CASE j = n
      BY <1>3, <3>1
    <3>2. CASE j # n
      <4>1. j \in 1..(n - 1)
        BY <1>1, <3>2
      <4>2. \/ \E i \in DOMAIN kept : kept[i] = s[j]
            \/ \E i \in DOMAIN skipped : skipped[i] = s[j]
        BY <4>1 DEF Parted
      <4> QED BY <1>3, <4>2
    <3> QED BY <3>1, <3>2
  <2>5. Len(new.kept) > 0 /\ new.kept[1] = s[1]
    <3>1. CASE n = 1
      <4>1. Len(kept) = 0
        <5> HIDE DEF kept, skipped
        <5> QED BY <1>0, <1>1, <2>1, <3>1
      <4> QED BY <1>3, <3>1, <4>1
    <3>2. CASE n # 1
      <4>1. Len(kept) > 0 /\ kept[1] = s[1]
        BY <1>1, <3>2 DEF Parted
      <4>2. 1 \in DOMAIN kept
        BY <1>1, <4>1
      <4> QED BY <1>1, <1>3, <4>1, <4>2
    <3> QED BY <3>1, <3>2
  <2>6. /\ Len(new.kept) <= limit /\ Len(new.kept) + Len(new.skipped) = n
        /\ Len(new.kept) + Len(new.skipped) <= n
    <3>1. /\ Len(Append(kept, c)) <= limit /\ Len(Append(kept, c)) + Len(skipped) = n
          /\ Len(Append(kept, c)) + Len(skipped) <= n
      <4> HIDE DEF kept, skipped, c
      <4> QED BY <1>0, <1>1, <1>3, <2>1
    <3> QED BY <3>1
  <2> QED BY ONLY <2>2, <2>3, <2>4, <2>5, <2>6 DEF Parted
<1>7. Apart(new)
  <2>1. \A i \in DOMAIN kept : ClauseOf[kept[i]] # ClauseOf[c]
    BY <1>4, <1>5
  <2>2. \A i \in DOMAIN skipped : ClauseOf[skipped[i]] # ClauseOf[c]
    BY <1>4, <1>5
  <2>3. OneEach(kept) /\ OneEach(skipped)
        /\ \A i \in DOMAIN kept, j \in DOMAIN skipped : ClauseOf[kept[i]] # ClauseOf[skipped[j]]
    BY DEF Apart
  <2>4. OneEach(Append(kept, c))
    <3> HIDE DEF kept, c
    <3> QED BY <1>3, <2>1, <2>3 DEF OneEach
  <2>5. \A i \in DOMAIN Append(kept, c), j \in DOMAIN skipped :
           ClauseOf[Append(kept, c)[i]] # ClauseOf[skipped[j]]
    <3> HIDE DEF kept, c, skipped
    <3> QED BY <1>3, <2>2, <2>3
  <2> QED BY <2>3, <2>4, <2>5 DEF Apart
<1>8. Quota(new)
  <2>1. /\ \A i \in DOMAIN kept : OfDocument(kept, kept[i]) <= MaxPerDocument
        /\ \A i \in DOMAIN skipped : OfDocument(kept, skipped[i]) >= MaxPerDocument
    BY DEF Quota
  <2>2. OfDocument(kept, c) < MaxPerDocument
    OBVIOUS
  <2> HIDE DEF kept, c, skipped
  <2>3. ASSUME NEW e
        PROVE  /\ OfDocument(kept, e) \in Nat
               /\ OfDocument(Append(kept, c), e) =
                    IF DocumentOf[c] = DocumentOf[e] THEN OfDocument(kept, e) + 1 ELSE OfDocument(kept, e)
    BY <1>1, CountAppend
  <2>4. ASSUME NEW i \in DOMAIN Append(kept, c)
        PROVE  OfDocument(Append(kept, c), Append(kept, c)[i]) <= MaxPerDocument
    <3> DEFINE e == Append(kept, c)[i]
    <3>1. CASE DocumentOf[c] = DocumentOf[e]
      <4>1. OfDocument(kept, e) = OfDocument(kept, c)
        BY <3>1, CountOfDocument
      <4> HIDE DEF e
      <4>2. OfDocument(Append(kept, c), e) = OfDocument(kept, e) + 1 /\ OfDocument(kept, e) \in Nat
        BY <2>3, <3>1
      <4>3. OfDocument(Append(kept, c), e) <= MaxPerDocument
        BY <1>2, <2>2, <4>1, <4>2
      <4> QED BY <4>3 DEF e
    <3>2. CASE DocumentOf[c] # DocumentOf[e]
      <4>1. i \in DOMAIN kept /\ e = kept[i]
        BY <1>3, <3>2
      <4>2. OfDocument(kept, e) <= MaxPerDocument
        BY <2>1, <4>1
      <4> HIDE DEF e
      <4>3. OfDocument(Append(kept, c), e) = OfDocument(kept, e)
        BY <2>3, <3>2
      <4>4. OfDocument(Append(kept, c), e) <= MaxPerDocument
        BY <4>2, <4>3
      <4> QED BY <4>4 DEF e
    <3> QED BY <3>1, <3>2
  <2>5. ASSUME NEW i \in DOMAIN skipped
        PROVE  OfDocument(Append(kept, c), skipped[i]) >= MaxPerDocument
    <3> DEFINE e == skipped[i]
    <3>1. OfDocument(kept, e) >= MaxPerDocument
      BY <2>1
    <3> HIDE DEF e
    <3>2. OfDocument(Append(kept, c), e) >= MaxPerDocument
      BY <1>2, <2>3, <3>1
    <3> QED BY <3>2 DEF e
  <2> QED BY <2>4, <2>5 DEF Quota, kept, skipped, c
<1> QED BY <1>6, <1>7, <1>8

LEMMA WalkSkipped ==
  ASSUME NEW s \in Seq(Chunks), OneEach(s), NEW limit \in Nat, limit > 0,
         NEW n \in 1..Len(s), NEW acc \in Accs,
         Parted(s, limit, acc, n - 1), Apart(acc), Quota(acc),
         Len(acc.kept) < limit, ~(OfDocument(acc.kept, s[n]) < MaxPerDocument),
         NEW new \in Accs, new.kept = acc.kept, new.skipped = Append(acc.skipped, s[n])
  PROVE  Parted(s, limit, new, n) /\ Apart(new) /\ Quota(new)
<1> DEFINE kept == acc.kept
           skipped == acc.skipped
           c == s[n]
<1>1. kept \in Seq(Chunks) /\ skipped \in Seq(Chunks) /\ Len(s) \in Nat /\ n \in Nat /\ c \in Chunks
  BY DEF Accs
<1>0. Len(kept) \in Nat /\ Len(skipped) \in Nat /\ Len(kept) < limit
  BY <1>1
<1>2. MaxPerDocument \in Nat \ {0}
  BY RetrievalAssumption
<1>3. /\ DOMAIN Append(skipped, c) = (DOMAIN skipped) \cup {Len(skipped) + 1}
      /\ \A i \in DOMAIN skipped : Append(skipped, c)[i] = skipped[i]
      /\ Append(skipped, c)[Len(skipped) + 1] = c
      /\ Len(Append(skipped, c)) = Len(skipped) + 1 /\ Len(skipped) + 1 \notin DOMAIN skipped
  <2> HIDE DEF skipped, c
  <2> QED BY <1>1
<1>4. /\ \A i \in DOMAIN kept : \E j \in 1..(n - 1) : kept[i] = s[j]
      /\ \A i \in DOMAIN skipped : \E j \in 1..(n - 1) : skipped[i] = s[j]
  BY DEF Parted
<1>5. \A j \in 1..(n - 1) : j \in 1..n /\ j # n /\ ClauseOf[s[j]] # ClauseOf[c]
  BY <1>1 DEF OneEach
<1>6. kept # <<>>
  <2>1. CASE kept = <<>>
    <3>1. OfDocument(kept, c) = 0
      BY <2>1, CountEmpty
    <3> QED BY <1>2, <3>1
  <2> QED BY <2>1
<1>7. Parted(s, limit, new, n)
  <2>1. Len(kept) + Len(skipped) + 1 = n
    <3>1. Len(kept) + Len(skipped) = n - 1
      BY DEF Parted
    <3> HIDE DEF kept, skipped
    <3> QED BY <1>0, <1>1, <3>1
  <2>2. \A i \in DOMAIN new.kept : \E j \in 1..n : new.kept[i] = s[j]
    BY <1>4, <1>5
  <2>3. \A i \in DOMAIN new.skipped : \E j \in 1..n : new.skipped[i] = s[j]
    BY <1>1, <1>3, <1>4, <1>5
  <2>4. \A j \in 1..n : \/ \E i \in DOMAIN new.kept : new.kept[i] = s[j]
                        \/ \E i \in DOMAIN new.skipped : new.skipped[i] = s[j]
    <3> SUFFICES ASSUME NEW j \in 1..n
                 PROVE  \/ \E i \in DOMAIN new.kept : new.kept[i] = s[j]
                        \/ \E i \in DOMAIN new.skipped : new.skipped[i] = s[j]
      OBVIOUS
    <3>1. CASE j = n
      BY <1>3, <3>1
    <3>2. CASE j # n
      <4>1. j \in 1..(n - 1)
        BY <1>1, <3>2
      <4>2. \/ \E i \in DOMAIN kept : kept[i] = s[j]
            \/ \E i \in DOMAIN skipped : skipped[i] = s[j]
        BY <4>1 DEF Parted
      <4> QED BY <1>3, <4>2
    <3> QED BY <3>1, <3>2
  <2>5. Len(new.kept) > 0 /\ new.kept[1] = s[1]
    <3>1. Len(kept) > 0
      BY <1>1, <1>6
    <3>2. n - 1 > 0
      <4> HIDE DEF kept, skipped
      <4> QED BY <1>0, <1>1, <2>1, <3>1
    <3> QED BY <3>1, <3>2 DEF Parted
  <2>6. /\ Len(new.kept) <= limit /\ Len(new.kept) + Len(new.skipped) = n
        /\ Len(new.kept) + Len(new.skipped) <= n
    <3>1. /\ Len(kept) <= limit /\ Len(kept) + Len(Append(skipped, c)) = n
          /\ Len(kept) + Len(Append(skipped, c)) <= n
      <4> HIDE DEF kept, skipped, c
      <4> QED BY <1>0, <1>1, <1>3, <2>1
    <3> QED BY <3>1
  <2> QED BY ONLY <2>2, <2>3, <2>4, <2>5, <2>6 DEF Parted
<1>8. Apart(new)
  <2>1. \A i \in DOMAIN kept : ClauseOf[kept[i]] # ClauseOf[c]
    BY <1>4, <1>5
  <2>2. \A i \in DOMAIN skipped : ClauseOf[skipped[i]] # ClauseOf[c]
    BY <1>4, <1>5
  <2>3. OneEach(kept) /\ OneEach(skipped)
        /\ \A i \in DOMAIN kept, j \in DOMAIN skipped : ClauseOf[kept[i]] # ClauseOf[skipped[j]]
    BY DEF Apart
  <2>4. OneEach(Append(skipped, c))
    <3> HIDE DEF skipped, c
    <3> QED BY <1>3, <2>2, <2>3 DEF OneEach
  <2>5. \A i \in DOMAIN kept, j \in DOMAIN Append(skipped, c) :
           ClauseOf[kept[i]] # ClauseOf[Append(skipped, c)[j]]
    <3> HIDE DEF kept, c, skipped
    <3> QED BY <1>3, <2>1, <2>3
  <2> QED BY <2>3, <2>4, <2>5 DEF Apart
<1>9. Quota(new)
  <2>1. /\ \A i \in DOMAIN kept : OfDocument(kept, kept[i]) <= MaxPerDocument
        /\ \A i \in DOMAIN skipped : OfDocument(kept, skipped[i]) >= MaxPerDocument
    BY DEF Quota
  <2>2. OfDocument(kept, c) >= MaxPerDocument
    <3>1. OfDocument(kept, c) \in Nat
      BY <1>1, CountAppend
    <3> QED BY <1>2, <3>1
  <2>3. \A i \in DOMAIN Append(skipped, c) : OfDocument(kept, Append(skipped, c)[i]) >= MaxPerDocument
    <3> HIDE DEF kept, c, skipped
    <3> QED BY <1>3, <2>1, <2>2
  <2> QED BY <2>1, <2>3 DEF Quota
<1> QED BY <1>7, <1>8, <1>9

\* The walk over the collapsed hits.
LEMMA Walked ==
  ASSUME NEW s \in Seq(Chunks), OneEach(s), NEW limit \in Nat, limit > 0
  PROVE  LET acc == walking(s, limit)[Len(s)]
         IN  acc \in Accs /\ Parted(s, limit, acc, Len(s)) /\ Apart(acc) /\ Quota(acc)
<1> DEFINE w == walking(s, limit)
           Done(acc, n) == Parted(s, limit, acc, n) /\ Apart(acc) /\ Quota(acc)
           Good == {n \in 0..Len(s) : Done(w[n], n)}
<1>1. /\ Len(s) \in Nat
      /\ \A n \in 0..Len(s) : w[n] \in Accs
      /\ w[0] = Nothing
      /\ \A n \in 1..Len(s) : w[n] = Walk(w[n - 1], s[n], limit)
  BY Walking
<1> HIDE DEF w
<1>2. 0 \in Good
  <2>1. Parted(s, limit, Nothing, 0)
    BY DEF Parted, Nothing
  <2>2. Apart(Nothing) /\ Quota(Nothing)
    BY DEF Apart, Quota, Nothing, OneEach
  <2> QED BY <1>1, <2>1, <2>2
<1>3. ASSUME NEW n \in 1..Len(s), n - 1 \in Good PROVE n \in Good
  <2> DEFINE acc == w[n - 1]
             new == w[n]
  <2>1. acc \in Accs /\ new \in Accs /\ n \in 0..Len(s) /\ new = Walk(acc, s[n], limit)
    BY <1>1
  <2>2. Parted(s, limit, acc, n - 1) /\ Apart(acc) /\ Quota(acc)
    BY <1>3
  <2> HIDE DEF acc, new
  <2>3. CASE Len(acc.kept) >= limit
    <3>1. new = acc
      BY <2>1, <2>3 DEF Walk
    <3>2. Len(acc.kept) \in Nat /\ Len(acc.skipped) \in Nat
      BY <2>1 DEF Accs
    <3>3. Len(acc.kept) + Len(acc.skipped) <= n - 1 /\ Len(acc.kept) <= limit
      BY <2>2 DEF Parted
    <3>4. n - 1 > 0 /\ Len(acc.kept) + Len(acc.skipped) <= n /\ ~(Len(acc.kept) < limit)
      <4> DEFINE i == Len(acc.kept)
                 j == Len(acc.skipped)
      <4>1. i \in Nat /\ j \in Nat
        BY <3>2
      <4>2. n \in Nat
        BY <1>1
      <4>3. i >= limit
        BY <2>3
      <4>4. i + j <= n - 1
        BY <3>3
      <4> HIDE DEF i, j
      <4>5. n - 1 > 0 /\ i + j <= n /\ ~(i < limit)
        BY <4>1, <4>2, <4>3, <4>4
      <4> QED BY <4>5 DEF i, j
    <3>5. 1..(n - 1) \subseteq 1..n
      BY <1>1
    <3>6. /\ \A i \in DOMAIN acc.kept : \E j \in 1..(n - 1) : acc.kept[i] = s[j]
          /\ \A i \in DOMAIN acc.skipped : \E j \in 1..(n - 1) : acc.skipped[i] = s[j]
          /\ Len(acc.kept) > 0 /\ acc.kept[1] = s[1]
      BY <2>2, <3>4 DEF Parted
    <3>7. Parted(s, limit, acc, n)
      BY <3>3, <3>4, <3>5, <3>6 DEF Parted
    <3> QED BY <2>1, <2>2, <3>1, <3>7 DEF new
  <2>4. CASE Len(acc.kept) < limit /\ OfDocument(acc.kept, s[n]) < MaxPerDocument
    <3>1. Len(acc.kept) \in Nat
      BY <2>1 DEF Accs
    <3>2. new = [acc EXCEPT !.kept = Append(@, s[n])]
      BY <2>1, <2>4, <3>1 DEF Walk
    <3>3. new.kept = Append(acc.kept, s[n]) /\ new.skipped = acc.skipped
      BY <2>1, <3>2 DEF Accs
    <3>4. Parted(s, limit, new, n) /\ Apart(new) /\ Quota(new)
      BY <2>1, <2>2, <2>4, <3>3, WalkKept
    <3> QED BY <2>1, <3>4 DEF new
  <2>5. CASE Len(acc.kept) < limit /\ ~(OfDocument(acc.kept, s[n]) < MaxPerDocument)
    <3>1. Len(acc.kept) \in Nat
      BY <2>1 DEF Accs
    <3>2. new = [acc EXCEPT !.skipped = Append(@, s[n])]
      BY <2>1, <2>5, <3>1 DEF Walk
    <3>3. new.kept = acc.kept /\ new.skipped = Append(acc.skipped, s[n])
      BY <2>1, <3>2 DEF Accs
    <3>4. Parted(s, limit, new, n) /\ Apart(new) /\ Quota(new)
      BY <2>1, <2>2, <2>5, <3>3, WalkSkipped
    <3> QED BY <2>1, <3>4 DEF new
  <2>6. Len(acc.kept) \in Nat
    BY <2>1 DEF Accs
  <2> QED BY <2>3, <2>4, <2>5, <2>6
<1>4. 0..Len(s) \subseteq Good
  <2> HIDE DEF Good
  <2> QED BY <1>1, <1>2, <1>3, UpTo
<1>5. Len(s) \in 0..Len(s)
  BY <1>1
<1>6. w[Len(s)] \in Accs /\ Done(w[Len(s)], Len(s))
  BY <1>1, <1>4, <1>5
<1> QED BY <1>6 DEF w

\* The smaller of two numbers.
LEMMA MinOfTwo ==
  ASSUME NEW i \in Int, NEW j \in Int
  PROVE  Min({i, j}) = IF i < j THEN i ELSE j
<1> DEFINE m == IF i < j THEN i ELSE j
<1>1. m \in {i, j} /\ \A y \in {i, j} : m <= y
  OBVIOUS
<1>2. \A x \in {i, j} : (\A y \in {i, j} : x <= y) => x = m
  OBVIOUS
<1> HIDE DEF m
<1>3. Min({i, j}) = m
  BY <1>1, <1>2 DEF Min
<1> QED BY <1>3 DEF m

\* A slice from the front.
LEMMA FirstOf ==
  ASSUME NEW S, NEW t \in Seq(S), NEW n \in Nat
  PROVE  /\ First(t, n) \in Seq(S)
         /\ Len(First(t, n)) = IF n < Len(t) THEN n ELSE Len(t)
         /\ \A i \in 1..Len(First(t, n)) : i \in 1..Len(t) /\ First(t, n)[i] = t[i]
<1>1. Len(t) \in Nat
  OBVIOUS
<1> DEFINE m == Min({n, Len(t)})
<1>2. m = IF n < Len(t) THEN n ELSE Len(t)
  BY <1>1, MinOfTwo
<1>3. m \in Nat /\ m <= Len(t) /\ First(t, n) = SubSeq(t, 1, m)
  BY <1>1, <1>2 DEF First
<1> HIDE DEF m
<1>4. SubSeq(t, 1, m) \in Seq(S) /\ Len(SubSeq(t, 1, m)) = m
      /\ \A i \in 1..m : i \in 1..Len(t) /\ SubSeq(t, 1, m)[i] = t[i]
  BY <1>1, <1>3
<1> QED BY <1>2, <1>3, <1>4

\* Two lists, one after the other.
LEMMA Joined ==
  ASSUME NEW S, NEW u \in Seq(S), NEW v \in Seq(S)
  PROVE  /\ u \o v \in Seq(S) /\ Len(u) \in Nat /\ Len(v) \in Nat /\ Len(u \o v) = Len(u) + Len(v)
         /\ DOMAIN u = 1..Len(u) /\ DOMAIN v = 1..Len(v) /\ DOMAIN (u \o v) = 1..(Len(u) + Len(v))
         /\ \A i \in 1..Len(u) : (u \o v)[i] = u[i]
         /\ \A i \in 1..Len(v) : (u \o v)[Len(u) + i] = v[i]
OBVIOUS

\* A list without its first elements.
LEMMA From ==
  ASSUME NEW S, NEW t \in Seq(S), NEW r \in Nat
  PROVE  LET rest == SubSeq(t, r + 1, Len(t))
         IN  /\ rest \in Seq(S)
             /\ \A i \in 1..Len(rest) : r + i \in 1..Len(t) /\ rest[i] = t[r + i]
<1> DEFINE rest == SubSeq(t, r + 1, Len(t))
<1>1. rest \in Seq(S) /\ Len(rest) \in Nat /\ Len(rest) = IF r + 1 <= Len(t) THEN Len(t) - r ELSE 0
  OBVIOUS
<1>2. ASSUME NEW i \in 1..Len(rest) PROVE r + i \in 1..Len(t) /\ rest[i] = t[r + i]
  <2>1. r + 1 <= Len(t) /\ i \in 1..(Len(t) - r) /\ i \in 1..(Len(t) - (r + 1) + 1)
    BY <1>1
  <2>2. rest[i] = t[r + 1 + i - 1]
   BY <2>1
  <2> QED BY <2>1, <2>2
<1> QED BY <1>1, <1>2

\* The pool is the walk's, filled up from what was skipped; behind the pool
\* what was skipped goes on in its order.
LEMMA Filled ==
  ASSUME NEW s \in Seq(Chunks), OneEach(s), NEW limit \in Nat, limit > 0
  PROVE  LET acc == walking(s, limit)[Len(s)]
             room == limit - Len(acc.kept)
             cut == cap_per_document(s, limit)
             fill == First(acc.skipped, room)
         IN  /\ room \in Nat
             /\ fill \in Seq(Chunks) /\ cut.kept = acc.kept \o fill
             /\ Len(fill) = IF room < Len(acc.skipped) THEN room ELSE Len(acc.skipped)
             /\ \A i \in 1..Len(fill) : i \in 1..Len(acc.skipped) /\ fill[i] = acc.skipped[i]
             /\ cut.overflow \in Seq(Chunks)
             /\ \A i \in 1..Len(cut.overflow) :
                  /\ room + i \in 1..Len(acc.skipped) /\ Len(fill) = room
                  /\ cut.overflow[i] = acc.skipped[room + i]
<1> DEFINE acc == walking(s, limit)[Len(s)]
           skipped == acc.skipped
           room == limit - Len(acc.kept)
           fill == First(skipped, room)
           rest == SubSeq(skipped, room + 1, Len(skipped))
           over == First(rest, OverflowTop)
<1>1. acc.kept \in Seq(Chunks) /\ skipped \in Seq(Chunks) /\ Len(acc.kept) <= limit
  BY Walked DEF Accs, Parted
<1>2. cap_per_document(s, limit) = [kept |-> acc.kept \o fill, overflow |-> over]
  BY DEF cap_per_document
<1>3. OverflowTop \in Nat
  BY RetrievalAssumption
<1> HIDE DEF acc
<1>4. room \in Nat /\ Len(skipped) \in Nat
  BY <1>1
<1> HIDE DEF room, skipped
<1>5. /\ fill \in Seq(Chunks)
      /\ Len(fill) = IF room < Len(skipped) THEN room ELSE Len(skipped)
      /\ \A i \in 1..Len(fill) : i \in 1..Len(skipped) /\ fill[i] = skipped[i]
  BY <1>1, <1>4, FirstOf
<1>6. /\ rest \in Seq(Chunks)
      /\ \A i \in 1..Len(rest) : room + i \in 1..Len(skipped) /\ rest[i] = skipped[room + i]
  BY <1>1, <1>4, From
<1> HIDE DEF fill, rest
<1>7. /\ over \in Seq(Chunks)
      /\ \A i \in 1..Len(over) : i \in 1..Len(rest) /\ over[i] = rest[i]
  BY <1>3, <1>6, FirstOf
<1> HIDE DEF over
<1>8. ASSUME NEW i \in 1..Len(over)
      PROVE  /\ room + i \in 1..Len(skipped) /\ Len(fill) = room
             /\ over[i] = skipped[room + i]
  <2>1. room + i \in 1..Len(skipped) /\ over[i] = skipped[room + i]
    BY <1>6, <1>7
  <2>2. room < Len(skipped)
    <3>1. i \in Nat \ {0}
      <4>1. Len(over) \in Nat
        BY <1>7
      <4> QED BY <4>1
    <3> QED BY <1>4, <2>1, <3>1
  <2> QED BY <1>5, <2>1, <2>2
<1>9. [kept |-> acc.kept \o fill, overflow |-> over].kept = acc.kept \o fill
      /\ [kept |-> acc.kept \o fill, overflow |-> over].overflow = over
  OBVIOUS
<1> QED BY <1>2, <1>4, <1>5, <1>7, <1>8, <1>9 DEF acc, skipped, room, fill, over

\* The pool and what follows it, among the hits.
LEMMA Capped ==
  ASSUME NEW s \in Seq(Chunks), OneEach(s), NEW limit \in Nat, limit > 0
  PROVE  LET cut == cap_per_document(s, limit)
             full(c) == OfDocument(cut.kept, c) >= MaxPerDocument
             out == {c \in Range(s) : c \notin Range(cut.kept)}
         IN  /\ cut.kept \in Seq(Chunks) /\ cut.overflow \in Seq(Chunks)
             /\ OneEach(cut.kept \o cut.overflow)
             /\ Len(cut.kept) = Min({limit, Len(s)})
             /\ s # <<>> => cut.kept[1] = s[1]
             /\ (\E c \in Range(cut.kept) : OfDocument(cut.kept, c) > MaxPerDocument)
                   => \A c \in out : full(c)
             /\ Range(cut.overflow) \subseteq {c \in out : full(c)}
<1> DEFINE acc == walking(s, limit)[Len(s)]
           base == acc.kept
           skipped == acc.skipped
           room == limit - Len(base)
           fill == First(skipped, room)
           cut == cap_per_document(s, limit)
           kept == cut.kept
           over == cut.overflow
           out == {c \in Range(s) : c \notin Range(kept)}
<1>1. /\ base \in Seq(Chunks) /\ skipped \in Seq(Chunks)
      /\ Parted(s, limit, acc, Len(s)) /\ Apart(acc) /\ Quota(acc)
  BY Walked DEF Accs
<1>2. /\ room \in Nat
      /\ fill \in Seq(Chunks) /\ kept = base \o fill
      /\ Len(fill) = IF room < Len(skipped) THEN room ELSE Len(skipped)
      /\ \A i \in 1..Len(fill) : i \in 1..Len(skipped) /\ fill[i] = skipped[i]
      /\ over \in Seq(Chunks)
      /\ \A i \in 1..Len(over) : /\ room + i \in 1..Len(skipped) /\ Len(fill) = room
                                 /\ over[i] = skipped[room + i]
  BY Filled
<1>3. MaxPerDocument \in Nat
  BY RetrievalAssumption
<1> DEFINE ns == Len(s)
           nb == Len(base)
           nm == Len(skipped)
           nf == Len(fill)
           no == Len(over)
<1>4. ns \in Nat /\ nb \in Nat /\ nm \in Nat /\ nf \in Nat /\ no \in Nat
  <2>1. ns \in Nat
    OBVIOUS
  <2> HIDE DEF acc, fill, over
  <2> QED BY <1>1, <1>2, <2>1
<1>5. nb + room = limit
  <2> HIDE DEF base
  <2> QED BY <1>4
<1>6. /\ nb + nm <= ns
      /\ nb < limit => nb + nm = ns
      /\ ns > 0 => nb > 0 /\ base[1] = s[1]
  BY <1>1 DEF Parted
<1>7. /\ \A i \in DOMAIN base : base[i] \in Range(s)
      /\ \A i \in DOMAIN skipped : skipped[i] \in Range(s)
      /\ nb < limit => \A c \in Range(s) : c \in Range(base) \/ c \in Range(skipped)
  <2>1. DOMAIN s = 1..Len(s)
    OBVIOUS
  <2> HIDE DEF acc
  <2>2. /\ \A i \in DOMAIN base : \E j \in 1..Len(s) : base[i] = s[j]
        /\ \A i \in DOMAIN skipped : \E j \in 1..Len(s) : skipped[i] = s[j]
        /\ nb < limit => \A j \in 1..Len(s) : \/ \E i \in DOMAIN base : base[i] = s[j]
                                              \/ \E i \in DOMAIN skipped : skipped[i] = s[j]
    BY <1>1 DEF Parted
  <2> HIDE DEF base, skipped, nb
  <2> QED BY <2>1, <2>2 DEF Range
<1>8. /\ OneEach(base) /\ OneEach(skipped)
      /\ \A i \in DOMAIN base, j \in DOMAIN skipped : ClauseOf[base[i]] # ClauseOf[skipped[j]]
      /\ \A i \in DOMAIN base : OfDocument(base, base[i]) <= MaxPerDocument
      /\ \A i \in DOMAIN skipped : OfDocument(base, skipped[i]) >= MaxPerDocument
  BY <1>1 DEF Apart, Quota
<1> HIDE DEF acc, base, skipped, room, fill, cut, kept, over
<1> DEFINE nk == Len(kept)
           all == kept \o over
<1>9. /\ kept \in Seq(Chunks) /\ nk = nb + nf
      /\ DOMAIN base = 1..nb /\ DOMAIN kept = 1..nk
      /\ \A i \in 1..nb : kept[i] = base[i]
      /\ \A i \in 1..nf : kept[nb + i] = fill[i]
  <2>1. base \in Seq(Chunks) /\ fill \in Seq(Chunks) /\ kept = base \o fill
    BY <1>1, <1>2
  <2>2. /\ base \o fill \in Seq(Chunks) /\ Len(base \o fill) = Len(base) + Len(fill)
        /\ DOMAIN base = 1..Len(base) /\ DOMAIN (base \o fill) = 1..(Len(base) + Len(fill))
        /\ \A i \in 1..Len(base) : (base \o fill)[i] = base[i]
        /\ \A i \in 1..Len(fill) : (base \o fill)[Len(base) + i] = fill[i]
    BY <2>1, Joined
  <2> QED BY <2>1, <2>2
<1>10. /\ DOMAIN all = 1..(nk + no)
       /\ DOMAIN over = 1..no
       /\ \A i \in 1..nk : all[i] = kept[i]
       /\ \A i \in 1..no : all[nk + i] = over[i]
  <2>1. kept \in Seq(Chunks) /\ over \in Seq(Chunks)
    BY <1>2, <1>9
  <2> QED BY <2>1, Joined
<1>11. /\ DOMAIN skipped = 1..nm
       /\ nf = IF room < nm THEN room ELSE nm
       /\ \A i \in 1..nf : i \in 1..nm /\ fill[i] = skipped[i]
       /\ \A i \in 1..no : room + i \in 1..nm /\ nf = room /\ over[i] = skipped[room + i]
  BY <1>1, <1>2
<1>12. nk = Min({limit, ns})
  <2>1. Min({limit, ns}) = IF limit < ns THEN limit ELSE ns
    BY <1>4, MinOfTwo
  <2>2. nk = nb + nf /\ (nf = IF room < nm THEN room ELSE nm)
    BY <1>9, <1>11
  <2>3. nb + nm <= ns /\ (nb < limit => nb + nm = ns) /\ nb + room = limit
    BY <1>5, <1>6
  <2> HIDE DEF nk, nb, nf, nm, ns
  <2>4. nk = IF limit < ns THEN limit ELSE ns
    BY <1>2, <1>4, <2>2, <2>3
  <2> QED BY <2>1, <2>4
<1>13. ASSUME s # <<>> PROVE kept[1] = s[1]
  <2>1. ns > 0
    BY <1>13
  <2> HIDE DEF nb, ns
  <2> QED BY <1>4, <1>6, <1>9, <2>1
<1> HIDE DEF ns, nb, nm, nf, no, nk, all
<1>14. OneEach(all)
  <2> DEFINE At(i) == IF i <= nb THEN base[i] ELSE skipped[i - nb]
  <2>1. ASSUME NEW i \in DOMAIN all
        PROVE  all[i] = At(i) /\ i \in Nat \ {0} /\ (i > nb => i - nb \in 1..nm)
    <3>1. i \in 1..(nk + no) /\ nk \in Nat /\ nb <= nk
      BY <1>4, <1>9, <1>10
    <3>2. CASE i <= nb
      <4>1. i \in 1..nb /\ i \in 1..nk
        BY <1>4, <1>9, <3>1, <3>2
      <4>2. all[i] = base[i]
        BY <1>9, <1>10, <4>1
      <4> QED BY <1>4, <3>1, <3>2, <4>2
    <3>3. CASE i > nb /\ i <= nk
      <4>1. i \in 1..nk /\ i - nb \in 1..nf /\ nb + (i - nb) = i
        BY <1>4, <1>9, <3>1, <3>3
      <4>2. all[i] = kept[nb + (i - nb)]
        BY <1>10, <4>1
      <4>3. all[i] = fill[i - nb]
        BY <1>9, <4>1, <4>2
      <4> QED BY <1>4, <1>11, <3>1, <3>3, <4>1, <4>3
    <3>4. CASE i > nk
      <4>1. i - nk \in 1..no /\ nk + (i - nk) = i
        BY <1>4, <3>1, <3>4
      <4>2. all[i] = over[i - nk]
        BY <1>10, <4>1
      <4>3. room + (i - nk) \in 1..nm /\ nf = room /\ over[i - nk] = skipped[room + (i - nk)]
        BY <1>11, <4>1
      <4>4. room + (i - nk) = i - nb /\ i > nb
        BY <1>2, <1>4, <1>9, <3>1, <3>4, <4>3
      <4> QED BY <1>4, <3>1, <4>2, <4>3, <4>4
    <3> QED BY <1>4, <1>9, <3>1, <3>2, <3>3, <3>4
  <2>2. ASSUME NEW i \in DOMAIN all, NEW j \in DOMAIN all, ClauseOf[At(i)] = ClauseOf[At(j)]
        PROVE  i = j
    <3>1. /\ i \in Nat \ {0} /\ (i > nb => i - nb \in 1..nm)
          /\ j \in Nat \ {0} /\ (j > nb => j - nb \in 1..nm)
      BY <2>1
    <3>2. CASE i <= nb /\ j <= nb
      BY <1>4, <1>8, <1>9, <2>2, <3>1, <3>2 DEF OneEach
    <3>3. CASE i > nb /\ j > nb
      <4>1. ClauseOf[skipped[i - nb]] = ClauseOf[skipped[j - nb]]
        BY <1>4, <2>2, <3>1, <3>3
      <4>2. i - nb = j - nb
        BY <1>8, <1>11, <3>1, <3>3, <4>1 DEF OneEach
      <4> QED BY <1>4, <3>1, <4>2
    <3>4. CASE i <= nb /\ j > nb
      BY <1>4, <1>8, <1>9, <1>11, <2>2, <3>1, <3>4
    <3>5. CASE i > nb /\ j <= nb
      BY <1>4, <1>8, <1>9, <1>11, <2>2, <3>1, <3>5
    <3> QED BY <1>4, <3>1, <3>2, <3>3, <3>4, <3>5
  <2> HIDE DEF At
  <2> QED BY <2>1, <2>2 DEF OneEach
<1>15. ASSUME NEW c
       PROVE  OfDocument(base, c) >= MaxPerDocument => OfDocument(kept, c) >= MaxPerDocument
  <2>1. /\ OfDocument(base, c) \in Nat /\ OfDocument(kept, c) \in Nat
        /\ OfDocument(base, c) <= OfDocument(kept, c)
    BY <1>1, <1>2, CountMore
  <2> QED BY <1>3, <2>1
<1>16. ASSUME NEW x \in Range(kept), OfDocument(kept, x) > MaxPerDocument, NEW c \in out
       PROVE  OfDocument(kept, c) >= MaxPerDocument
  <2>1. CASE nb < limit
    <3>1. c \notin Range(base)
      <4>1. \A i \in DOMAIN base : i \in DOMAIN kept /\ kept[i] = base[i]
        BY <1>4, <1>9
      <4> QED BY <4>1 DEF Range
    <3>2. c \in Range(skipped)
      BY <1>7, <2>1, <3>1
    <3>3. OfDocument(base, c) >= MaxPerDocument
      BY <1>8, <3>2 DEF Range
    <3> QED BY <1>15, <3>3
  <2>2. CASE ~(nb < limit)
    <3>1. nf = 0
      BY <1>2, <1>4, <1>5, <1>11, <2>2
    <3>2. kept = base
      BY <1>1, <1>2, <3>1 DEF nf
    <3>3. OfDocument(kept, x) <= MaxPerDocument
      BY <1>8, <3>2 DEF Range
    <3>4. OfDocument(kept, x) \in Nat
      BY <1>1, <1>2, CountMore
    <3> QED BY <1>3, <1>16, <3>3, <3>4
  <2> QED BY <2>1, <2>2
<1>17. ASSUME NEW i \in 1..no
       PROVE  over[i] \in out /\ OfDocument(kept, over[i]) >= MaxPerDocument
  <2>1. room + i \in DOMAIN skipped /\ over[i] = skipped[room + i]
    BY <1>11
  <2>2. over[i] \in Range(s) /\ OfDocument(base, over[i]) >= MaxPerDocument
    BY <1>7, <1>8, <2>1
  <2>3. over[i] \notin Range(kept)
    <3> SUFFICES ASSUME NEW j \in DOMAIN kept, kept[j] = over[i] PROVE FALSE
      BY DEF Range
    <3>1. nk \in Nat /\ j \in 1..nk
      BY <1>4, <1>9
    <3>2. j \in 1..(nk + no) /\ nk + i \in 1..(nk + no) /\ j # nk + i
      BY <1>4, <3>1
    <3>3. j \in DOMAIN all /\ nk + i \in DOMAIN all /\ all[j] = kept[j] /\ all[nk + i] = over[i]
      BY <1>10, <3>1, <3>2
    <3> QED BY <1>14, <3>2, <3>3 DEF OneEach
  <2> QED BY <1>15, <2>2, <2>3
<1>18. Range(over) \subseteq {c \in out : OfDocument(kept, c) >= MaxPerDocument}
  <2>1. Range(over) = {over[i] : i \in 1..no}
    BY <1>10 DEF Range
  <2> HIDE DEF out
  <2> QED BY <1>17, <2>1
<1> HIDE DEF out
<1>19. (\E c \in Range(kept) : OfDocument(kept, c) > MaxPerDocument)
          => \A c \in out : OfDocument(kept, c) >= MaxPerDocument
  BY <1>16
<1> QED BY <1>2, <1>9, <1>12, <1>13, <1>14, <1>18, <1>19 DEF kept, over, cut, out, all, nk, ns

-----------------------------------------------------------------------------
\* Sorting by a total order.

\* In a finite total order every place is taken.
LEMMA Ranked ==
  ASSUME NEW S, IsFiniteSet(S), NEW R,
         \A x \in S : <<x, x>> \notin R,
         \A x, y, z \in S : <<x, y>> \in R /\ <<y, z>> \in R => <<x, z>> \in R,
         \A x, y \in S : x # y => <<x, y>> \in R \/ <<y, x>> \in R
  PROVE  \A i \in 1..Cardinality(S) : \E c \in S : Cardinality({e \in S : <<e, c>> \in R}) = i - 1
<1> DEFINE Below(c) == {e \in S : <<e, c>> \in R}
           n == Cardinality(S)
           place == [c \in S |-> Cardinality(Below(c))]
<1>1. n \in Nat
  BY FS_CardinalityType
<1>2. ASSUME NEW c \in S
      PROVE  IsFiniteSet(Below(c)) /\ Cardinality(Below(c)) \in 0..(n - 1)
  <2>1. Below(c) \subseteq S /\ Below(c) # S
    OBVIOUS
  <2> HIDE DEF Below
  <2>2. IsFiniteSet(Below(c)) /\ Cardinality(Below(c)) <= n /\ Cardinality(Below(c)) # n
    BY <2>1, FS_Subset
  <2>3. Cardinality(Below(c)) \in Nat
    BY <2>2, FS_CardinalityType
  <2> HIDE DEF n
  <2>4. Cardinality(Below(c)) \in 0..(n - 1)
    BY <1>1, <2>2, <2>3
  <2> QED BY <2>2, <2>4
<1>3. ASSUME NEW c \in S, NEW e \in S, <<c, e>> \in R
      PROVE  Cardinality(Below(c)) < Cardinality(Below(e))
  <2>1. Below(c) \subseteq Below(e) /\ c \in Below(e) /\ c \notin Below(c)
    BY <1>3
  <2> HIDE DEF Below
  <2>2. /\ Cardinality(Below(c)) <= Cardinality(Below(e))
        /\ Cardinality(Below(c)) # Cardinality(Below(e))
    BY <1>2, <2>1, FS_Subset
  <2>3. Cardinality(Below(c)) \in Int /\ Cardinality(Below(e)) \in Int
    BY <1>2
  <2> QED BY <2>2, <2>3
<1> HIDE DEF Below
<1>4. place \in [S -> 0..(n - 1)]
  BY <1>2
<1>5. \A c, e \in S : place[c] = place[e] => c = e
  <2> SUFFICES ASSUME NEW c \in S, NEW e \in S, place[c] = place[e], c # e PROVE FALSE
    OBVIOUS
  <2>1. Cardinality(Below(c)) = Cardinality(Below(e)) /\ Cardinality(Below(c)) \in Int
    BY <1>2
  <2>2. \/ Cardinality(Below(c)) < Cardinality(Below(e))
        \/ Cardinality(Below(e)) < Cardinality(Below(c))
    BY <1>3
  <2> QED BY <2>1, <2>2
<1> HIDE DEF place
<1>6. place \in Injection(S, 0..(n - 1))
  BY <1>4, <1>5 DEF Injection, IsInjective
<1>7. IsFiniteSet(0..(n - 1)) /\ Cardinality(0..(n - 1)) = n
  <2>1. /\ IsFiniteSet(0..(n - 1))
        /\ Cardinality(0..(n - 1)) = IF 0 > n - 1 THEN 0 ELSE n - 1 - 0 + 1
    <3>1. 0 \in Int /\ n - 1 \in Int
      BY <1>1
    <3> HIDE DEF n
    <3> QED BY ONLY <3>1, FS_Interval
  <2> HIDE DEF n
  <2> QED BY <1>1, <2>1
<1>8. place \in Surjection(S, 0..(n - 1))
  BY <1>6, <1>7, FS_Injection
<1>9. ASSUME NEW i \in 1..n PROVE \E c \in S : Cardinality(Below(c)) = i - 1
  <2>1. i - 1 \in 0..(n - 1)
    BY <1>1
  <2>2. \E c \in S : place[c] = i - 1
    BY <1>8, <2>1 DEF Surjection
  <2> QED BY <2>2 DEF place
<1> QED BY <1>9 DEF Below, n

\* The image of a finite set of chunks or clauses.
LEMMA FiniteImage ==
  ASSUME NEW D, IsFiniteSet(D), NEW T, NEW f, f \in [D -> T], \A t \in T : \E d \in D : f[d] = t
  PROVE  IsFiniteSet(T)
<1>1. f \in Surjection(D, T)
  BY DEF Surjection
<1> QED BY <1>1, FS_Surjection

-----------------------------------------------------------------------------
\* Fusion (reciprocal_rank_fusion).

\* The common multiple of the denominators.
LEMMA ScaleTyped == Scale \in Nat
<1> DEFINE Solves(f) == f = [r \in 0..Depth |-> IF r = 0 THEN 1 ELSE f[r - 1] * (RrfK + r)]
           step == [r \in 1..Depth |-> [i \in Nat |-> i * (RrfK + r)]]
<1>1. Depth \in Nat /\ RrfK \in Nat
  BY RetrievalAssumption DEF Depth
<1>2. step \in [1..Depth -> [Nat -> Nat]]
  <2> SUFFICES ASSUME NEW r \in 1..Depth, NEW i \in Nat PROVE i * (RrfK + r) \in Nat
    OBVIOUS
  <2>1. RrfK + r \in Nat
    BY <1>1
  <2> HIDE DEF step
  <2> QED BY <2>1
<1>3. PICK f \in [0..Depth -> Nat] : f[0] = 1 /\ \A r \in 1..Depth : f[r] = step[r][f[r - 1]]
  <2>1. Depth \in Nat /\ 1 \in Nat /\ step \in Steps(Depth, Nat)
    BY <1>1, <1>2 DEF Steps
  <2> HIDE DEF step
  <2>2. PICK f : Iterates(f, Depth, Nat, 1, step)
    BY <2>1, Iteration
  <2> QED BY <2>2 DEF Iterates
<1>4. Solves(f)
  <2>1. ASSUME NEW r \in 1..Depth PROVE f[r] = f[r - 1] * (RrfK + r)
    <3>1. f[r - 1] \in Nat
      BY <1>1, <1>3
    <3>2. step[r][f[r - 1]] = f[r - 1] * (RrfK + r)
      BY <3>1
    <3>3. f[r] = step[r][f[r - 1]]
      <4> HIDE DEF step
      <4> QED BY <1>3
    <3> QED BY <3>2, <3>3
  <2>2. ASSUME NEW r \in 0..Depth PROVE f[r] = IF r = 0 THEN 1 ELSE f[r - 1] * (RrfK + r)
    BY <1>1, <1>3, <2>1
  <2>3. f = [r \in 0..Depth |-> f[r]]
    BY <1>3
  <2> QED BY <2>2, <2>3
<1> DEFINE product == CHOOSE g : Solves(g)
<1>5. Scale = product[Depth]
  BY DEF Scale
<1>6. Solves(product)
  <2> HIDE DEF Solves
  <2> QED BY <1>4
<1> HIDE DEF product
<1> DEFINE Typed == {r \in 0..Depth : product[r] \in Nat}
<1>7. 0 \in Typed
  BY <1>1, <1>6
<1>8. ASSUME NEW r \in 1..Depth, r - 1 \in Typed PROVE r \in Typed
  <2>1. product[r] = product[r - 1] * (RrfK + r)
    BY <1>1, <1>6
  <2>2. product[r - 1] \in Nat /\ RrfK + r \in Nat /\ r \in 0..Depth
    BY <1>1, <1>8
  <2> DEFINE i == product[r - 1]
             j == RrfK + r
  <2>3. i * j \in Nat
    <3>1. i \in Nat /\ j \in Nat
      BY <2>2
    <3> HIDE DEF i, j
    <3> QED BY <3>1
  <2> QED BY <2>1, <2>2, <2>3
<1>9. 0..Depth \subseteq Typed
  <2> HIDE DEF Typed
  <2> QED BY <1>1, <1>7, <1>8, UpTo
<1>10. Depth \in 0..Depth
  BY <1>1
<1> QED BY <1>5, <1>9, <1>10

\* A leg ranks what it found by a positive number.
LEMMA RankTyped ==
  ASSUME NEW s \in Seq(Chunks), NEW c \in Range(s)
  PROVE  RankIn(s, c) \in Nat \ {0}
<1>1. \E i \in DOMAIN s : s[i] = c
  BY DEF Range
<1>2. RankIn(s, c) \in DOMAIN s
  BY <1>1 DEF RankIn
<1> QED BY <1>2

Scored == [chunk : Chunks, score : Int, best : Int]

LEMMA OutranksOrders ==
  ASSUME NEW x \in Scored, NEW y \in Scored, NEW z \in Scored
  PROVE  /\ ~Outranks(x, x)
         /\ Outranks(x, y) /\ Outranks(y, z) => Outranks(x, z)
         /\ x.chunk # y.chunk => Outranks(x, y) \/ Outranks(y, x)
<1>1. Chunks \subseteq Int
  BY RetrievalAssumption, FS_CardinalityType
<1> DEFINE Num(u) == u.chunk \in Int /\ u.score \in Int /\ u.best \in Int
<1>2. Num(x) /\ Num(y) /\ Num(z)
  BY <1>1 DEF Scored
<1> QED BY <1>2 DEF Outranks

\* The fusion of three lists of chunks is a list of chunks.
LEMMA FusionTyped ==
  ASSUME NEW u \in Seq(Chunks), NEW v \in Seq(Chunks), NEW w \in Seq(Chunks)
  PROVE  reciprocal_rank_fusion(<<u, v, w>>) \in Seq(Chunks)
<1> DEFINE legs == <<u, v, w>>
           found == UNION {Range(legs[l]) : l \in 1..3}
           in(c) == {l \in 1..3 : c \in Range(legs[l])}
           share(c, l) == IF l \in in(c) THEN Scale \div (RrfK + RankIn(legs[l], c)) ELSE 0
           entry(c) == [chunk |-> c, score |-> share(c, 1) + share(c, 2) + share(c, 3),
                        best |-> Min({RankIn(legs[l], c) : l \in in(c)})]
           S == {entry(c) : c \in found}
           ordered == [i \in 1..Cardinality(S) |->
                         CHOOSE x \in S : Cardinality({y \in S : Outranks(y, x)}) = i - 1]
<1>1. \A l \in 1..3 : legs[l] \in Seq(Chunks)
  OBVIOUS
<1>2. reciprocal_rank_fusion(legs) = [i \in DOMAIN ordered |-> ordered[i].chunk]
  BY DEF reciprocal_rank_fusion, Sorted
<1> HIDE DEF legs
<1>3. ASSUME NEW l \in 1..3, NEW c \in Range(legs[l])
      PROVE  RankIn(legs[l], c) \in Nat \ {0} /\ Scale \div (RrfK + RankIn(legs[l], c)) \in Int
  <2>1. RankIn(legs[l], c) \in Nat \ {0}
    BY <1>1, RankTyped
  <2>2. RrfK \in Nat /\ Scale \in Nat
    BY RetrievalAssumption, ScaleTyped
  <2> QED BY <2>1, <2>2
<1>4. ASSUME NEW c \in found PROVE entry(c) \in Scored
  <2>1. c \in Chunks
    <3>1. PICK l \in 1..3 : c \in Range(legs[l])
      OBVIOUS
    <3> QED BY <1>1, <3>1 DEF Range
  <2>2. \A l \in 1..3 : share(c, l) \in Int
    BY <1>3
  <2>3. Min({RankIn(legs[l], c) : l \in in(c)}) \in Int
    <3> DEFINE ranks == {RankIn(legs[l], c) : l \in in(c)}
    <3>1. ranks \subseteq Nat /\ ranks # {}
      BY <1>3
    <3> HIDE DEF ranks
    <3>2. \E m \in ranks : \A k \in ranks : m <= k
      BY <3>1, LeastNumber
    <3>3. Min(ranks) \in Nat
      BY <3>1, <3>2 DEF Min
    <3> QED BY <3>3 DEF ranks
  <2> HIDE DEF share, in, found
  <2>4. share(c, 1) + share(c, 2) + share(c, 3) \in Int
    <3>1. share(c, 1) \in Int /\ share(c, 2) \in Int /\ share(c, 3) \in Int
      BY <2>2
    <3> QED BY <3>1
  <2> QED BY <2>1, <2>3, <2>4 DEF Scored
<1>5. found \subseteq Chunks
  BY <1>4 DEF Scored
<1>6. IsFiniteSet(found)
  <2> HIDE DEF found
  <2> QED BY <1>5, FS_Subset, RetrievalAssumption
<1>7. \A c \in found : entry(c).chunk = c
  OBVIOUS
<1> HIDE DEF found, entry
<1>8. IsFiniteSet(S)
  <2> DEFINE f == [c \in found |-> entry(c)]
  <2>1. f \in [found -> S] /\ \A x \in S : \E c \in found : f[c] = x
    OBVIOUS
  <2> HIDE DEF f, S
  <2> QED BY <1>6, <2>1, FiniteImage
<1>9. S \subseteq Scored /\ \A x, y \in S : x.chunk = y.chunk => x = y
  BY <1>4, <1>7
<1> HIDE DEF S
<1> DEFINE R == {p \in S \X S : Outranks(p[1], p[2])}
<1>10. \A x, y \in S : <<x, y>> \in R <=> Outranks(x, y)
  OBVIOUS
<1> HIDE DEF R
<1>11. /\ \A x \in S : <<x, x>> \notin R
       /\ \A x, y, z \in S : <<x, y>> \in R /\ <<y, z>> \in R => <<x, z>> \in R
       /\ \A x, y \in S : x # y => <<x, y>> \in R \/ <<y, x>> \in R
  <2>1. \A x, y, z \in S : /\ ~Outranks(x, x)
                           /\ Outranks(x, y) /\ Outranks(y, z) => Outranks(x, z)
                           /\ x.chunk # y.chunk => Outranks(x, y) \/ Outranks(y, x)
    BY <1>9, OutranksOrders
  <2> QED BY <1>9, <1>10, <2>1
<1>12. \A i \in 1..Cardinality(S) : \E x \in S : Cardinality({y \in S : <<y, x>> \in R}) = i - 1
  BY <1>8, <1>11, Ranked
<1>13. \A x \in S : {y \in S : <<y, x>> \in R} = {y \in S : Outranks(y, x)}
  BY <1>10
<1>14. \A i \in 1..Cardinality(S) : \E x \in S : Cardinality({y \in S : Outranks(y, x)}) = i - 1
  BY <1>12, <1>13
<1>15. \A i \in 1..Cardinality(S) : ordered[i] \in S
  BY <1>14
<1>16. Cardinality(S) \in Nat /\ DOMAIN ordered = 1..Cardinality(S)
  BY <1>8, FS_CardinalityType
<1> HIDE DEF ordered
<1>17. \A i \in DOMAIN ordered : ordered[i].chunk \in Chunks
  BY <1>9, <1>15, <1>16 DEF Scored
<1>18. [i \in DOMAIN ordered |-> ordered[i].chunk] \in Seq(Chunks)
  BY <1>16, <1>17
<1> QED BY <1>2, <1>18 DEF legs

-----------------------------------------------------------------------------
\* The graph leg (expand.py).

Neighbors == [clause : Clauses, kinds : SUBSET Kinds, seeds : Int, weight : Int]

\* At most one record of a clause.
OneRecord(found) == \A x, y \in found : x.clause = y.clause => x = y

LEMMA ClausesTyped ==
  /\ Clauses \subseteq Nat /\ IsFiniteSet(Clauses)
  /\ \A c \in Chunks : ClauseOf[c] \in Clauses
<1>1. ClauseOf \in [Chunks -> Nat] /\ IsFiniteSet(Chunks)
  BY RetrievalAssumption
<1>2. ClauseOf \in [Chunks -> Clauses] /\ \A t \in Clauses : \E d \in Chunks : ClauseOf[d] = t
  BY <1>1 DEF Clauses
<1>3. IsFiniteSet(Clauses)
  <2> HIDE DEF Clauses
  <2> QED BY <1>1, <1>2, FiniteImage
<1> QED BY <1>1, <1>3 DEF Clauses

LEMMA VisitTyped ==
  ASSUME NEW seeds \in Seq(Clauses), NEW leg \in Seq(Chunks), NEW depth \in Nat \ {0}
  PROVE  Visit(seeds, leg, depth) \in Seq(Clauses)
<1>1. CASE depth > Len(leg)
  BY <1>1 DEF Visit
<1>2. CASE ~(depth > Len(leg))
  <2>1. leg[depth] \in Chunks
    BY <1>2
  <2>2. ClauseOf[leg[depth]] \in Clauses
    BY <2>1, ClausesTyped
  <2>3. Append(seeds, ClauseOf[leg[depth]]) \in Seq(Clauses)
    BY <2>2
  <2> QED BY <2>3 DEF Visit
<1> QED BY <1>1, <1>2

\* The seeds are clauses the two legs found.
LEMMA SeedsTyped ==
  ASSUME NEW u \in Seq(Chunks), NEW v \in Seq(Chunks)
  PROVE  seed_clause_ids(<<u, v>>) \in Seq(Clauses)
<1> DEFINE legs == <<u, v>>
           k == 2 * Candidates
           leg(i) == legs[((i - 1) % 2) + 1]
           depth(i) == ((i - 1) \div 2) + 1
           Solves(f) == f = [i \in 0..k |-> IF i = 0 THEN <<>> ELSE Visit(f[i - 1], leg(i), depth(i))]
           step == [i \in 1..k |-> [seeds \in Seq(Clauses) |-> Visit(seeds, leg(i), depth(i))]]
<1>1. k \in Nat
  BY RetrievalAssumption
<1>2. ASSUME NEW i \in 1..k PROVE leg(i) \in Seq(Chunks) /\ depth(i) \in Nat \ {0}
  <2>1. i \in Nat \ {0}
    <3> HIDE DEF k
    <3> QED BY <1>1
  <2>2. ((i - 1) % 2) + 1 \in {1, 2} /\ depth(i) \in Nat \ {0}
    BY <2>1
  <2>3. legs[1] \in Seq(Chunks) /\ legs[2] \in Seq(Chunks)
    OBVIOUS
  <2> HIDE DEF legs
  <2> QED BY <2>2, <2>3
<1>3. seed_clause_ids(legs) = seeding(legs)[k] /\ seeding(legs) = CHOOSE f : Solves(f)
  BY DEF seed_clause_ids, seeding
<1> HIDE DEF k, leg, depth, legs
<1>4. step \in [1..k -> [Seq(Clauses) -> Seq(Clauses)]]
  BY <1>2, VisitTyped
<1>5. <<>> \in Seq(Clauses)
  OBVIOUS
<1>6. PICK f \in [0..k -> Seq(Clauses)] : f[0] = <<>> /\ \A i \in 1..k : f[i] = step[i][f[i - 1]]
  <2> DEFINE S == Seq(Clauses)
             base == <<>>
  <2>1. k \in Nat /\ base \in S /\ step \in Steps(k, S)
    BY <1>1, <1>4, <1>5 DEF Steps
  <2> HIDE DEF step, S, base
  <2>2. PICK f : Iterates(f, k, S, base, step)
    BY <2>1, Iteration
  <2> QED BY <2>2 DEF S, base, Iterates
<1>7. Solves(f)
  <2>1. ASSUME NEW i \in 1..k PROVE f[i] = Visit(f[i - 1], leg(i), depth(i))
    <3>1. f[i - 1] \in Seq(Clauses)
      BY <1>1, <1>6
    <3>2. step[i][f[i - 1]] = Visit(f[i - 1], leg(i), depth(i))
      BY <3>1
    <3>3. f[i] = step[i][f[i - 1]]
      <4> HIDE DEF step
      <4> QED BY <1>6
    <3> QED BY <3>2, <3>3
  <2>2. ASSUME NEW i \in 0..k
        PROVE  f[i] = IF i = 0 THEN <<>> ELSE Visit(f[i - 1], leg(i), depth(i))
    BY <1>1, <1>6, <2>1
  <2>3. f = [i \in 0..k |-> f[i]]
    BY <1>6
  <2> QED BY <2>2, <2>3
<1> DEFINE seeds == seeding(legs)
<1>8. Solves(seeds)
  <2> HIDE DEF Solves
  <2> QED BY <1>3, <1>7
<1> HIDE DEF seeds
<1> DEFINE Typed == {i \in 0..k : seeds[i] \in Seq(Clauses)}
<1>9. 0 \in Typed
  BY <1>1, <1>5, <1>8
<1>10. ASSUME NEW i \in 1..k, i - 1 \in Typed PROVE i \in Typed
  <2>1. seeds[i] = Visit(seeds[i - 1], leg(i), depth(i))
    BY <1>1, <1>8
  <2>2. seeds[i - 1] \in Seq(Clauses) /\ i \in 0..k
    BY <1>1, <1>10
  <2>3. Visit(seeds[i - 1], leg(i), depth(i)) \in Seq(Clauses)
    BY <1>2, <2>2, VisitTyped
  <2> QED BY <2>1, <2>2, <2>3
<1>11. 0..k \subseteq Typed
  <2> HIDE DEF Typed
  <2> QED BY <1>1, <1>9, <1>10, UpTo
<1>12. k \in 0..k
  BY <1>1
<1>13. seeding(legs)[k] \in Seq(Clauses)
  BY <1>11, <1>12 DEF seeds
<1> QED BY <1>3, <1>13 DEF legs

\* The weights of the rows add up to a number.
LEMMA WeightTyped ==
  ASSUME NEW kind \in Kinds, NEW seeds \in Seq(Clauses), NEW n \in Clauses
  PROVE  WeightFrom(kind, seeds, n) \in Int
<1> DEFINE k == Len(seeds)
           row(i) == IF n \in NeighborsOf(kind, seeds[i], seeds) THEN Bridge[kind][{seeds[i], n}] ELSE 0
           Solves(f) == f = [i \in 0..k |-> IF i = 0 THEN 0 ELSE f[i - 1] + row(i)]
           step == [i \in 1..k |-> [j \in Int |-> j + row(i)]]
           sum == CHOOSE f : Solves(f)
<1>1. WeightFrom(kind, seeds, n) = sum[k]
  BY DEF WeightFrom
<1>2. k \in Nat
  OBVIOUS
<1>3. ASSUME NEW i \in 1..k PROVE row(i) \in Int
  <2>1. seeds[i] \in Clauses
    OBVIOUS
  <2>2. Bridge[kind][{seeds[i], n}] \in Nat
    BY <2>1, RetrievalAssumption
  <2> QED BY <2>2
<1> HIDE DEF k, row, sum
<1>4. step \in [1..k -> [Int -> Int]]
  <2> SUFFICES ASSUME NEW i \in 1..k, NEW j \in Int PROVE j + row(i) \in Int
    OBVIOUS
  <2>1. row(i) \in Int
    BY <1>3
  <2> HIDE DEF step
  <2> QED BY <2>1
<1>5. PICK f \in [0..k -> Int] : f[0] = 0 /\ \A i \in 1..k : f[i] = step[i][f[i - 1]]
  <2>1. k \in Nat /\ 0 \in Int /\ step \in Steps(k, Int)
    BY <1>2, <1>4 DEF Steps
  <2> HIDE DEF step
  <2>2. PICK f : Iterates(f, k, Int, 0, step)
    BY <2>1, Iteration
  <2> QED BY <2>2 DEF Iterates
<1>6. Solves(f)
  <2>1. ASSUME NEW i \in 1..k PROVE f[i] = f[i - 1] + row(i)
    <3>1. f[i - 1] \in Int
      BY <1>2, <1>5
    <3>2. step[i][f[i - 1]] = f[i - 1] + row(i)
      BY <3>1
    <3>3. f[i] = step[i][f[i - 1]]
      <4> HIDE DEF step
      <4> QED BY <1>5
    <3> QED BY <3>2, <3>3
  <2>2. ASSUME NEW i \in 0..k PROVE f[i] = IF i = 0 THEN 0 ELSE f[i - 1] + row(i)
    BY <1>2, <1>5, <2>1
  <2>3. f = [i \in 0..k |-> f[i]]
    BY <1>5
  <2> QED BY <2>2, <2>3
<1>7. Solves(sum)
  <2> HIDE DEF Solves
  <2> QED BY <1>6 DEF sum
<1> DEFINE Typed == {i \in 0..k : sum[i] \in Int}
<1>8. 0 \in Typed
  BY <1>2, <1>7
<1>9. ASSUME NEW i \in 1..k, i - 1 \in Typed PROVE i \in Typed
  <2>1. sum[i] = sum[i - 1] + row(i)
    BY <1>2, <1>7
  <2>2. sum[i - 1] \in Int /\ row(i) \in Int /\ i \in 0..k
    BY <1>2, <1>3, <1>9
  <2>3. sum[i - 1] + row(i) \in Int
    BY <2>2
  <2> QED BY <2>1, <2>2, <2>3
<1>10. 0..k \subseteq Typed
  <2> HIDE DEF Typed
  <2> QED BY <1>2, <1>8, <1>9, UpTo
<1>11. k \in 0..k
  BY <1>2
<1> QED BY <1>1, <1>10, <1>11

LEMMA AheadOrders ==
  ASSUME NEW x \in Neighbors, NEW y \in Neighbors, NEW z \in Neighbors
  PROVE  /\ ~Ahead(x, x)
         /\ Ahead(x, y) /\ Ahead(y, z) => Ahead(x, z)
         /\ x.clause # y.clause => Ahead(x, y) \/ Ahead(y, x)
<1> DEFINE Num(u) == u.clause \in Int /\ u.seeds \in Int /\ u.weight \in Int
           Cites(u) == "cites" \in u.kinds
           Before(t, u) ==
             \/ t.weight > u.weight
             \/ t.weight = u.weight /\ t.seeds > u.seeds
             \/ t.weight = u.weight /\ t.seeds = u.seeds /\ Cites(t) /\ ~Cites(u)
             \/ t.weight = u.weight /\ t.seeds = u.seeds
                /\ (Cites(t) <=> Cites(u)) /\ t.clause < u.clause
<1>1. Num(x) /\ Num(y) /\ Num(z)
  <2>1. ASSUME NEW u \in Neighbors PROVE Num(u)
    <3>1. u.clause \in Clauses /\ u.seeds \in Int /\ u.weight \in Int
      BY DEF Neighbors
    <3>2. u.clause \in Nat
      BY <3>1, ClausesTyped
    <3> QED BY <3>1, <3>2
  <2> QED BY <2>1
<1>2. \A t, u : Ahead(t, u) <=> Before(t, u)
  BY DEF Ahead
<1> HIDE DEF Cites
<1>3. /\ ~Before(x, x)
      /\ Before(x, y) /\ Before(y, z) => Before(x, z)
      /\ x.clause # y.clause => Before(x, y) \/ Before(y, x)
  BY <1>1
<1> QED BY <1>2, <1>3

\* What one kind of link reaches: finitely many clauses, each with one record.
LEMMA RankNeighborsTyped ==
  ASSUME NEW kind \in Kinds, NEW seeds \in Seq(Clauses)
  PROVE  rank_neighbors(kind, seeds) \subseteq Neighbors /\ OneRecord(rank_neighbors(kind, seeds))
<1> DEFINE from(n) == {s \in Range(seeds) : n \in NeighborsOf(kind, s, seeds)}
           N == {m \in Clauses : from(m) # {}}
           entry(n) == [clause |-> n, kinds |-> {kind}, seeds |-> Cardinality(from(n)),
                        weight |-> WeightFrom(kind, seeds, n)]
           found == {entry(n) : n \in N}
<1>1. rank_neighbors(kind, seeds) \subseteq found
  BY DEF rank_neighbors
<1>2. ASSUME NEW n \in Clauses PROVE entry(n) \in Neighbors
  <2>1. Range(seeds) \subseteq Clauses
    BY DEF Range
  <2>2. from(n) \subseteq Clauses
    BY <2>1
  <2> HIDE DEF from
  <2>3. Cardinality(from(n)) \in Int
    BY <2>2, ClausesTyped, FS_Subset, FS_CardinalityType
  <2>4. WeightFrom(kind, seeds, n) \in Int
    BY WeightTyped
  <2> QED BY <2>3, <2>4 DEF Neighbors
<1>3. \A n : entry(n).clause = n
  OBVIOUS
<1> HIDE DEF entry
<1>4. found \subseteq Neighbors /\ OneRecord(found)
  BY <1>2, <1>3 DEF OneRecord
<1> HIDE DEF found
<1> QED BY <1>1, <1>4 DEF OneRecord

\* What the two kinds reach together.
LEMMA MergeTyped ==
  ASSUME NEW cited, NEW mentioned, cited \subseteq Neighbors, mentioned \subseteq Neighbors
  PROVE  LET merged == merge_kinds(cited, mentioned)
         IN  merged \subseteq Neighbors /\ OneRecord(merged) /\ IsFiniteSet(merged)
<1> DEFINE N == {x.clause : x \in cited \cup mentioned}
           entry(n) == Merge(Of(cited, n), Of(mentioned, n))
           merged == {entry(n) : n \in N}
<1>1. ASSUME NEW found, found \subseteq Neighbors, NEW n \in Clauses
      PROVE  Of(found, n) \in Neighbors /\ Of(found, n).clause = n
  <2>1. CASE \E x \in found : x.clause = n
    <3>1. Of(found, n) \in found /\ Of(found, n).clause = n
      BY <2>1 DEF Of
    <3> QED BY <1>1, <3>1
  <2>2. CASE ~\E x \in found : x.clause = n
    <3>1. Of(found, n) = [clause |-> n, kinds |-> {}, seeds |-> 0, weight |-> 0]
      BY <2>2 DEF Of
    <3> QED BY <3>1 DEF Neighbors
  <2> QED BY <2>1, <2>2
<1>2. ASSUME NEW x \in Neighbors, NEW y \in Neighbors
      PROVE  Merge(x, y) \in Neighbors /\ Merge(x, y).clause = x.clause
  BY DEF Merge, Neighbors
<1>3. N \subseteq Clauses
  BY DEF Neighbors
<1> HIDE DEF N
<1>4. ASSUME NEW n \in N PROVE entry(n) \in Neighbors /\ entry(n).clause = n
  <2>1. Of(cited, n) \in Neighbors /\ Of(mentioned, n) \in Neighbors /\ Of(cited, n).clause = n
    BY <1>1, <1>3
  <2> QED BY <1>2, <2>1
<1>5. merge_kinds(cited, mentioned) = merged
  BY DEF merge_kinds, N
<1> HIDE DEF entry
<1>6. merged \subseteq Neighbors /\ OneRecord(merged)
  BY <1>4 DEF OneRecord
<1>7. IsFiniteSet(merged)
  <2> DEFINE f == [n \in N |-> entry(n)]
  <2>1. f \in [N -> merged] /\ \A t \in merged : \E n \in N : f[n] = t
    OBVIOUS
  <2>2. IsFiniteSet(N)
    BY <1>3, ClausesTyped, FS_Subset
  <2> HIDE DEF f, merged
  <2> QED BY <2>1, <2>2, FiniteImage
<1> QED BY <1>5, <1>6, <1>7

\* A clause is shown by one of its chunks.
LEMMA FirstChunkTyped ==
  ASSUME NEW n \in Clauses
  PROVE  FirstChunk(n) \in Chunks
<1> DEFINE own == {c \in Chunks : ClauseOf[c] = n}
<1>1. own # {}
  BY DEF Clauses
<1>2. own \subseteq Nat
  BY RetrievalAssumption, FS_CardinalityType
<1>3. \E c \in own : \A e \in own : c <= e
  <2> HIDE DEF own
  <2> QED BY <1>1, <1>2, LeastNumber
<1>4. \E c \in Chunks : ClauseOf[c] = n /\ \A e \in Chunks : ClauseOf[e] = n => c <= e
  BY <1>3
<1> QED BY <1>4 DEF FirstChunk

\* The graph leg ranks chunks.
LEMMA ExpandTyped ==
  ASSUME NEW seeds \in Seq(Clauses)
  PROVE  expand(seeds) \in Seq(Chunks)
<1> DEFINE S == merge_kinds(rank_neighbors("cites", seeds), rank_neighbors("mentions", seeds))
           nth(i) == CHOOSE x \in S : Cardinality({y \in S : Ahead(y, x)}) = i - 1
           ordered == [i \in 1..Cardinality(S) |-> nth(i)]
           best == First(ordered, MaxResults)
<1>1. expand(seeds) = [i \in DOMAIN best |-> FirstChunk(best[i].clause)]
  BY DEF expand, Sorted
<1>2. S \subseteq Neighbors /\ OneRecord(S) /\ IsFiniteSet(S)
  <2>1. "cites" \in Kinds /\ "mentions" \in Kinds
    BY DEF Kinds
  <2>2. /\ rank_neighbors("cites", seeds) \subseteq Neighbors
        /\ rank_neighbors("mentions", seeds) \subseteq Neighbors
    BY <2>1, RankNeighborsTyped
  <2> QED BY <2>2, MergeTyped
<1> HIDE DEF S
<1> DEFINE R == {p \in S \X S : Ahead(p[1], p[2])}
<1>3. \A x, y \in S : <<x, y>> \in R <=> Ahead(x, y)
  OBVIOUS
<1> HIDE DEF R
<1>4. /\ \A x \in S : <<x, x>> \notin R
      /\ \A x, y, z \in S : <<x, y>> \in R /\ <<y, z>> \in R => <<x, z>> \in R
      /\ \A x, y \in S : x # y => <<x, y>> \in R \/ <<y, x>> \in R
  <2>1. \A x, y, z \in S : /\ ~Ahead(x, x)
                           /\ Ahead(x, y) /\ Ahead(y, z) => Ahead(x, z)
                           /\ x.clause # y.clause => Ahead(x, y) \/ Ahead(y, x)
    BY <1>2, AheadOrders
  <2> QED BY <1>2, <1>3, <2>1 DEF OneRecord
<1>5. \A i \in 1..Cardinality(S) : \E x \in S : Cardinality({y \in S : <<y, x>> \in R}) = i - 1
  BY <1>2, <1>4, Ranked
<1>6. \A x \in S : {y \in S : <<y, x>> \in R} = {y \in S : Ahead(y, x)}
  BY <1>3
<1>7. \A i \in 1..Cardinality(S) : \E x \in S : Cardinality({y \in S : Ahead(y, x)}) = i - 1
  BY <1>5, <1>6
<1>8. \A i \in 1..Cardinality(S) : nth(i) \in S
  BY <1>7
<1>9. Cardinality(S) \in Nat
  BY <1>2, FS_CardinalityType
<1> HIDE DEF nth
<1>10. ordered \in Seq(S)
  BY <1>8, <1>9
<1> HIDE DEF ordered
<1>11. MaxResults \in Nat
  <2>1. MaxNeighbors \in Nat /\ PrefusionTop \in Nat
    BY RetrievalAssumption
  <2> QED BY <2>1, MinOfTwo DEF MaxResults
<1>12. best \in Seq(S)
  BY <1>10, <1>11, FirstOf
<1> HIDE DEF best
<1>13. \A i \in DOMAIN best : best[i].clause \in Clauses
  BY <1>2, <1>12 DEF Neighbors
<1>14. \A i \in DOMAIN best : FirstChunk(best[i].clause) \in Chunks
  BY <1>13, FirstChunkTyped
<1>15. [i \in DOMAIN best |-> FirstChunk(best[i].clause)] \in Seq(Chunks)
  BY <1>12, <1>14
<1> QED BY <1>1, <1>15

-----------------------------------------------------------------------------
\* The query.

Screened == cap_per_document(collapse_by_parent(Fused), Limit)

Inv ==
    /\ vec_hits \in Seq(Chunks) /\ bm_hits \in Seq(Chunks) /\ graph_hits \in Seq(Chunks)
    /\ pc # "answered" => answer = <<>>
    /\ pc = "rerank" => /\ Fused # <<>>
                        /\ pool = Screened.kept /\ overflow = Screened.overflow
    /\ EvidenceDistinct

LEMMA LimitTyped == Limit \in Nat /\ Limit > 0
BY RetrievalAssumption DEF Limit

LEMMA RankingsTyped == Rankings \subseteq Seq(Chunks)
<1> SUFFICES ASSUME NEW s \in Rankings PROVE s \in Seq(Chunks)
  OBVIOUS
<1>1. PICK n \in 0..Candidates : s \in [1..n -> Chunks]
  BY DEF Rankings
<1>2. n \in Nat
  BY RetrievalAssumption
<1> QED BY <1>1, <1>2

\* What the screen makes of lists of chunks.
LEMMA ScreenedTyped ==
  ASSUME Inv
  PROVE  /\ Fused \in Seq(Chunks)
         /\ collapse_by_parent(Fused) \in Seq(Chunks) /\ OneEach(collapse_by_parent(Fused))
         /\ Fused # <<>> => collapse_by_parent(Fused) # <<>> /\ collapse_by_parent(Fused)[1] = Fused[1]
<1>1. Fused \in Seq(Chunks)
  BY FusionTyped DEF Inv, Fused
<1> QED BY <1>1, Collapsed

LEMMA InvInit == Init => Inv
<1> SUFFICES ASSUME Init PROVE Inv
  OBVIOUS
<1>1. vec_hits \in Seq(Chunks) /\ bm_hits \in Seq(Chunks) /\ graph_hits \in Seq(Chunks)
  BY DEF Init
<1>2. EvidenceDistinct
  BY DEF Init, EvidenceDistinct
<1> QED BY <1>1, <1>2 DEF Init, Inv

\* The reranked pool, cut, and what the quota set aside.
LEMMA AnswerDistinct ==
  ASSUME NEW t \in Seq(Chunks), NEW u \in Seq(Chunks), OneEach(t \o u),
         NEW order \in SetToSeqs(Range(t))
  PROVE  OneEach(First(order, TopK) \o u)
<1> DEFINE n == Cardinality(Range(t))
           top == First(order, TopK)
           all == t \o u
           shown == top \o u
<1>1. IsFiniteSet(Range(t)) /\ n \in Nat
  <2> DEFINE k == Len(t)
             T == Range(t)
  <2>1. k \in Nat /\ DOMAIN t = 1..k /\ t = [i \in 1..k |-> t[i]]
    OBVIOUS
  <2>2. \A i \in 1..k : t[i] \in T
    BY <2>1 DEF Range
  <2>3. \A c \in T : \E i \in 1..k : t[i] = c
    BY <2>1 DEF Range
  <2> HIDE DEF k, T
  <2>4. IsFiniteSet(1..k)
    <3>1. k \in Int
      BY <2>1
    <3> QED BY ONLY <3>1, FS_Interval
  <2>5. t \in [1..k -> T]
    BY <2>1, <2>2
  <2>6. IsFiniteSet(T)
    <3>1. t \in Surjection(1..k, T)
      BY <2>3, <2>5 DEF Surjection
    <3> QED BY ONLY <2>4, <3>1, FS_Surjection
  <2> QED BY <2>6, FS_CardinalityType DEF T
<1>2. /\ order \in [1..n -> Range(t)]
      /\ \A i, j \in 1..n : i # j => order[i] # order[j]
  BY DEF SetToSeqs
<1> HIDE DEF n
<1>3. order \in Seq(Range(t)) /\ Len(order) = n
  BY <1>1, <1>2
<1>4. TopK \in Nat
  BY RetrievalAssumption
<1>5. /\ top \in Seq(Range(t))
      /\ \A i \in 1..Len(top) : i \in 1..n /\ top[i] = order[i]
  BY <1>3, <1>4, FirstOf
<1>6. Range(t) \subseteq Chunks
  BY DEF Range
<1> HIDE DEF top
<1>7. top \in Seq(Chunks)
  BY <1>5, <1>6
<1> DEFINE nt == Len(t)
           nu == Len(u)
           k == Len(top)
<1>8. /\ nt \in Nat /\ nu \in Nat /\ DOMAIN t = 1..nt /\ DOMAIN all = 1..(nt + nu)
      /\ \A i \in 1..nt : all[i] = t[i]
      /\ \A i \in 1..nu : all[nt + i] = u[i]
  BY Joined
<1>9. /\ k \in Nat /\ DOMAIN shown = 1..(k + nu)
      /\ \A i \in 1..k : shown[i] = top[i]
      /\ \A i \in 1..nu : shown[k + i] = u[i]
  BY <1>7, Joined
<1>10. OneEach(all)
  OBVIOUS
<1> HIDE DEF all, shown, nt, nu, k
<1>11. ASSUME NEW i \in 1..k
       PROVE  \E x \in 1..nt : all[x] = top[i]
  <2>1. top[i] \in Range(t)
    BY <1>5 DEF k
  <2> QED BY <1>8, <2>1 DEF Range
<1>12. ASSUME NEW i \in 1..k, NEW j \in 1..k, ClauseOf[top[i]] = ClauseOf[top[j]]
       PROVE  i = j
  <2>1. PICK x \in 1..nt : all[x] = top[i]
    BY <1>11
  <2>2. PICK y \in 1..nt : all[y] = top[j]
    BY <1>11
  <2>3. x \in DOMAIN all /\ y \in DOMAIN all
    BY <1>8
  <2>4. x = y
    BY <1>10, <1>12, <2>1, <2>2, <2>3 DEF OneEach
  <2> QED BY <1>2, <1>5, <2>1, <2>2, <2>4 DEF k
<1>13. ASSUME NEW i \in 1..k, NEW j \in 1..nu PROVE ClauseOf[top[i]] # ClauseOf[u[j]]
  <2>1. PICK x \in 1..nt : all[x] = top[i]
    BY <1>11
  <2>2. x \in DOMAIN all /\ nt + j \in DOMAIN all /\ x # nt + j /\ all[nt + j] = u[j]
    BY <1>8
  <2> QED BY <1>10, <2>1, <2>2 DEF OneEach
<1>14. ASSUME NEW i \in 1..nu, NEW j \in 1..nu, ClauseOf[u[i]] = ClauseOf[u[j]]
       PROVE  i = j
  <2>1. nt + i \in DOMAIN all /\ nt + j \in DOMAIN all /\ all[nt + i] = u[i] /\ all[nt + j] = u[j]
    BY <1>8
  <2>2. nt + i = nt + j
    BY <1>10, <1>14, <2>1 DEF OneEach
  <2> QED BY <1>8, <2>2
<1>15. ASSUME NEW i \in DOMAIN shown
       PROVE  \/ i \in 1..k /\ shown[i] = top[i]
              \/ i - k \in 1..nu /\ shown[i] = u[i - k] /\ i > k
  <2>1. i \in 1..(k + nu)
    BY <1>9
  <2>2. CASE i <= k
    BY <1>8, <1>9, <2>1, <2>2
  <2>3. CASE i > k
    <3>1. i - k \in 1..nu /\ k + (i - k) = i
      BY <1>8, <1>9, <2>1, <2>3
    <3>2. shown[k + (i - k)] = u[i - k]
      BY <1>9, <3>1
    <3> QED BY <2>3, <3>1, <3>2
  <2> QED BY <1>8, <1>9, <2>1, <2>2, <2>3
<1>16. ASSUME NEW i \in DOMAIN shown, NEW j \in DOMAIN shown, ClauseOf[shown[i]] = ClauseOf[shown[j]]
       PROVE  i = j
  <2>1. CASE i \in 1..k /\ shown[i] = top[i] /\ j \in 1..k /\ shown[j] = top[j]
    BY <1>12, <1>16, <2>1
  <2>2. CASE i \in 1..k /\ shown[i] = top[i] /\ j - k \in 1..nu /\ shown[j] = u[j - k]
    BY <1>13, <1>16, <2>2
  <2>3. CASE j \in 1..k /\ shown[j] = top[j] /\ i - k \in 1..nu /\ shown[i] = u[i - k]
    BY <1>13, <1>16, <2>3
  <2>4. CASE i - k \in 1..nu /\ shown[i] = u[i - k] /\ j - k \in 1..nu /\ shown[j] = u[j - k]
    <3>1. i - k = j - k
      BY <1>14, <1>16, <2>4
    <3>2. i \in Int /\ j \in Int
      BY <1>8, <1>9
    <3> QED BY <1>9, <3>1, <3>2
  <2> QED BY <1>15, <2>1, <2>2, <2>3, <2>4
<1> QED BY <1>16 DEF OneEach, shown, top

\* Each step keeps the invariant.
LEMMA InvStep == Inv /\ [Next]_vars => Inv'
<1> SUFFICES ASSUME Inv, [Next]_vars PROVE Inv'
  OBVIOUS
<1>1. CASE VectorLeg
  <2>1. vec_hits' \in Seq(Chunks)
    BY <1>1, RankingsTyped DEF VectorLeg
  <2> QED BY <1>1, <2>1 DEF VectorLeg, Inv, EvidenceDistinct
<1>2. CASE VectorFails
  BY <1>2 DEF VectorFails, Inv, EvidenceDistinct
<1>3. CASE KeywordLeg
  <2>1. bm_hits' \in Seq(Chunks)
    BY <1>3, RankingsTyped DEF KeywordLeg
  <2> QED BY <1>3, <2>1 DEF KeywordLeg, Inv, EvidenceDistinct
<1>4. CASE GraphLeg
  <2>1. graph_hits' \in Seq(Chunks)
    <3>1. expand(seed_clause_ids(<<vec_hits, bm_hits>>)) \in Seq(Chunks)
      BY SeedsTyped, ExpandTyped DEF Inv
    <3>2. <<>> \in Seq(Chunks)
      OBVIOUS
    <3> QED BY <1>4, <3>1, <3>2 DEF GraphLeg
  <2> QED BY <1>4, <2>1 DEF GraphLeg, Inv, EvidenceDistinct
<1>5. CASE GraphFails
  BY <1>5 DEF GraphFails, Inv, EvidenceDistinct
<1>6. CASE Screen
  <2>1. Fused' = Fused /\ Screened' = Screened
    BY <1>6 DEF Screen, Fused, Screened
  <2>2. pool' = Screened.kept /\ overflow' = Screened.overflow
    BY <1>6 DEF Screen, Screened
  <2>3. pc' = "rerank" => Fused # <<>>
    BY <1>6 DEF Screen
  <2> QED BY <1>6, <2>1, <2>2, <2>3 DEF Screen, Inv, EvidenceDistinct
<1>7. CASE Rerank
  <2>1. pool = Screened.kept /\ overflow = Screened.overflow
    BY <1>7 DEF Rerank, Inv
  <2>2. /\ Screened.kept \in Seq(Chunks) /\ Screened.overflow \in Seq(Chunks)
        /\ OneEach(Screened.kept \o Screened.overflow)
    BY ScreenedTyped, LimitTyped, Capped DEF Screened
  <2>3. PICK order \in SetToSeqs(Range(pool)) : answer' = First(order, TopK) \o overflow
    BY <1>7 DEF Rerank
  <2>4. OneEach(answer')
    BY <2>1, <2>2, <2>3, AnswerDistinct
  <2>5. EvidenceDistinct'
    BY <2>4 DEF EvidenceDistinct, OneEach
  <2> QED BY <1>7, <2>5 DEF Rerank, Inv
<1>8. CASE RerankFails
  BY <1>8 DEF RerankFails, Inv, EvidenceDistinct
<1>9. CASE UNCHANGED vars
  BY <1>9 DEF vars, Inv, EvidenceDistinct, Fused, Screened
<1> QED BY <1>1, <1>2, <1>3, <1>4, <1>5, <1>6, <1>7, <1>8, <1>9 DEF Next

LEMMA Invariant == Spec => []Inv
BY InvInit, InvStep, PTL DEF Spec

\* No clause is evidence twice in the answer to a query.
THEOREM EvidenceStaysDistinct == Spec => []EvidenceDistinct
<1>1. Inv => EvidenceDistinct
  BY DEF Inv
<1> QED BY <1>1, Invariant, PTL

\* The pool is as full and as diverse as the quota promises, and what is set
\* aside lost to the quota alone.
THEOREM PoolStaysDiverse == Spec => []PoolDiverse
<1>1. ASSUME Inv PROVE PoolDiverse
  <2> SUFFICES ASSUME pc = "rerank"
               PROVE  LET thinned == collapse_by_parent(Fused)
                          out == {c \in Range(thinned) : c \notin Range(pool)}
                          full(c) == OfDocument(pool, c) >= MaxPerDocument
                      IN  /\ Len(pool) = Min({Limit, Len(thinned)})
                          /\ pool[1] = Fused[1]
                          /\ (\E c \in Range(pool) : OfDocument(pool, c) > MaxPerDocument) =>
                                \A c \in out : full(c)
                          /\ Range(overflow) \subseteq {c \in out : full(c)}
    BY DEF PoolDiverse
  <2> DEFINE thinned == collapse_by_parent(Fused)
             cut == cap_per_document(thinned, Limit)
  <2>1. pool = cut.kept /\ overflow = cut.overflow /\ Fused # <<>>
    BY <1>1 DEF Inv, Screened
  <2>2. thinned \in Seq(Chunks) /\ OneEach(thinned) /\ thinned # <<>> /\ thinned[1] = Fused[1]
    BY <1>1, <2>1, ScreenedTyped
  <2>3. Limit \in Nat /\ Limit > 0
    BY LimitTyped
  <2> HIDE DEF thinned
  <2>4. /\ Len(cut.kept) = Min({Limit, Len(thinned)})
        /\ cut.kept[1] = thinned[1]
        /\ (\E c \in Range(cut.kept) : OfDocument(cut.kept, c) > MaxPerDocument)
              => \A c \in {e \in Range(thinned) : e \notin Range(cut.kept)} :
                    OfDocument(cut.kept, c) >= MaxPerDocument
        /\ Range(cut.overflow) \subseteq
              {c \in {e \in Range(thinned) : e \notin Range(cut.kept)} :
                 OfDocument(cut.kept, c) >= MaxPerDocument}
    BY <2>2, <2>3, Capped
  <2> HIDE DEF cut
  <2> QED BY <2>1, <2>2, <2>4 DEF thinned
<1> QED BY <1>1, Invariant, PTL
=============================================================================

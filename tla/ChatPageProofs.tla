---------------------------- MODULE ChatPageProofs ----------------------------
(***************************************************************************)
(* Proofs about ChatPage for any conversations, any number of turns, pieces*)
(* and user actions, and whether or not the socket closes.                 *)
(***************************************************************************)
EXTENDS ChatPage, SequenceTheorems, FiniteSetTheorems, WellFoundedInduction, TLAPS

-------------------------------------------------------------------------------
(* Sequences: filter and flatten.  There is no induction over sequences to *)
(* cite, so both go by the least number at which the claim would fail.     *)

\* Every set of numbers has a least one.
LEMMA LeastNatural ==
  ASSUME NEW T \in SUBSET Nat, T # {}
  PROVE  \E x \in T : \A y \in T : x <= y
<1> DEFINE R == {ss \in Nat \X Nat : ss[1] < ss[2]}
<1>1. IsWellFoundedOn(R, Nat)
  BY NatLessThanWellFounded DEF OpToRel
<1>2. \A x, y \in Nat : <<y, x>> \in R <=> y < x
  OBVIOUS
<1> HIDE DEF R
<1>3. PICK x \in T : \A y \in T : ~ (<<y, x>> \in R)
  BY <1>1, WFMin
<1>4. \A y \in T : x <= y
  <2> TAKE y \in T
  <2>1. x \in Nat /\ y \in Nat
    OBVIOUS
  <2>2. ~ (y < x)
    BY <1>2, <1>3, <2>1
  <2> QED
    BY <2>1, <2>2
<1> QED
  BY <1>4

\* ... and a set of positions has a last one.
LEMMA LastPlace ==
  ASSUME NEW m \in Nat, NEW I \in SUBSET (1..m), I # {}
  PROVE  \E i \in I : \A j \in I : j <= i
<1> DEFINE T == {n \in Nat : \E i \in I : n = m - i}
<1>1. PICK i \in I : TRUE
  OBVIOUS
<1>2. m - i \in T
  BY <1>1
<1>3. PICK n \in T : \A k \in T : n <= k
  BY <1>2, LeastNatural
<1>4. PICK l \in I : n = m - l
  BY <1>3
<1>5. \A j \in I : j <= l
  <2> TAKE j \in I
  <2>1. m - j \in T
    OBVIOUS
  <2>2. m - l <= m - j
    BY <1>3, <1>4, <2>1
  <2> QED
    BY <2>2
<1> QED
  BY <1>5

LEMMA FiniteIndices ==
  ASSUME NEW m \in Nat, NEW I \in SUBSET (1..m)
  PROVE  IsFiniteSet(I) /\ Cardinality(I) \in Nat
<1>1. IsFiniteSet(1..m)
  BY FS_Interval
<1>2. IsFiniteSet(I)
  BY <1>1, FS_Subset
<1> QED
  BY <1>2, FS_CardinalityType

UpTo(I, i) == {j \in I : j <= i}

\* The n-th position is one of the positions.
LEMMA NthIsOne ==
  ASSUME NEW m \in Nat, NEW I \in SUBSET (1..m), NEW n \in 1..Cardinality(I)
  PROVE  Nth(I, n) \in I
<1> DEFINE T == {i \in Nat : Cardinality(UpTo(I, i)) >= n}
<1>1. IsFiniteSet(I) /\ Cardinality(I) \in Nat
  BY FiniteIndices
<1>2. \A i \in Nat : UpTo(I, i) \in SUBSET (1..m)
  BY DEF UpTo
<1>3. \A i \in Nat : IsFiniteSet(UpTo(I, i)) /\ Cardinality(UpTo(I, i)) \in Nat
  BY <1>2, FiniteIndices
<1> \A j \in I : j \in Nat /\ 1 <= j /\ j <= m
  OBVIOUS
<1>4. UpTo(I, m) = I
  BY DEF UpTo
<1>5. m \in T
  BY <1>1, <1>4
<1>6. PICK i \in T : \A j \in T : i <= j
  BY <1>5, LeastNatural
<1>7. i \in Nat /\ Cardinality(UpTo(I, i)) >= n /\ n \in Nat /\ n # 0
  BY <1>1
<1>8. i # 0
  <2>1. \A j \in I : ~ (j <= 0)
    OBVIOUS
  <2>2. UpTo(I, 0) = {}
    BY <2>1 DEF UpTo
  <2> QED
    BY <2>2, <1>7, FS_EmptySet
<1>9. i - 1 \in Nat /\ ~ (Cardinality(UpTo(I, i-1)) >= n)
  <2>1. i - 1 \in Nat /\ ~ (i <= i - 1)
    BY <1>7, <1>8
  <2> QED
    BY <1>6, <2>1
<1>10. UpTo(I, i) = IF i \in I THEN UpTo(I, i-1) \cup {i} ELSE UpTo(I, i-1)
  <2>1. \A j \in I : j <= i <=> j <= i - 1 \/ j = i
    BY <1>7, <1>9
  <2> QED
    BY <2>1, <1>7, <1>9 DEF UpTo
<1>11. i \in I
  BY <1>7, <1>9, <1>10
<1>12. Cardinality(UpTo(I, i)) <= Cardinality(UpTo(I, i-1)) + 1
  <2>1. i \notin UpTo(I, i-1)
    BY <1>7 DEF UpTo
  <2>2. Cardinality(UpTo(I, i-1) \cup {i}) = Cardinality(UpTo(I, i-1)) + 1
    BY <2>1, <1>3, <1>9, FS_AddElement
  <2> QED
    BY <2>2, <1>3, <1>7, <1>9, <1>10, <1>11
<1>13. Cardinality(UpTo(I, i)) = n
  BY <1>3, <1>7, <1>9, <1>12
<1> QED
  BY <1>11, <1>13 DEF Nth, UpTo

LEMMA FilteredIn ==
  ASSUME NEW S, NEW s \in Seq(S), NEW I \in SUBSET DOMAIN s
  PROVE  /\ Filtered(s, I) \in Seq({s[i] : i \in I})
         /\ Filtered(s, I) \in Seq(S)
         /\ \A n \in DOMAIN Filtered(s, I) : \E i \in I : Filtered(s, I)[n] = s[i]
<1>1. Cardinality(I) \in Nat /\ I \in SUBSET (1..Len(s)) /\ Len(s) \in Nat
  <2>1. Len(s) \in Nat /\ DOMAIN s = 1..Len(s)
    BY LenProperties
  <2>2. IsFiniteSet(1..Len(s))
    BY <2>1, FS_Interval
  <2>3. IsFiniteSet(I)
    BY <2>1, <2>2, FS_Subset
  <2> QED
    BY <2>1, <2>3, FS_CardinalityType
<1>2. \A n \in 1..Cardinality(I) : Nth(I, n) \in I
  BY <1>1, NthIsOne
<1>3. DOMAIN Filtered(s, I) = 1..Cardinality(I)
  BY DEF Filtered
<1>4. \A n \in 1..Cardinality(I) : Filtered(s, I)[n] = s[Nth(I, n)]
  BY DEF Filtered
<1>5. Filtered(s, I) \in [1..Cardinality(I) -> {s[i] : i \in I}]
  BY <1>2 DEF Filtered
<1>6. \A i \in I : s[i] \in S
  BY <1>1
<1>7. {s[i] : i \in I} \in SUBSET S
  BY <1>6
<1>8. Filtered(s, I) \in Seq({s[i] : i \in I})
  BY <1>5, <1>1, IsASeq DEF Filtered
<1> QED
  BY <1>1, <1>2, <1>3, <1>4, <1>7, <1>8, SeqMonotonic

\* The function FlattenSeq builds, up to the place n.
Concats(ss, n, f) == f = [i \in 1..n |-> IF i = 1 THEN ss[i] ELSE f[i-1] \o ss[i]]

LEMMA ConcatsExist ==
  ASSUME NEW ss, NEW m \in Nat
  PROVE  \E f : Concats(ss, m, f)
<1> DEFINE T == {n \in Nat : ~ \E f : Concats(ss, n, f)}
<1>1. SUFFICES ASSUME T # {} PROVE FALSE
  OBVIOUS
<1>2. PICK n \in T : \A k \in T : n <= k
  BY <1>1, LeastNatural
<1>3. n # 0
  <2>1. Concats(ss, 0, [i \in 1..0 |-> IF i = 1 THEN ss[i] ELSE <<>> \o ss[i]])
    BY DEF Concats
  <2> QED
    BY <2>1
<1>4. n - 1 \in Nat /\ n - 1 \notin T /\ n \in Nat
  BY <1>2, <1>3
<1>5. PICK f : Concats(ss, n - 1, f)
  BY <1>4
<1> DEFINE g == [i \in 1..n |-> IF i = 1 THEN ss[i] ELSE f[i-1] \o ss[i]]
<1>6. ASSUME NEW i \in 1..(n-1) PROVE g[i] = f[i]
  <2>1. f[i] = IF i = 1 THEN ss[i] ELSE f[i-1] \o ss[i]
    BY <1>5, <1>4 DEF Concats
  <2> QED
    BY <2>1, <1>4
<1>7. ASSUME NEW i \in 1..n, i # 1 PROVE g[i-1] = f[i-1]
  <2>1. i - 1 \in 1..(n-1)
    BY <1>7, <1>4
  <2> HIDE DEF g
  <2> QED
    BY <2>1, <1>6
<1>8. [i \in 1..n |-> IF i = 1 THEN ss[i] ELSE f[i-1] \o ss[i]]
      = [i \in 1..n |-> IF i = 1 THEN ss[i] ELSE g[i-1] \o ss[i]]
  <2> HIDE DEF g
  <2> QED
    BY <1>7
<1>9. Concats(ss, n, g)
  BY <1>8 DEF Concats
<1> QED
  BY <1>2, <1>9

LEMMA FlattenIsSeq ==
  ASSUME NEW S, NEW ss \in Seq(Seq(S))
  PROVE  FlattenSeq(ss) \in Seq(S)
<1> DEFINE flatten == CHOOSE f : Concats(ss, Len(ss), f)
           W == {n \in Nat : n \in 1..Len(ss) /\ flatten[n] \notin Seq(S)}
<1>1. Len(ss) \in Nat
  BY LenProperties
<1>2. Concats(ss, Len(ss), flatten)
  BY <1>1, ConcatsExist
<1>3. Len(ss) # 0 => FlattenSeq(ss) = flatten[Len(ss)]
  BY DEF FlattenSeq, Concats
<1> HIDE DEF flatten
<1>4. \A i \in 1..Len(ss) : flatten[i] = IF i = 1 THEN ss[i] ELSE flatten[i-1] \o ss[i]
  BY <1>2 DEF Concats
<1>5. W = {}
  <2>1. SUFFICES ASSUME W # {} PROVE FALSE
    OBVIOUS
  <2>2. PICK n \in W : \A k \in W : n <= k
    BY <2>1, LeastNatural
  <2>3. n \in 1..Len(ss) /\ ss[n] \in Seq(S)
    BY <2>2
  <2>4. n # 1
    BY <2>2, <2>3, <1>4
  <2>5. n - 1 \in 1..Len(ss) /\ n - 1 \in Nat /\ n - 1 \notin W
    BY <2>2, <2>3, <2>4, <1>1
  <2>6. flatten[n-1] \in Seq(S)
    BY <2>5
  <2>7. flatten[n] = flatten[n-1] \o ss[n]
    BY <1>4, <2>3, <2>4
  <2>8. flatten[n] \in Seq(S)
    BY <2>3, <2>6, <2>7, ConcatProperties
  <2> QED
    BY <2>2, <2>8
<1>6. CASE Len(ss) = 0
  <2>1. ss = <<>>
    BY <1>6, EmptySeq
  <2> QED
    BY <2>1, <1>6 DEF FlattenSeq
<1>7. CASE Len(ss) # 0
  BY <1>1, <1>3, <1>5, <1>7
<1> QED
  BY <1>6, <1>7
-------------------------------------------------------------------------------
(* The bubbles of one conversation. *)

Bubbles(S) == Seq(Bubble(S))

\* A running answer is the last bubble.
LastRuns(bs) == \A i \in RunningIn(bs) : i = Len(bs)

\* A text that goes on with a piece of X, or is told anew by the journal from Y.
GoesOn(old, text, X, Y) ==
  \/ text = old
  \/ \E x \in X : text = Append(old, x)
  \/ text \in Seq(Y)

\* What one step may do to the bubbles of a conversation: bubbles are appended, the
\* running one goes on or ends, an empty one is taken back, and the text of a
\* restored answer may grow (r).
Moves(bs, new, X, Y, r) ==
  \/ new = bs
  \/ /\ RunningIn(bs) # {}
     /\ \E s \in {"running", "done", "error"}, text \in Seq(Piece \cup {StatusNote}) :
          /\ GoesOn(bs[Len(bs)].text, text, X, Y)
          /\ new = [bs EXCEPT ![Len(bs)] = [@ EXCEPT !.status = s, !.text = text]]
  \/ /\ RunningIn(bs) # {}
     /\ bs[Len(bs)].text = <<>>
     /\ new = SubSeq(bs, 1, Len(bs) - 1)
  \/ /\ RunningIn(bs) = {}
     /\ \E t \in Turn : new = Append(Append(bs, User(t)), Answer(<<>>, "running"))
  \/ /\ RunningIn(bs) = {}
     /\ \E s \in {"running", "done"}, text \in Seq(Piece \cup {StatusNote}) :
          /\ GoesOn(<<>>, text, X, Y)
          /\ new = Append(bs, Answer(text, s))
  \/ /\ RunningIn(bs) = {} /\ r
     /\ \E i \in DOMAIN bs, text \in Seq(Y) :
          /\ bs[i].status = "done" /\ Len(text) > Len(bs[i].text)
          /\ new = [bs EXCEPT ![i].text = text]

\* What ended in bs is in new, at its place.
Stands(bs, new, r) ==
  \A i \in DOMAIN bs : bs[i].status # "running" =>
    /\ i \in DOMAIN new
    /\ \/ new[i] = bs[i]
       \/ /\ new[i] = [bs[i] EXCEPT !.text = new[i].text] /\ bs[i].status = "done"
          /\ r /\ Len(new[i].text) > Len(bs[i].text)

LEMMA RunsLast ==
  ASSUME NEW S, NEW bs \in Bubbles(S), LastRuns(bs), RunningIn(bs) # {}
  PROVE  /\ RunningAt(bs) = Len(bs) /\ Len(bs) \in DOMAIN bs
         /\ bs[Len(bs)].status = "running"
         /\ Len(bs) \in Nat \ {0} /\ Len(bs) - 1 \in Nat
<1>1. PICK i \in RunningIn(bs) : TRUE
  OBVIOUS
<1>2. i = Len(bs) /\ i \in DOMAIN bs /\ bs[i].status = "running" /\ Len(bs) \in Nat
      /\ DOMAIN bs = 1..Len(bs)
  BY LenProperties DEF LastRuns, RunningIn, Bubbles
<1>3. \A j \in RunningIn(bs) : j = i
  BY <1>2 DEF LastRuns
<1>4. i <= i
  BY <1>2
<1>5. RunningAt(bs) = i
  BY <1>1, <1>3, <1>4 DEF RunningAt
<1> QED
  BY <1>2, <1>5

\* New bubbles of the moves.
LEMMA NewBubbles ==
  ASSUME NEW S
  PROVE  /\ \A t \in Turn : User(t) \in Bubble(S)
         /\ \A text \in Seq(S), s \in {"running", "done"} : Answer(text, s) \in Bubble(S)
         /\ Answer(<<>>, "running") \in Bubble(S)
  BY ChatAssumption, EmptySeq DEF User, Answer, Bubble, Turn

LEMMA AppendedLast ==
  ASSUME NEW S, NEW bs \in Bubbles(S), NEW b \in Bubble(S), NEW r, RunningIn(bs) = {}
  PROVE  /\ Append(bs, b) \in Bubbles(S) /\ LastRuns(Append(bs, b))
         /\ b.status # "running" => RunningIn(Append(bs, b)) = {}
         /\ \A i \in DOMAIN bs : i \in DOMAIN Append(bs, b) /\ Append(bs, b)[i] = bs[i]
         /\ Stands(bs, Append(bs, b), r)
<1> DEFINE new == Append(bs, b)
<1>1. Len(bs) \in Nat /\ DOMAIN bs = 1..Len(bs)
  BY LenProperties DEF Bubbles
<1>2. /\ new \in Bubbles(S) /\ Len(new) = Len(bs) + 1
      /\ \A i \in 1..Len(bs) : new[i] = bs[i]
      /\ new[Len(bs) + 1] = b
  BY AppendProperties DEF Bubbles
<1>3. DOMAIN new = 1..(Len(bs) + 1)
  BY <1>2, LenProperties DEF Bubbles
<1> HIDE DEF new
<1>4. \A i \in RunningIn(new) : i = Len(new) /\ b.status = "running"
  <2> SUFFICES ASSUME NEW i \in RunningIn(new) PROVE i = Len(new) /\ b.status = "running"
    OBVIOUS
  <2>1. i \in DOMAIN new /\ new[i].status = "running"
    BY DEF RunningIn
  <2>2. i \notin DOMAIN bs
    BY <2>1, <1>1, <1>2 DEF RunningIn
  <2> QED
    BY <1>1, <1>2, <1>3, <2>1, <2>2
<1>5. \A i \in DOMAIN bs : i \in DOMAIN new /\ new[i] = bs[i]
  BY <1>1, <1>2, <1>3
<1> QED
  BY <1>2, <1>4, <1>5 DEF LastRuns, Stands, new

LEMMA MovesKeep ==
  ASSUME NEW S, NEW X \in SUBSET S, NEW Y \in SUBSET S, NEW r, NEW bs \in Bubbles(S), NEW new,
         LastRuns(bs), Moves(bs, new, X, Y, r)
  PROVE  new \in Bubbles(S) /\ LastRuns(new) /\ Stands(bs, new, r)
<1> Len(bs) \in Nat /\ DOMAIN bs = 1..Len(bs)
  BY LenProperties DEF Bubbles
<1>1. \A old \in Seq(S) : \A text : GoesOn(old, text, X, Y) => text \in Seq(S)
  BY SeqMonotonic, AppendProperties DEF GoesOn
<1>2. \A i \in DOMAIN bs : bs[i] \in Bubble(S) /\ bs[i].text \in Seq(S)
  <2>1. \A i \in DOMAIN bs : bs[i] \in Bubble(S)
    BY ElementOfSeq DEF Bubbles
  <2> QED
    BY <2>1 DEF Bubble
<1>3. CASE new = bs
  BY <1>3 DEF Stands
<1>4. ASSUME RunningIn(bs) # {},
             NEW s \in {"running", "done", "error"}, NEW text \in Seq(Piece \cup {StatusNote}),
             GoesOn(bs[Len(bs)].text, text, X, Y),
             new = [bs EXCEPT ![Len(bs)] = [@ EXCEPT !.status = s, !.text = text]]
      PROVE  new \in Bubbles(S) /\ LastRuns(new) /\ Stands(bs, new, r)
  <2>1. Len(bs) \in DOMAIN bs /\ bs[Len(bs)].status = "running"
    BY <1>4, RunsLast
  <2>2. text \in Seq(S)
    BY <1>1, <1>2, <1>4, <2>1
  <2>3. [bs[Len(bs)] EXCEPT !.status = s, !.text = text] \in Bubble(S)
    BY <1>2, <2>1, <2>2 DEF Bubble
  <2>4. new \in Bubbles(S) /\ Len(new) = Len(bs) /\ DOMAIN new = DOMAIN bs
    BY <1>4, <2>1, <2>3, ExceptSeq DEF Bubbles
  <2>5. \A i \in DOMAIN bs : i # Len(bs) => new[i] = bs[i]
    BY <1>4
  <2>6. LastRuns(new)
    BY <2>4, <2>5 DEF LastRuns, RunningIn
  <2> QED
    BY <2>1, <2>4, <2>5, <2>6 DEF Stands
<1>5. CASE RunningIn(bs) # {} /\ new = SubSeq(bs, 1, Len(bs) - 1)
  <2>1. Len(bs) \in DOMAIN bs /\ bs[Len(bs)].status = "running" /\ Len(bs) - 1 \in Nat
    BY <1>5, RunsLast
  <2>2. /\ new \in Bubbles(S) /\ Len(new) = Len(bs) - 1
        /\ \A i \in 1..(Len(bs) - 1) : new[i] = bs[i]
    BY <1>5, <2>1, SubSeqProperties DEF Bubbles
  <2>3. DOMAIN new = 1..(Len(bs) - 1)
    BY <2>2, LenProperties DEF Bubbles
  <2>4. \A i \in DOMAIN bs : bs[i].status # "running" => i \in 1..(Len(bs) - 1)
    BY <2>1
  <2>5. RunningIn(new) = {}
    BY <2>2, <2>3, <2>1 DEF RunningIn, LastRuns
  <2> QED
    BY <2>2, <2>3, <2>4, <2>5 DEF Stands, LastRuns
<1>6. ASSUME NEW b \in Bubble(S), RunningIn(bs) = {}
      PROVE  Append(bs, b) \in Bubbles(S) /\ LastRuns(Append(bs, b)) /\ Stands(bs, Append(bs, b), r)
  BY <1>6, AppendedLast
<1>7. ASSUME RunningIn(bs) = {}, NEW t \in Turn,
             new = Append(Append(bs, User(t)), Answer(<<>>, "running"))
      PROVE  new \in Bubbles(S) /\ LastRuns(new) /\ Stands(bs, new, r)
  <2>1. User(t) \in Bubble(S) /\ Answer(<<>>, "running") \in Bubble(S) /\ User(t).status = "sent"
    BY NewBubbles DEF User
  <2> DEFINE mid == Append(bs, User(t))
  <2>2. /\ mid \in Bubbles(S) /\ RunningIn(mid) = {}
        /\ \A i \in DOMAIN bs : i \in DOMAIN mid /\ mid[i] = bs[i]
    BY <1>7, <2>1, AppendedLast
  <2> DEFINE b == Answer(<<>>, "running")
  <2>3. new = Append(mid, b) /\ b \in Bubble(S)
    BY <1>7, <2>1
  <2> HIDE DEF mid, b
  <2>4. /\ Append(mid, b) \in Bubbles(S) /\ LastRuns(Append(mid, b))
        /\ \A i \in DOMAIN mid : i \in DOMAIN Append(mid, b) /\ Append(mid, b)[i] = mid[i]
    BY <2>2, <2>3, AppendedLast
  <2> QED
    BY <2>2, <2>3, <2>4, SMTT(30) DEF Stands
<1>8. ASSUME RunningIn(bs) = {}, NEW s \in {"running", "done"},
             NEW text \in Seq(Piece \cup {StatusNote}), GoesOn(<<>>, text, X, Y),
             new = Append(bs, Answer(text, s))
      PROVE  new \in Bubbles(S) /\ LastRuns(new) /\ Stands(bs, new, r)
  <2>1. text \in Seq(S)
    BY <1>1, <1>8, EmptySeq
  <2> QED
    BY <1>6, <1>8, <2>1, NewBubbles
<1>9. ASSUME RunningIn(bs) = {}, r, NEW i \in DOMAIN bs, NEW text \in Seq(Y),
             bs[i].status = "done", Len(text) > Len(bs[i].text),
             new = [bs EXCEPT ![i].text = text]
      PROVE  new \in Bubbles(S) /\ LastRuns(new) /\ Stands(bs, new, r)
  <2>1. text \in Seq(S)
    BY SeqMonotonic
  <2>2. [bs[i] EXCEPT !.text = text] \in Bubble(S)
    BY <1>2, <2>1 DEF Bubble
  <2>3. new \in Bubbles(S) /\ Len(new) = Len(bs) /\ DOMAIN new = DOMAIN bs
    BY <1>9, <2>2, ExceptSeq DEF Bubbles
  <2>4. /\ \A j \in DOMAIN bs : j # i => new[j] = bs[j]
        /\ new[i] = [bs[i] EXCEPT !.text = text]
    BY <1>9
  <2>5. /\ new[i].text = text /\ new[i].status = bs[i].status
        /\ new[i] = [bs[i] EXCEPT !.text = new[i].text]
    BY <1>2, <2>4 DEF Bubble
  <2>6. RunningIn(new) = {}
    BY <1>9, <2>3, <2>4, <2>5 DEF RunningIn
  <2> QED
    BY <1>9, <2>3, <2>4, <2>5, <2>6 DEF LastRuns, Stands
<1> QED
  BY <1>3, <1>4, <1>5, <1>7, <1>8, <1>9 DEF Moves

-------------------------------------------------------------------------------
(* What the functions of the page do to the bubbles of a conversation. *)

Shown == Piece \cup {StatusNote}

Put(p, c, bs) == [p EXCEPT !.bubbles = [@ EXCEPT ![c] = bs]]

Marked(bs, s) == IF RunningIn(bs) = {} THEN bs ELSE [bs EXCEPT ![RunningAt(bs)].status = s]

Ensured(bs) ==
  IF RunningIn(bs) # {} \/ EndsAnswered(bs) THEN bs ELSE Append(bs, Answer(<<>>, "running"))

Said(bs, x) ==
  IF RunningIn(bs) = {} THEN bs ELSE [bs EXCEPT ![RunningAt(bs)].text = Append(@, x)]

Noted(bs) ==
  IF RunningIn(bs) # {} /\ bs[RunningAt(bs)].text = <<>> THEN Said(bs, StatusNote) ELSE bs

Filled(bs, text) ==
  IF Extends(text, bs[RunningAt(bs)].text) THEN [bs EXCEPT ![RunningAt(bs)].text = text] ELSE bs

LEMMA PageFunctions ==
  ASSUME NEW p \in Memory, NEW c \in Conv
  PROVE  /\ \A s : MarkRunning(p, c, s) = Put(p, c, Marked(p.bubbles[c], s))
         /\ EnsureBubble(p, c) = Put(p, c, Ensured(p.bubbles[c]))
         /\ \A x : AddText(p, c, x) = Put(p, c, Said(p.bubbles[c], x))
         /\ AddStatus(p, c) = Put(p, c, Noted(p.bubbles[c]))
         /\ \A text : FillRunning(p, c, text) = Put(p, c, Filled(p.bubbles[c], text))
<1>1. p.bubbles = [p.bubbles EXCEPT ![c] = p.bubbles[c]] /\ c \in DOMAIN p.bubbles
  BY DEF Memory
<1>2. p = [p EXCEPT !.bubbles = p.bubbles]
  BY DEF Memory
<1>3. p = Put(p, c, p.bubbles[c])
  BY <1>1, <1>2 DEF Put
<1>4. \A s : MarkRunning(p, c, s) = Put(p, c, Marked(p.bubbles[c], s))
  BY <1>3 DEF MarkRunning, Marked, IsRunning, Put
<1>5. EnsureBubble(p, c) = Put(p, c, Ensured(p.bubbles[c]))
  BY <1>3 DEF EnsureBubble, Ensured, IsRunning, Put
<1>6. \A x : AddText(p, c, x) = Put(p, c, Said(p.bubbles[c], x))
  BY <1>3 DEF AddText, Said, IsRunning, Put
<1>7. AddStatus(p, c) = Put(p, c, Noted(p.bubbles[c]))
  BY <1>3, <1>6 DEF AddStatus, Noted, IsRunning
<1>8. \A text : FillRunning(p, c, text) = Put(p, c, Filled(p.bubbles[c], text))
  BY <1>3 DEF FillRunning, Filled, SetText, Put
<1> QED
  BY <1>4, <1>5, <1>6, <1>7, <1>8

LEMMA PutKeeps ==
  ASSUME NEW p \in Memory, NEW c \in Conv, NEW bs \in Bubbles(Shown)
  PROVE  /\ Put(p, c, bs) \in Memory
         /\ Put(p, c, bs).bubbles = [p.bubbles EXCEPT ![c] = bs]
         /\ Put(p, c, bs).bubbles[c] = bs
         /\ \A d \in Conv : d # c => Put(p, c, bs).bubbles[d] = p.bubbles[d]
         /\ \A f \in {"list", "active", "sending", "watchdog", "recovered", "chains", "pending"} :
               Put(p, c, bs)[f] = p[f]
  BY DEF Put, Memory, Bubbles, Shown

LEMMA PutTwice ==
  ASSUME NEW p \in Memory, NEW c \in Conv, NEW bs, NEW new
  PROVE  Put(Put(p, c, bs), c, new) = Put(p, c, new)
  BY DEF Put, Memory

\* q is p but for the flag sending and the watchdog.
SameShown(p, q) ==
  /\ q \in Memory
  /\ q.list = p.list /\ q.active = p.active /\ q.bubbles = p.bubbles
  /\ q.recovered = p.recovered /\ q.pending = p.pending /\ q.chains = p.chains

LEMMA Flags ==
  ASSUME NEW p \in Memory, NEW c \in Conv
  PROVE  /\ SameShown(p, Arm(p, c)) /\ SameShown(p, Disarm(p)) /\ SameShown(p, Feed(p, c))
         /\ SameShown(p, Finish(p, c)) /\ SameShown(p, ArmFor(p, c))
         /\ SameShown(p, [Disarm(p) EXCEPT !.sending = FALSE])
<1>1. SameShown(p, Arm(p, c)) /\ SameShown(p, Disarm(p)) /\ SameShown(p, p)
  BY DEF SameShown, Arm, Disarm, Memory
<1>2. SameShown(p, Finish(p, c))
  BY DEF SameShown, Finish, Memory
<1>3. SameShown(p, [Disarm(p) EXCEPT !.sending = FALSE])
  BY DEF SameShown, Disarm, Memory
<1> QED
  BY <1>1, <1>2, <1>3 DEF Feed, ArmFor

LEMMA RemoveLast ==
  ASSUME NEW S, NEW bs \in Seq(S), Len(bs) # 0
  PROVE  RemoveAt(bs, Len(bs)) = SubSeq(bs, 1, Len(bs) - 1)
<1>1. Len(bs) \in Nat /\ Len(bs) - 1 \in Nat
  BY LenProperties
<1>2. SubSeq(bs, Len(bs) + 1, Len(bs)) = <<>>
  BY <1>1, SubSeqEmpty
<1>3. SubSeq(bs, 1, Len(bs) - 1) \in Seq(S)
  BY <1>1, SubSeqProperties
<1> QED
  BY <1>2, <1>3, ConcatEmptySeq DEF RemoveAt

LEMMA BubbleFunctions ==
  ASSUME NEW bs \in Bubbles(Shown), LastRuns(bs), NEW r
  PROVE  /\ \A s \in {"done", "error"} : Moves(bs, Marked(bs, s), {}, {}, r)
         /\ Moves(bs, Ensured(bs), {}, {}, r)
         /\ \A x \in Shown : Moves(bs, Said(bs, x), {x}, {}, r)
         /\ \A x \in Shown : Moves(bs, Said(Ensured(bs), x), {x}, {}, r)
         /\ Moves(bs, Noted(bs), {StatusNote}, {}, r)
         /\ Moves(bs, DropPlaceholder(bs), {}, {}, r)
<1>1. Len(bs) \in Nat /\ DOMAIN bs = 1..Len(bs)
  BY LenProperties DEF Bubbles
<1>2. \A new, X, Y : new = bs => Moves(bs, new, X, Y, r)
  BY DEF Moves
<1> DEFINE n == Len(bs)
<1>3. CASE RunningIn(bs) # {}
  <2>1. RunningAt(bs) = n /\ n \in DOMAIN bs /\ bs[n].status = "running" /\ n # 0
    BY <1>3, RunsLast
  <2>2. bs[n] \in Bubble(Shown) /\ bs[n].text \in Seq(Shown)
    <3>1. bs[n] \in Bubble(Shown)
      BY <2>1, <1>1, ElementOfSeq DEF Bubbles
    <3> QED
      BY <3>1 DEF Bubble
  <2> HIDE DEF n
  <2>3. ASSUME NEW s \in {"done", "error"} PROVE Moves(bs, Marked(bs, s), {}, {}, r)
    <3>1. Marked(bs, s) = [bs EXCEPT ![n] = [@ EXCEPT !.status = s]]
      BY <1>3, <2>1 DEF Marked
    <3>2. [bs[n] EXCEPT !.status = s, !.text = bs[n].text] = [bs[n] EXCEPT !.status = s]
      BY <2>2 DEF Bubble
    <3>3. Marked(bs, s) = [bs EXCEPT ![n] = [@ EXCEPT !.status = s, !.text = bs[n].text]]
      BY <3>1, <3>2
    <3> QED
      BY <1>3, <2>2, <3>3 DEF Moves, GoesOn, Shown, n
  <2>4. Ensured(bs) = bs
    BY <1>3 DEF Ensured
  <2>5. ASSUME NEW x \in Shown PROVE Moves(bs, Said(bs, x), {x}, {}, r)
    <3> DEFINE text == Append(bs[n].text, x)
    <3>1. text \in Seq(Shown)
      BY <2>2, AppendProperties
    <3>2. Said(bs, x) = [bs EXCEPT ![n] = [@ EXCEPT !.text = text]]
      BY <1>3, <2>1 DEF Said
    <3>3. [bs[n] EXCEPT !.status = "running", !.text = text] = [bs[n] EXCEPT !.text = text]
      BY <2>1, <2>2 DEF Bubble
    <3>4. Said(bs, x) = [bs EXCEPT ![n] = [@ EXCEPT !.status = "running", !.text = text]]
      BY <3>2, <3>3
    <3>5. GoesOn(bs[n].text, text, {x}, {})
      BY DEF GoesOn
    <3> QED
      BY <1>3, <3>1, <3>4, <3>5 DEF Moves, Shown, n
  <2>6. Moves(bs, Noted(bs), {StatusNote}, {}, r)
    BY <1>2, <2>5 DEF Noted, Shown
  <2>7. Moves(bs, DropPlaceholder(bs), {}, {}, r)
    <3>1. RemoveAt(bs, n) = SubSeq(bs, 1, n - 1)
      BY <2>1, RemoveLast DEF Bubbles, n
    <3> QED
      BY <1>3, <2>1, <3>1 DEF DropPlaceholder, Moves, n
  <2> QED
    BY <1>2, <2>3, <2>4, <2>5, <2>6, <2>7
<1>4. CASE RunningIn(bs) = {}
  <2>1. /\ \A s : Marked(bs, s) = bs
        /\ Noted(bs) = bs /\ DropPlaceholder(bs) = bs
        /\ \A x : Said(bs, x) = bs
    BY <1>4 DEF Marked, Said, Noted, DropPlaceholder
  <2>2. Moves(bs, Ensured(bs), {}, {}, r)
    <3>1. <<>> \in Seq(Piece \cup {StatusNote})
      BY EmptySeq
    <3> QED
      BY <1>4, <3>1 DEF Ensured, Moves, GoesOn
  <2>3. ASSUME NEW x \in Shown PROVE Moves(bs, Said(Ensured(bs), x), {x}, {}, r)
    <3>1. CASE EndsAnswered(bs)
      BY <1>2, <2>1, <3>1 DEF Ensured
    <3>2. CASE ~ EndsAnswered(bs)
      <4> DEFINE b == Answer(<<>>, "running")
                 new == Append(bs, b)
                 m == n + 1
                 text == Append(<<>>, x)
      <4>1. b \in Bubble(Shown) /\ b.status = "running" /\ b.text = <<>>
        BY NewBubbles DEF Answer
      <4>2. Ensured(bs) = new
        BY <1>4, <3>2 DEF Ensured
      <4>3. new \in Bubbles(Shown) /\ LastRuns(new)
        BY <1>4, <4>1, AppendedLast
      <4>4. Len(new) = m /\ new[m] = b /\ DOMAIN new = 1..m /\ m \in DOMAIN new
        BY <4>1, <1>1, AppendProperties, LenProperties DEF Bubbles
      <4>5. m \in RunningIn(new)
        BY <4>1, <4>4 DEF RunningIn
      <4>6. RunningAt(new) = m
        BY <4>3, <4>4, <4>5, RunsLast
      <4>7. text \in Seq(Shown) /\ text \in Seq(Piece \cup {StatusNote})
        BY EmptySeq, AppendProperties DEF Shown
      <4>8. Answer(text, "running") = [b EXCEPT !.text = text]
        BY DEF Answer
      <4>9. Answer(text, "running") \in Bubble(Shown)
        BY <4>7, NewBubbles
      <4> HIDE DEF b, text
      <4>10. [new EXCEPT ![m] = Answer(text, "running")] = Append(bs, Answer(text, "running"))
        <5>1. \A i \in 1..n : new[i] = bs[i]
          BY <4>1, <1>1, AppendProperties DEF Bubbles
        <5> DEFINE lhs == [new EXCEPT ![m] = Answer(text, "running")]
                   rhs == Append(bs, Answer(text, "running"))
        <5>2. /\ rhs \in Bubbles(Shown) /\ Len(rhs) = m /\ rhs[m] = Answer(text, "running")
              /\ \A i \in 1..n : rhs[i] = bs[i]
          BY <4>9, <1>1, AppendProperties DEF Bubbles
        <5>3. lhs \in Bubbles(Shown) /\ Len(lhs) = m
          BY <4>3, <4>4, <4>9, ExceptSeq DEF Bubbles
        <5>4. \A i \in 1..m : lhs[i] = rhs[i]
          <6> TAKE i \in 1..m
          <6>1. CASE i = m
            BY <6>1, <5>2, <4>4
          <6>2. CASE i # m
            <7>1. i \in 1..n
              BY <6>2, <1>1
            <7> QED
              BY <6>2, <7>1, <5>1, <5>2, <4>4
          <6> QED
            BY <6>1, <6>2
        <5> HIDE DEF lhs, rhs
        <5>5. lhs = rhs
          BY <5>2, <5>3, <5>4, SeqEqual DEF Bubbles
        <5> QED
          BY <5>5 DEF lhs, rhs
      <4>11. Said(new, x) = [new EXCEPT ![m].text = text]
        BY <4>1, <4>4, <4>5, <4>6 DEF Said, text
      <4>12. [new EXCEPT ![m].text = text] = [new EXCEPT ![m] = Answer(text, "running")]
        BY <4>4, <4>8
      <4>13. GoesOn(<<>>, text, {x}, {})
        BY DEF GoesOn, text
      <4> HIDE DEF new
      <4>14. Said(new, x) = Append(bs, Answer(text, "running"))
        BY <4>10, <4>11, <4>12
      <4> QED
        BY <1>4, <4>2, <4>7, <4>13, <4>14 DEF Moves
    <3> QED
      BY <3>1, <3>2
  <2> QED
    BY <1>2, <2>1, <2>2, <2>3
<1> QED
  BY <1>3, <1>4

-------------------------------------------------------------------------------
(* A snapshot compared with the bubbles of its conversation. *)

PiecesOf(rows) == {x \in Piece : \E i \in DOMAIN rows : \E j \in DOMAIN rows[i].text : x = rows[i].text[j]}

LEMMA RunTextOfRows ==
  ASSUME NEW rows \in Seq(Row), NEW t, RowOf(rows, t) # {}
  PROVE  RunText(rows, t) \in Seq(PiecesOf(rows))
<1> DEFINE i == CHOOSE j \in RowOf(rows, t) : TRUE
           m == Len(rows) - i + 1
           texts == [j \in 1..m |-> rows[i + j - 1].text]
<1>1. i \in DOMAIN rows /\ Len(rows) \in Nat /\ DOMAIN rows = 1..Len(rows)
  BY LenProperties DEF RowOf
<1>2. \A j \in DOMAIN rows : rows[j].text \in Seq(PiecesOf(rows))
  <2> TAKE j \in DOMAIN rows
  <2>1. rows[j] \in Row
    BY ElementOfSeq
  <2>2. rows[j].text \in Seq(Piece)
    BY <2>1 DEF Row
  <2>3. Len(rows[j].text) \in Nat /\ DOMAIN rows[j].text = 1..Len(rows[j].text)
        /\ rows[j].text \in [1..Len(rows[j].text) -> Piece]
    BY <2>2, LenProperties
  <2>4. \A k \in DOMAIN rows[j].text : rows[j].text[k] \in PiecesOf(rows)
    BY <2>2, ElementOfSeq DEF PiecesOf
  <2>5. rows[j].text \in [1..Len(rows[j].text) -> PiecesOf(rows)]
    BY <2>3, <2>4
  <2> QED
    BY <2>3, <2>5, SeqDef
<1> HIDE DEF i
<1>3. m \in Nat /\ \A j \in 1..m : i + j - 1 \in DOMAIN rows
  BY <1>1
<1>4. texts \in [1..m -> Seq(PiecesOf(rows))]
  BY <1>2, <1>3
<1> HIDE DEF m
<1>5. texts \in Seq(Seq(PiecesOf(rows)))
  BY <1>3, <1>4, SeqDef
<1>6. RunText(rows, t) = FlattenSeq(texts)
  BY DEF RunText, i, m
<1> QED
  BY <1>5, <1>6, FlattenIsSeq

LEMMA BubblesFromRows ==
  ASSUME NEW bs \in Bubbles(Shown), LastRuns(bs), NEW r, NEW Y \in SUBSET Piece,
         NEW text \in Seq(Y)
  PROVE  /\ RunningIn(bs) # {} =>
              /\ Moves(bs, Filled(bs, text), {}, Y, r) /\ RunningIn(Filled(bs, text)) # {}
              /\ Len(Filled(bs, text)) = Len(bs)
              /\ Moves(bs, Marked(Filled(bs, text), "done"), {}, Y, r)
              /\ RunningIn(Marked(Filled(bs, text), "done")) = {}
         /\ RunningIn(bs) = {} => \A s \in {"running", "done"} : Moves(bs, Append(bs, Answer(text, s)), {}, Y, r)
         /\ RunningIn(bs) = {} /\ r => \A i \in DOMAIN bs :
              bs[i].status = "done" /\ Len(text) > Len(bs[i].text) =>
                /\ Moves(bs, [bs EXCEPT ![i].text = text], {}, Y, r)
                /\ RunningIn([bs EXCEPT ![i].text = text]) = {}
<1>1. Len(bs) \in Nat /\ DOMAIN bs = 1..Len(bs)
  BY LenProperties DEF Bubbles
<1>2. text \in Seq(Shown)
  BY SeqMonotonic DEF Shown
<1>3. ASSUME RunningIn(bs) # {}
      PROVE  /\ Moves(bs, Filled(bs, text), {}, Y, r) /\ RunningIn(Filled(bs, text)) # {}
             /\ Len(Filled(bs, text)) = Len(bs)
             /\ Moves(bs, Marked(Filled(bs, text), "done"), {}, Y, r)
             /\ RunningIn(Marked(Filled(bs, text), "done")) = {}
  <2> DEFINE n == Len(bs)
             told == IF Extends(text, bs[n].text) THEN text ELSE bs[n].text
             new(s) == [bs EXCEPT ![n] = [@ EXCEPT !.status = s, !.text = told]]
  <2>1. RunningAt(bs) = n /\ n \in DOMAIN bs /\ bs[n].status = "running" /\ n # 0
    BY <1>3, RunsLast
  <2>2. bs[n] \in Bubble(Shown)
    BY <2>1, <1>1, ElementOfSeq DEF Bubbles
  <2>3. bs[n].text \in Seq(Shown)
    BY <2>2 DEF Bubble
  <2> HIDE DEF n
  <2>4. told \in Seq(Shown) /\ GoesOn(bs[n].text, told, {}, Y)
    BY <1>2, <2>3 DEF GoesOn
  <2> HIDE DEF told
  <2>5. \A s \in {"running", "done"} : Moves(bs, new(s), {}, Y, r)
    BY <1>3, <2>4 DEF Moves, Shown, n
  <2>6. \A s \in {"running", "done"} : new(s) \in Bubbles(Shown) /\ LastRuns(new(s))
    <3>1. {} \in SUBSET Shown /\ Y \in SUBSET Shown
      BY DEF Shown
    <3> HIDE DEF new
    <3> QED
      BY <2>5, <3>1, MovesKeep
  <2>7. \A s \in {"running", "done"} : new(s) \in Bubbles(Shown) /\ Len(new(s)) = n
        /\ DOMAIN new(s) = DOMAIN bs
    <3>1. \A s \in {"running", "done"} : [bs[n] EXCEPT !.status = s, !.text = told] \in Bubble(Shown)
      BY <2>2, <2>4 DEF Bubble
    <3> TAKE s \in {"running", "done"}
    <3> DEFINE b == [bs[n] EXCEPT !.status = s, !.text = told]
    <3>2. b \in Bubble(Shown) /\ new(s) = [bs EXCEPT ![n] = b]
      BY <3>1
    <3> HIDE DEF b, new
    <3> QED
      BY <2>1, <3>2, ExceptSeq DEF Bubbles, n
  <2>8. \A s \in {"running", "done"} : new(s)[n].status = s /\ new(s)[n].text = told
    BY <2>1, <2>2 DEF Bubble
  <2>9. Filled(bs, text) = new("running")
    <3>1. [bs[n] EXCEPT !.status = "running", !.text = told] = [bs[n] EXCEPT !.text = told]
      BY <2>1, <2>2 DEF Bubble
    <3>2. CASE Extends(text, bs[n].text)
      <4>1. Filled(bs, text) = [bs EXCEPT ![n] = [@ EXCEPT !.text = told]]
        BY <2>1, <3>2 DEF Filled, told
      <4> QED
        BY <3>1, <4>1
    <3>3. CASE ~ Extends(text, bs[n].text)
      <4>1. Filled(bs, text) = bs
        BY <2>1, <3>3 DEF Filled
      <4>2. [bs[n] EXCEPT !.text = told] = bs[n]
        BY <2>2, <3>3 DEF Bubble, told
      <4>3. bs = [bs EXCEPT ![n] = bs[n]]
        BY <1>1, <2>1 DEF Bubbles
      <4> QED
        BY <3>1, <4>1, <4>2, <4>3
    <3> QED
      BY <3>2, <3>3
  <2>10. n \in RunningIn(new("running")) /\ RunningIn(new("done")) = {}
    <3>1. n \in RunningIn(new("running"))
      BY <2>1, <2>7, <2>8 DEF RunningIn
    <3>2. new("done")[n].status = "done" /\ Len(new("done")) = n
      BY <2>7, <2>8
    <3> HIDE DEF new
    <3>3. RunningIn(new("done")) = {}
      BY <2>6, <3>2 DEF RunningIn, LastRuns
    <3> QED
      BY <3>1, <3>3
  <2>11. Marked(new("running"), "done") = new("done")
    <3>1. RunningAt(new("running")) = n
      <4> HIDE DEF new
      <4> QED
        BY <2>6, <2>7, <2>10, RunsLast
    <3>2. [new("running")[n] EXCEPT !.status = "done"] = [bs[n] EXCEPT !.status = "done", !.text = told]
      BY <2>1, <2>2 DEF Bubble
    <3> QED
      BY <2>1, <2>10, <3>1, <3>2 DEF Marked
  <2> HIDE DEF new
  <2> QED
    BY <2>5, <2>7, <2>9, <2>10, <2>11 DEF n
<1>4. ASSUME RunningIn(bs) = {}, NEW s \in {"running", "done"}
      PROVE  Moves(bs, Append(bs, Answer(text, s)), {}, Y, r)
  <2>1. GoesOn(<<>>, text, {}, Y)
    BY DEF GoesOn
  <2> QED
    BY <1>2, <1>4, <2>1 DEF Moves, Shown
<1>5. ASSUME RunningIn(bs) = {}, r, NEW i \in DOMAIN bs, bs[i].status = "done", Len(text) > Len(bs[i].text)
      PROVE  /\ Moves(bs, [bs EXCEPT ![i].text = text], {}, Y, r)
             /\ RunningIn([bs EXCEPT ![i].text = text]) = {}
  <2>1. bs[i] \in Bubble(Shown)
    BY ElementOfSeq DEF Bubbles
  <2>2. \A j \in DOMAIN bs : [bs EXCEPT ![i].text = text][j].status = bs[j].status
    BY <2>1 DEF Bubble
  <2>3. RunningIn([bs EXCEPT ![i].text = text]) = {}
    BY <1>5, <2>2 DEF RunningIn
  <2> QED
    BY <1>5, <2>3 DEF Moves
<1> QED
  BY <1>3, <1>4, <1>5

\* q is p but for the flag sending, the watchdog and what c shows.
SameBut(p, q, c) ==
  /\ q \in Memory
  /\ q.list = p.list /\ q.active = p.active /\ q.pending = p.pending /\ q.chains = p.chains
  /\ \A d \in Conv : d # c => q.bubbles[d] = p.bubbles[d] /\ q.recovered[d] = p.recovered[d]

LEMMA SameTwice ==
  ASSUME NEW p \in Memory, NEW q, NEW s, NEW c \in Conv
  PROVE  /\ SameShown(p, q) => SameBut(p, q, c) /\ q.bubbles[c] = p.bubbles[c] /\ q.recovered[c] = p.recovered[c]
         /\ SameBut(p, q, c) /\ SameShown(q, s) =>
              SameBut(p, s, c) /\ s.bubbles[c] = q.bubbles[c] /\ s.recovered[c] = q.recovered[c]
         /\ SameShown(p, q) /\ SameBut(q, s, c) => SameBut(p, s, c)
         /\ SameBut(p, q, c) /\ SameBut(q, s, c) => SameBut(p, s, c)
  BY DEF SameShown, SameBut

LEMMA PutIsSameBut ==
  ASSUME NEW p \in Memory, NEW c \in Conv, NEW bs \in Bubbles(Shown)
  PROVE  /\ SameBut(p, Put(p, c, bs), c)
         /\ Put(p, c, bs).bubbles[c] = bs
         /\ Put(p, c, bs).recovered = p.recovered
  BY DEF Put, SameBut, Memory, Bubbles, Shown

LEMMA RecoveredIsSameBut ==
  ASSUME NEW p \in Memory, NEW c \in Conv, NEW v \in BOOLEAN
  PROVE  /\ SameBut(p, [p EXCEPT !.recovered[c] = v], c)
         /\ [p EXCEPT !.recovered[c] = v].bubbles = p.bubbles
         /\ [p EXCEPT !.recovered[c] = v].recovered[c] = v
  BY DEF SameBut, Memory

LEMMA LastAnswerIsOne ==
  ASSUME NEW bs \in Bubbles(Shown), NEW j \in DOMAIN bs, bs[j].role = "assistant"
  PROVE  LastAnswer(bs) \in DOMAIN bs /\ bs[LastAnswer(bs)].role = "assistant"
<1> DEFINE I == {i \in DOMAIN bs : bs[i].role = "assistant"}
<1>1. Len(bs) \in Nat /\ DOMAIN bs = 1..Len(bs)
  BY LenProperties DEF Bubbles
<1>2. I \in SUBSET (1..Len(bs)) /\ I # {}
  BY <1>1
<1> HIDE DEF I
<1>3. PICK i \in I : \A k \in I : k <= i
  BY <1>1, <1>2, LastPlace
<1> QED
  BY <1>3 DEF LastAnswer, I

Snapshot == [type : {"snapshot"}, conv : Conv, running : BOOLEAN, rows : Seq(Row)]

LEMMA ReconcileMoves ==
  ASSUME NEW p \in Memory, \A d \in Conv : LastRuns(p.bubbles[d]), NEW f \in Snapshot
  PROVE  LET c == f.conv
             q == Reconcile(p, f)
         IN  /\ SameBut(p, q, c)
             /\ Moves(p.bubbles[c], q.bubbles[c], {}, PiecesOf(f.rows), p.recovered[c])
             /\ \/ q.bubbles[c] = p.bubbles[c]
                \/ RunningIn(q.bubbles[c]) = {}
                \/ Len(q.bubbles[c]) <= Len(p.bubbles[c]) + 1
             /\ RunningIn(p.bubbles[c]) # {} /\ RunningIn(q.bubbles[c]) = {} => ~ InFlight(p, c) /\ ~ f.running
<1> DEFINE c == f.conv
           bs == p.bubbles[c]
           Y == PiecesOf(f.rows)
           r == p.recovered[c]
           Good(q) ==
             /\ SameBut(p, q, c)
             /\ Moves(bs, q.bubbles[c], {}, Y, r)
             /\ \/ q.bubbles[c] = bs
                \/ RunningIn(q.bubbles[c]) = {}
                \/ Len(q.bubbles[c]) <= Len(bs) + 1
             /\ RunningIn(bs) # {} /\ RunningIn(q.bubbles[c]) = {} => ~ InFlight(p, c) /\ ~ f.running
           u == LastUser(bs)
           at == CHOOSE i \in u : TRUE
           ours == u # {} /\ RowOf(f.rows, bs[at].turn) # {}
           text == IF ours THEN RunText(f.rows, bs[at].turn) ELSE <<>>
           answered == u # {} /\ \E i \in DOMAIN bs : i > at /\ bs[i].role = "assistant"
           free == ~InFlight(p, c)
           ended(q) == Finish(IF q.active = c THEN Disarm(q) ELSE q, c)
           filled == FillRunning(p, c, text)
<1>1. c \in Conv /\ bs \in Bubbles(Shown) /\ LastRuns(bs) /\ Y \in SUBSET Piece
  BY DEF Snapshot, Memory, Bubbles, Shown, PiecesOf
<1>2. text \in Seq(Y)
  <2>1. f.rows \in Seq(Row)
    BY DEF Snapshot
  <2>2. <<>> \in Seq(Y)
    BY EmptySeq
  <2> QED
    BY <2>1, <2>2, RunTextOfRows
<1>3. Len(bs) \in Nat
  BY <1>1, LenProperties DEF Bubbles
<1>4. SameBut(p, p, c) /\ Good(p)
  <2>1. SameBut(p, p, c)
    BY DEF SameBut
  <2>2. Moves(bs, bs, {}, Y, r)
    BY DEF Moves
  <2> QED
    BY <2>1, <2>2
<1>5. Reconcile(p, f) =
        CASE IsRunning(p, c) /\ f.running -> IF free THEN ArmFor(filled, c) ELSE filled
          [] IsRunning(p, c) /\ ~f.running -> IF free THEN ended(MarkRunning(filled, c, "done")) ELSE p
          [] ~IsRunning(p, c) /\ free /\ ours /\ ~answered /\ f.running ->
                ArmFor([p EXCEPT !.bubbles[c] = Append(@, Answer(text, "running")), !.recovered[c] = TRUE], c)
          [] ~IsRunning(p, c) /\ free /\ ours /\ ~answered /\ ~f.running /\ text # <<>> ->
                Finish([p EXCEPT !.bubbles[c] = Append(@, Answer(text, "done"))], c)
          [] ~IsRunning(p, c) /\ free /\ ours /\ answered /\ p.recovered[c]
             /\ bs[LastAnswer(bs)].status = "done" /\ Len(text) > Len(bs[LastAnswer(bs)].text) ->
                Finish([SetText(p, c, LastAnswer(bs), text) EXCEPT !.recovered[c] = FALSE], c)
          [] OTHER -> p
  BY DEF Reconcile
<1> HIDE DEF c, Y, text, free
<1>6. free <=> ~ InFlight(p, c)
  BY DEF free
<1>7. \A q : SameBut(p, q, c) /\ q.bubbles[c] = bs => Good(q)
  BY <1>4
<1>8. \A q, s : Good(q) /\ SameShown(q, s) => Good(s)
  BY <1>1, SameTwice
<1>9. IsRunning(p, c) <=> RunningIn(bs) # {}
  BY DEF IsRunning
<1> HIDE DEF bs, ours, answered
<1>10. CASE IsRunning(p, c)
  <2>1. RunningIn(bs) # {}
    BY <1>9, <1>10
  <2> DEFINE new == Filled(bs, text)
             end == Marked(new, "done")
  <2>2. /\ Moves(bs, new, {}, Y, r) /\ RunningIn(new) # {} /\ Len(new) = Len(bs)
        /\ Moves(bs, end, {}, Y, r) /\ RunningIn(end) = {}
    BY <1>1, <1>2, <2>1, BubblesFromRows
  <2>3. new \in Bubbles(Shown) /\ end \in Bubbles(Shown)
    <3>1. {} \in SUBSET Shown /\ Y \in SUBSET Shown
      BY <1>1 DEF Shown
    <3> HIDE DEF new, end
    <3> QED
      BY <1>1, <2>2, <3>1, MovesKeep
  <2>4. filled = Put(p, c, new)
    BY <1>1, PageFunctions DEF bs
  <2> HIDE DEF filled, new
  <2>5. filled \in Memory /\ SameBut(p, filled, c) /\ filled.bubbles[c] = new
    <3>1. c \in Conv /\ new \in Bubbles(Shown)
      BY <1>1, <2>3
    <3>2. SameBut(p, Put(p, c, new), c) /\ Put(p, c, new).bubbles[c] = new
      BY <3>1, PutIsSameBut
    <3> QED
      BY <2>4, <3>2 DEF SameBut
  <2>6. MarkRunning(filled, c, "done") = Put(p, c, end)
    <3>1. MarkRunning(filled, c, "done") = Put(filled, c, end)
      BY <1>1, <2>5, PageFunctions
    <3> HIDE DEF end
    <3>2. Put(Put(p, c, new), c, end) = Put(p, c, end)
      BY <1>1, PutTwice
    <3> QED
      BY <2>4, <3>1, <3>2
  <2> HIDE DEF end
  <2>7. Good(filled)
    BY <1>3, <2>2, <2>5
  <2> DEFINE marked == MarkRunning(filled, c, "done")
  <2>8. marked = Put(p, c, end)
    BY <2>6
  <2> HIDE DEF marked
  <2>12. marked \in Memory /\ SameBut(p, marked, c) /\ marked.bubbles[c] = end
    <3>1. c \in Conv /\ end \in Bubbles(Shown)
      BY <1>1, <2>3
    <3>2. SameBut(p, Put(p, c, end), c) /\ Put(p, c, end).bubbles[c] = end
      BY <3>1, PutIsSameBut
    <3>3. \A q : SameBut(p, q, c) => q \in Memory
      BY DEF SameBut
    <3> QED
      BY <2>8, <3>2, <3>3
  <2>9. CASE f.running
    <3>1. SameShown(filled, ArmFor(filled, c))
      BY <1>1, <2>5, Flags
    <3>2. Good(ArmFor(filled, c))
      BY <1>8, <2>7, <3>1
    <3> QED
      BY <1>5, <1>10, <2>7, <2>9, <3>2 DEF bs, Y, c
  <2>10. CASE ~ f.running /\ free
    <3>1. Good(marked)
      BY <1>6, <2>2, <2>12, <2>10
    <3> DEFINE calm == IF marked.active = c THEN Disarm(marked) ELSE marked
    <3>2. SameShown(marked, calm)
      <4>1. SameShown(marked, Disarm(marked)) /\ SameShown(marked, marked)
        BY <1>1, <2>12, Flags DEF SameShown
      <4> QED
        BY <4>1
    <3>3. calm \in Memory
      BY <3>2 DEF SameShown
    <3> HIDE DEF calm
    <3>4. SameShown(calm, Finish(calm, c))
      BY <1>1, <3>3, Flags
    <3>5. Good(Finish(calm, c))
      BY <1>8, <3>1, <3>2, <3>4
    <3>6. Reconcile(p, f) = Finish(calm, c)
      BY <1>5, <1>10, <2>10 DEF bs, c, calm, marked
    <3> QED
      BY <3>5, <3>6 DEF bs, Y, c
  <2>11. CASE ~ f.running /\ ~ free
    BY <1>4, <1>5, <1>10, <2>11 DEF bs, Y, c
  <2> QED
    BY <2>9, <2>10, <2>11
<1>11. CASE ~ IsRunning(p, c)
  <2>1. RunningIn(bs) = {}
    BY <1>9, <1>11
  <2>2. ASSUME NEW s \in {"running", "done"}
        PROVE  /\ SameBut(p, Put(p, c, Append(bs, Answer(text, s))), c)
               /\ Good(Put(p, c, Append(bs, Answer(text, s))))
    <3> DEFINE b == Answer(text, s)
               new == Append(bs, b)
    <3>1. text \in Seq(Shown)
      BY <1>1, <1>2, SeqMonotonic DEF Shown
    <3>2. b \in Bubble(Shown)
      BY <3>1, NewBubbles
    <3>3. Moves(bs, new, {}, Y, r)
      BY <1>1, <1>2, <2>1, BubblesFromRows
    <3> HIDE DEF b
    <3>4. new \in Bubbles(Shown) /\ Len(new) = Len(bs) + 1
      BY <1>1, <3>2, AppendProperties DEF Bubbles
    <3> HIDE DEF new
    <3>5. SameBut(p, Put(p, c, new), c) /\ Put(p, c, new).bubbles[c] = new
      BY <1>1, <3>4, PutIsSameBut
    <3>6. Good(Put(p, c, new))
      BY <1>3, <2>1, <3>3, <3>4, <3>5
    <3> QED
      BY <3>5, <3>6 DEF new, b
  <2>3. \A q \in Memory, v \in BOOLEAN : Good(q) => Good([q EXCEPT !.recovered[c] = v])
    <3> TAKE q \in Memory, v \in BOOLEAN
    <3>1. /\ SameBut(q, [q EXCEPT !.recovered[c] = v], c)
          /\ [q EXCEPT !.recovered[c] = v].bubbles = q.bubbles
      BY <1>1, RecoveredIsSameBut
    <3>2. SameBut(p, q, c) => SameBut(p, [q EXCEPT !.recovered[c] = v], c)
      BY <1>1, <3>1, SameTwice
    <3> QED
      BY <3>1, <3>2
  <2>4. CASE free /\ ours /\ ~answered /\ f.running
    <3> DEFINE put == Put(p, c, Append(bs, Answer(text, "running")))
               q == [put EXCEPT !.recovered[c] = TRUE]
    <3>1. Good(put) /\ put \in Memory
      BY <2>2 DEF SameBut
    <3>2. q = [p EXCEPT !.bubbles[c] = Append(@, Answer(text, "running")), !.recovered[c] = TRUE]
      BY DEF Put, bs
    <3> HIDE DEF put
    <3>3. Good(q)
      BY <2>3, <3>1
    <3>4. q \in Memory
      BY <3>3 DEF SameBut
    <3>5. Reconcile(p, f) = ArmFor(q, c)
      BY <1>5, <1>11, <2>4, <3>2 DEF bs
    <3> HIDE DEF q
    <3>6. SameShown(q, ArmFor(q, c))
      BY <1>1, <3>4, Flags
    <3>7. Good(Reconcile(p, f))
      BY <1>8, <3>3, <3>5, <3>6
    <3> QED
      BY <3>7 DEF bs, Y, c
  <2>5. CASE free /\ ours /\ ~answered /\ ~f.running /\ text # <<>>
    <3> DEFINE q == Put(p, c, Append(bs, Answer(text, "done")))
    <3>1. Good(q) /\ q \in Memory
      BY <2>2 DEF SameBut
    <3>2. q = [p EXCEPT !.bubbles[c] = Append(@, Answer(text, "done"))]
      BY DEF Put, bs
    <3>3. Reconcile(p, f) = Finish(q, c)
      BY <1>5, <1>11, <2>5, <3>2 DEF bs
    <3> HIDE DEF q
    <3>4. SameShown(q, Finish(q, c))
      BY <1>1, <3>1, Flags
    <3>5. Good(Reconcile(p, f))
      BY <1>8, <3>1, <3>3, <3>4
    <3> QED
      BY <3>5 DEF bs, Y, c
  <2>6. CASE /\ free /\ ours /\ answered /\ p.recovered[c]
             /\ bs[LastAnswer(bs)].status = "done" /\ Len(text) > Len(bs[LastAnswer(bs)].text)
    <3> DEFINE i == LastAnswer(bs)
               new == [bs EXCEPT ![i].text = text]
               put == Put(p, c, new)
               q == [put EXCEPT !.recovered[c] = FALSE]
    <3>1. i \in DOMAIN bs
      <4>1. PICK j \in DOMAIN bs : bs[j].role = "assistant"
        BY <2>6 DEF answered
      <4> QED
        BY <1>1, <4>1, LastAnswerIsOne
    <3>2. Moves(bs, new, {}, Y, r) /\ RunningIn(new) = {}
      BY <1>1, <1>2, <2>1, <2>6, <3>1, BubblesFromRows
    <3>3. new \in Bubbles(Shown)
      <4>1. {} \in SUBSET Shown /\ Y \in SUBSET Shown
        BY <1>1 DEF Shown
      <4> HIDE DEF new
      <4> QED
        BY <1>1, <3>2, <4>1, MovesKeep
    <3>4. q = [SetText(p, c, i, text) EXCEPT !.recovered[c] = FALSE]
      BY DEF Put, bs, SetText
    <3> HIDE DEF new, i
    <3>5. SameBut(p, put, c) /\ put.bubbles[c] = new
      BY <1>1, <3>3, PutIsSameBut
    <3> HIDE DEF put
    <3>6. put \in Memory /\ Good(put)
      BY <3>2, <3>5, <2>1 DEF SameBut
    <3>7. Good(q)
      BY <2>3, <3>6
    <3>8. q \in Memory
      BY <3>7 DEF SameBut
    <3>9. Reconcile(p, f) = Finish(q, c)
      BY <1>5, <1>11, <2>6, <3>4 DEF bs, i
    <3> HIDE DEF q
    <3>10. SameShown(q, Finish(q, c))
      BY <1>1, <3>8, Flags
    <3>11. Good(Reconcile(p, f))
      BY <1>8, <3>7, <3>9, <3>10
    <3> QED
      BY <3>11 DEF bs, Y, c
  <2>7. CASE ~ (free /\ ours /\ (~answered => f.running \/ text # <<>>) /\ (answered => p.recovered[c]
             /\ bs[LastAnswer(bs)].status = "done" /\ Len(text) > Len(bs[LastAnswer(bs)].text)))
    <3>1. Reconcile(p, f) = p
      BY <1>5, <1>11, <2>7, SMTT(30) DEF bs
    <3> QED
      BY <1>4, <3>1 DEF bs, Y, c
  <2> QED
    BY <2>4, <2>5, <2>6, <2>7
<1> QED
  BY <1>10, <1>11

-------------------------------------------------------------------------------
(* Creates that are given up. *)

LEMMA MovesMore ==
  ASSUME NEW bs, NEW new, NEW r, NEW X, NEW Y, NEW XX, NEW YY, X \subseteq XX, Y \subseteq YY,
         Moves(bs, new, X, Y, r)
  PROVE  Moves(bs, new, XX, YY, r)
<1>1. \A old, text : GoesOn(old, text, X, Y) => GoesOn(old, text, XX, YY)
  BY SeqMonotonic DEF GoesOn
<1>2. Seq(Y) \subseteq Seq(YY)
  BY SeqMonotonic
<1>3. CASE new = bs
  BY <1>3 DEF Moves
<1>4. ASSUME RunningIn(bs) # {},
             NEW s \in {"running", "done", "error"}, NEW text \in Seq(Piece \cup {StatusNote}),
             GoesOn(bs[Len(bs)].text, text, X, Y),
             new = [bs EXCEPT ![Len(bs)] = [@ EXCEPT !.status = s, !.text = text]]
      PROVE  Moves(bs, new, XX, YY, r)
  BY <1>1, <1>4 DEF Moves
<1>5. CASE RunningIn(bs) # {} /\ bs[Len(bs)].text = <<>> /\ new = SubSeq(bs, 1, Len(bs) - 1)
  BY <1>5 DEF Moves
<1>6. CASE RunningIn(bs) = {} /\ \E t \in Turn : new = Append(Append(bs, User(t)), Answer(<<>>, "running"))
  BY <1>6 DEF Moves
<1>7. ASSUME RunningIn(bs) = {}, NEW s \in {"running", "done"},
             NEW text \in Seq(Piece \cup {StatusNote}), GoesOn(<<>>, text, X, Y),
             new = Append(bs, Answer(text, s))
      PROVE  Moves(bs, new, XX, YY, r)
  BY <1>1, <1>7 DEF Moves
<1>8. CASE /\ RunningIn(bs) = {} /\ r
           /\ \E i \in DOMAIN bs, text \in Seq(Y) :
                /\ bs[i].status = "done" /\ Len(text) > Len(bs[i].text)
                /\ new = [bs EXCEPT ![i].text = text]
  BY <1>2, <1>8 DEF Moves
<1> QED
  BY <1>3, <1>4, <1>5, <1>6, <1>7, <1>8 DEF Moves

\* q is p but for the flag sending, the watchdog, the creates it waits for and the bubbles.
SamePlaces(p, q) ==
  /\ q \in Memory
  /\ q.list = p.list /\ q.active = p.active /\ q.recovered = p.recovered

\* ... and no conversation ran on: at most a placeholder was taken back.
Dropped(p, q) ==
  /\ SamePlaces(p, q)
  /\ \A c \in Conv : q.bubbles[c] \in {p.bubbles[c], DropPlaceholder(p.bubbles[c])}

LEMMA UnwaitKeeps ==
  ASSUME NEW p \in Memory, NEW chs
  PROVE  SamePlaces(p, Unwait(p, chs)) /\ Unwait(p, chs).bubbles = p.bubbles
<1> DEFINE I == {i \in DOMAIN p.chains : p.chains[i] \notin chs}
           P == [c \in Conv |-> IF \E ch \in chs : ch.conv = c THEN 0 ELSE p.pending[c]]
<1>1. p.chains \in Seq([conv : Conv, turn : Turn, phase : {"socket", "ack"}])
  BY DEF Memory
<1>2. Filtered(p.chains, I) \in Seq([conv : Conv, turn : Turn, phase : {"socket", "ack"}])
  BY <1>1, FilteredIn
<1>3. P \in [Conv -> 0..MaxTurns]
  BY ChatAssumption DEF Memory
<1>4. Unwait(p, chs) = [p EXCEPT !.pending = P, !.chains = Filtered(p.chains, I)]
  BY DEF Unwait
<1> HIDE DEF I, P
<1> QED
  BY <1>2, <1>3, <1>4 DEF Memory, SamePlaces

LEMMA GiveUpDrops ==
  ASSUME NEW p \in Memory, \A c \in Conv : LastRuns(p.bubbles[c]), NEW R
  PROVE  Dropped(p, GiveUp(p, R))
<1> DEFINE B == [c \in Conv |-> IF c \in R THEN DropPlaceholder(p.bubbles[c]) ELSE p.bubbles[c]]
<1>1. \A c \in Conv : DropPlaceholder(p.bubbles[c]) \in Bubbles(Shown)
  <2> TAKE c \in Conv
  <2> DEFINE bs == p.bubbles[c]
             new == DropPlaceholder(bs)
  <2>1. bs \in Bubbles(Shown) /\ LastRuns(bs)
    BY DEF Memory, Bubbles, Shown
  <2> HIDE DEF bs
  <2>2. Moves(bs, new, {}, {}, FALSE)
    BY <2>1, BubbleFunctions
  <2> HIDE DEF new
  <2>3. new \in Bubbles(Shown)
    BY <2>1, <2>2, MovesKeep
  <2> QED
    BY <2>3 DEF bs, new
<1>2. B \in [Conv -> Bubbles(Shown)]
  BY <1>1 DEF Memory, Bubbles, Shown
<1>3. GiveUp(p, R) = [p EXCEPT !.watchdog = NoConv, !.sending = FALSE, !.bubbles = B]
  BY DEF GiveUp, Disarm
<1>4. \A c \in Conv : B[c] \in {p.bubbles[c], DropPlaceholder(p.bubbles[c])}
  OBVIOUS
<1> HIDE DEF B
<1> QED
  BY <1>2, <1>3, <1>4 DEF Memory, Dropped, SamePlaces, Bubbles, Shown

LEMMA RefuseDrops ==
  ASSUME NEW p \in Memory, \A c \in Conv : LastRuns(p.bubbles[c]), NEW A
  PROVE  Dropped(p, Refuse(p, A))
<1> DEFINE R == {c \in A : p.pending[c] # 0}
           q == Unwait(p, {AckChain(p, c) : c \in R})
<1>1. CASE R = {}
  BY <1>1 DEF Refuse, Dropped, SamePlaces
<1>2. CASE R # {}
  <2>1. SamePlaces(p, q) /\ q.bubbles = p.bubbles
    BY UnwaitKeeps
  <2>2. Refuse(p, A) = GiveUp(q, R)
    BY <1>2 DEF Refuse
  <2> HIDE DEF q
  <2>3. q \in Memory
    BY <2>1 DEF SamePlaces
  <2>4. \A c \in Conv : LastRuns(q.bubbles[c])
    BY <2>1
  <2>5. Dropped(q, GiveUp(q, R))
    BY <2>3, <2>4, GiveUpDrops
  <2> QED
    BY <2>1, <2>2, <2>5 DEF Dropped, SamePlaces
<1> QED
  BY <1>1, <1>2

-------------------------------------------------------------------------------
(* One step of the page. *)

\* The pieces a step may add to the bubbles of c: those of the frame it receives.
Delivered(c) ==
  {StatusNote} \cup
    {x \in Piece : /\ toPage # <<>> /\ Head(toPage).type = "delta" /\ toPage' = Tail(toPage)
                   /\ To = c /\ x = Head(toPage).piece}

Fetched(c) ==
  {x \in Piece : /\ toPage # <<>> /\ Head(toPage).type = "snapshot" /\ Head(toPage).conv = c
                 /\ x \in PiecesOf(Head(toPage).rows)}

PageMoves ==
  /\ page' \in Memory
  /\ page'.active \in Conv => Listed(page', page'.active)
  /\ \A c \in Conv : Moves(page.bubbles[c], page'.bubbles[c], Delivered(c), Fetched(c), page.recovered[c])

EndsNothing(bs, new) ==
  \A i \in DOMAIN new : new[i].status # "running" => i \in DOMAIN bs /\ bs[i] = new[i]

\* Nothing that must be stored was changed.
Kept ==
  /\ UNCHANGED stored
  /\ page'.list = page.list /\ page'.active = page.active
  /\ \A c \in Conv : EndsNothing(page.bubbles[c], page'.bubbles[c])

LEMMA NothingEnded ==
  ASSUME NEW bs \in Bubbles(Shown), LastRuns(bs), NEW X \in SUBSET Shown, NEW Y \in SUBSET Shown,
         NEW r, NEW new, Moves(bs, new, X, Y, r),
         new = bs \/ (RunningIn(new) # {} /\ Len(new) <= Len(bs) + 1)
  PROVE  EndsNothing(bs, new)
<1>1. Len(bs) \in Nat /\ DOMAIN bs = 1..Len(bs)
  BY LenProperties DEF Bubbles
<1>2. new \in Bubbles(Shown) /\ LastRuns(new) /\ Stands(bs, new, r)
  BY MovesKeep
<1>3. Len(new) \in Nat /\ DOMAIN new = 1..Len(new)
  BY <1>2, LenProperties DEF Bubbles
<1>4. CASE new = bs
  BY <1>4 DEF EndsNothing
<1> SUFFICES ASSUME RunningIn(new) # {}, Len(new) <= Len(bs) + 1
             PROVE  EndsNothing(bs, new)
  BY <1>4
<1>5. \A i \in DOMAIN new : new[i].status # "running" => i # Len(new)
  BY <1>2, RunsLast
<1>6. ASSUME NEW s, NEW text, RunningIn(bs) # {},
             new = [bs EXCEPT ![Len(bs)] = [@ EXCEPT !.status = s, !.text = text]]
      PROVE  EndsNothing(bs, new)
  <2>1. DOMAIN new = DOMAIN bs /\ \A i \in DOMAIN bs : i # Len(bs) => new[i] = bs[i]
    BY <1>6
  <2>2. Len(new) = Len(bs)
    <3>1. Len(bs) \in 1..Len(new)
      BY <1>3, <1>6, <2>1, RunsLast
    <3>2. Len(new) \in 1..Len(bs)
      BY <1>1, <1>3, <2>1, <3>1
    <3> QED
      BY <3>1, <3>2
  <2> QED
    BY <1>5, <2>1, <2>2 DEF EndsNothing
<1>7. CASE RunningIn(bs) # {} /\ new = SubSeq(bs, 1, Len(bs) - 1)
  <2>1. Len(bs) - 1 \in Nat
    BY <1>7, RunsLast
  <2>2. Len(new) = Len(bs) - 1 /\ \A i \in 1..(Len(bs) - 1) : new[i] = bs[i]
    <3>1. \A i \in 1..(Len(bs) - 1) : bs[i] \in Bubble(Shown)
      BY <1>1, <2>1, ElementOfSeq DEF Bubbles
    <3> DEFINE m == Len(bs) - 1
    <3>2. m \in Int /\ 1 \in Int /\ m + 1 = Len(bs) /\ m >= 0
      BY <2>1
    <3> HIDE DEF m
    <3>3. /\ Len(SubSeq(bs, 1, m)) = IF 1 <= m THEN m - 1 + 1 ELSE 0
          /\ \A i \in 1..m-1+1 : SubSeq(bs, 1, m)[i] = bs[1 + i - 1]
      BY <3>1, <3>2, SubSeqProperties DEF m
    <3>4. \A i \in 1..m : SubSeq(bs, 1, m)[i] = bs[i]
      BY <3>2, <3>3
    <3>5. new = SubSeq(bs, 1, m) /\ m = Len(bs) - 1
      BY <1>7 DEF m
    <3>7. Len(SubSeq(bs, 1, m)) = m
      <4>1. CASE 1 <= m
        BY <3>2, <3>3, <4>1
      <4>2. CASE ~ (1 <= m)
        <5>1. m = 0
          BY <3>2, <4>2
        <5> QED
          BY <3>3, <4>2, <5>1
      <4> QED
        BY <4>1, <4>2
    <3>6. Len(new) = m /\ \A i \in 1..m : new[i] = bs[i]
      BY <3>4, <3>5, <3>7
    <3> QED
      BY <3>5, <3>6
  <2> QED
    BY <1>1, <1>3, <2>1, <2>2 DEF EndsNothing
<1>8. ASSUME NEW t \in Turn, new = Append(Append(bs, User(t)), Answer(<<>>, "running"))
      PROVE  FALSE
  <2> DEFINE mid == Append(bs, User(t))
             b == Answer(<<>>, "running")
  <2>1. User(t) \in Bubble(Shown) /\ b \in Bubble(Shown)
    BY NewBubbles
  <2>2. mid \in Bubbles(Shown) /\ Len(mid) = Len(bs) + 1
    BY <2>1, AppendProperties DEF Bubbles
  <2> HIDE DEF mid, b
  <2>3. Len(Append(mid, b)) = Len(mid) + 1
    BY <2>1, <2>2, AppendProperties DEF Bubbles
  <2> QED
    BY <1>1, <1>8, <2>2, <2>3 DEF mid, b
<1>9. ASSUME NEW s \in {"running", "done"}, NEW text \in Seq(Shown), new = Append(bs, Answer(text, s))
      PROVE  EndsNothing(bs, new)
  <2> DEFINE b == Answer(text, s)
  <2>1. b \in Bubble(Shown)
    BY NewBubbles
  <2> HIDE DEF b
  <2>2. Len(new) = Len(bs) + 1 /\ \A i \in 1..Len(bs) : new[i] = bs[i]
    BY <1>9, <2>1, AppendProperties DEF Bubbles, b
  <2> QED
    BY <1>1, <1>3, <1>5, <2>2 DEF EndsNothing
<1>10. ASSUME RunningIn(bs) = {}, NEW i \in DOMAIN bs, NEW text, new = [bs EXCEPT ![i].text = text]
       PROVE  FALSE
  <2>1. bs[i] \in Bubble(Shown)
    BY ElementOfSeq DEF Bubbles
  <2>2. \A j \in DOMAIN new : new[j].status = bs[j].status /\ j \in DOMAIN bs
    BY <1>10, <2>1 DEF Bubble
  <2> QED
    BY <1>10, <2>2 DEF RunningIn
<1> QED
  BY <1>4, <1>6, <1>7, <1>8, <1>9, <1>10 DEF Moves, Shown

-------------------------------------------------------------------------------
(* Each action of the page is such a step, and either stores what it leaves *)
(* or ends nothing.                                                         *)

PageOK ==
  /\ page \in Memory
  /\ page.active \in Conv => Listed(page, page.active)
  /\ \A c \in Conv : LastRuns(page.bubbles[c])

LEMMA OneConversation ==
  ASSUME PageOK, NEW c \in Conv, NEW X, NEW Y, SameBut(page, page', c),
         Moves(page.bubbles[c], page'.bubbles[c], X, Y, page.recovered[c]),
         X \subseteq Delivered(c), Y \subseteq Fetched(c)
  PROVE  /\ PageMoves
         /\ UNCHANGED stored /\ EndsNothing(page.bubbles[c], page'.bubbles[c]) => Kept
<1>1. \A d \in Conv : d # c => page'.bubbles[d] = page.bubbles[d]
  BY DEF SameBut
<1>2. \A d \in Conv : Moves(page.bubbles[d], page'.bubbles[d], Delivered(d), Fetched(d), page.recovered[d])
  <2> TAKE d \in Conv
  <2>1. CASE d = c
    BY <2>1, MovesMore
  <2>2. CASE d # c
    BY <1>1, <2>2 DEF Moves
  <2> QED
    BY <2>1, <2>2
<1>3. page' \in Memory /\ page'.list = page.list /\ page'.active = page.active
  BY DEF SameBut
<1>4. \A d \in Conv : d # c => EndsNothing(page.bubbles[d], page'.bubbles[d])
  BY <1>1 DEF EndsNothing
<1> QED
  BY <1>2, <1>3, <1>4 DEF PageMoves, Kept, PageOK, Listed

LEMMA SameBubbles ==
  ASSUME page' \in Memory, page'.bubbles = page.bubbles,
         page'.active \in Conv => Listed(page', page'.active)
  PROVE  /\ PageMoves
         /\ UNCHANGED stored /\ page'.list = page.list /\ page'.active = page.active => Kept
  BY DEF PageMoves, Kept, Moves, EndsNothing

LEMMA SamePage ==
  ASSUME PageOK, UNCHANGED page
  PROVE  PageMoves /\ (UNCHANGED stored => Kept)
  BY SameBubbles DEF PageOK, Listed

LEMMA PlaceholdersDropped ==
  ASSUME PageOK, Dropped(page, page')
  PROVE  PageMoves
<1>1. \A c \in Conv : Moves(page.bubbles[c], page'.bubbles[c], Delivered(c), Fetched(c), page.recovered[c])
  <2> TAKE c \in Conv
  <2> DEFINE bs == page.bubbles[c]
  <2>1. bs \in Bubbles(Shown) /\ LastRuns(bs)
    BY DEF PageOK, Memory, Bubbles, Shown
  <2>2. Moves(bs, DropPlaceholder(bs), {}, {}, page.recovered[c])
    BY <2>1, BubbleFunctions
  <2>3. Moves(bs, bs, {}, {}, page.recovered[c])
    BY DEF Moves
  <2>4. page'.bubbles[c] \in {bs, DropPlaceholder(bs)}
    BY DEF Dropped
  <2>5. Moves(bs, page'.bubbles[c], {}, {}, page.recovered[c])
    BY <2>2, <2>3, <2>4
  <2> HIDE DEF bs
  <2> QED
    BY <2>5, MovesMore DEF bs
<1> QED
  BY <1>1 DEF PageMoves, Dropped, SamePlaces, PageOK, Listed

LEMMA NewConversationMoves ==
  ASSUME PageOK, NewConversation
  PROVE  PageMoves
<1>1. PICK c \in Conv : page' = [page EXCEPT !.list = <<c>> \o @, !.active = c]
  <2> DEFINE c == CHOOSE d \in Conv \ Opened : TRUE
  <2>1. Opened # Conv /\ Opened \subseteq Conv
    BY DEF NewConversation, Opened
  <2>2. c \in Conv
    BY <2>1
  <2>3. page' = [page EXCEPT !.list = <<c>> \o @, !.active = c]
    BY DEF NewConversation
  <2> QED
    BY <2>2, <2>3
<1>2. page \in Memory /\ page.list \in Seq(Conv)
  BY DEF PageOK, Memory
<1>3. <<c>> \o page.list \in Seq(Conv) /\ (<<c>> \o page.list)[1] = c
      /\ 1 \in DOMAIN (<<c>> \o page.list)
  <2>1. <<c>> \in Seq(Conv) /\ Len(<<c>>) = 1 /\ <<c>>[1] = c
    OBVIOUS
  <2> DEFINE s == <<c>>
  <2>2. s \in Seq(Conv) /\ Len(s) = 1 /\ s[1] = c
    BY <2>1
  <2> HIDE DEF s
  <2>3. Len(page.list) \in Nat
    BY <1>2, LenProperties
  <2>4. s \o page.list \in Seq(Conv) /\ Len(s \o page.list) = Len(s) + Len(page.list)
        /\ \A i \in 1..(Len(s) + Len(page.list)) : (s \o page.list)[i] =
             IF i <= Len(s) THEN s[i] ELSE page.list[i - Len(s)]
    BY <1>2, <2>2, ConcatProperties
  <2>5. DOMAIN (s \o page.list) = 1..Len(s \o page.list)
    BY <2>4, LenProperties
  <2> QED
    BY <2>2, <2>3, <2>4, <2>5 DEF s
<1> DEFINE l == <<c>> \o page.list
<1>4. l \in Seq(Conv) /\ l[1] = c /\ 1 \in DOMAIN l
  BY <1>3
<1>5. page' = [page EXCEPT !.list = l, !.active = c]
  BY <1>1
<1> HIDE DEF l
<1>6. page' \in Memory /\ page'.bubbles = page.bubbles /\ page'.list = l /\ page'.active = c
  BY <1>2, <1>4, <1>5 DEF Memory
<1> QED
  BY <1>4, <1>6, SameBubbles DEF Listed

LEMMA SelectConversationMoves ==
  ASSUME PageOK, NEW c \in Conv, SelectConversation(c)
  PROVE  PageMoves
<1>1. page' \in Memory /\ page'.bubbles = page.bubbles /\ page'.list = page.list /\ page'.active = c
  BY DEF SelectConversation, PageOK, Memory
<1> QED
  BY <1>1, SameBubbles DEF SelectConversation, Listed

LEMMA DeleteConversationMoves ==
  ASSUME PageOK, DeleteConversation
  PROVE  PageMoves
<1> DEFINE I == {i \in DOMAIN page.list : page.list[i] # page.active}
           rest == Filtered(page.list, I)
<1>1. page \in Memory /\ page.list \in Seq(Conv)
  BY DEF PageOK, Memory
<1>2. rest \in Seq(Conv)
  BY <1>1, FilteredIn
<1>3. page' = [page EXCEPT !.list = rest, !.active = IF rest = <<>> THEN NoConv ELSE Head(rest)]
  BY DEF DeleteConversation
<1> HIDE DEF rest
<1>4. rest # <<>> => /\ 1 \in DOMAIN rest /\ Head(rest) = rest[1] /\ Head(rest) \in Conv
  BY <1>2, EmptySeq, LenProperties, HeadTailProperties
<1>5. page' \in Memory /\ page'.bubbles = page.bubbles /\ page'.list = rest
      /\ page'.active = IF rest = <<>> THEN NoConv ELSE Head(rest)
  BY <1>1, <1>2, <1>3, <1>4 DEF Memory
<1> QED
  BY <1>4, <1>5, SameBubbles, ChatAssumption DEF Listed

LEMMA SendMessageMoves ==
  ASSUME PageOK, SendMessage
  PROVE  PageMoves
<1> DEFINE c == page.active
           t == spent.turn[c] + 1
           bs == page.bubbles[c]
           new == Append(Append(bs, User(t)), Answer(<<>>, "running"))
           ch == [conv |-> c, turn |-> t, phase |-> IF socket.state = "open" THEN "ack" ELSE "socket"]
           P == [page.pending EXCEPT ![c] = IF socket.state = "open" THEN t ELSE @]
<1>1. page \in Memory /\ c \in Conv /\ t \in Turn /\ RunningIn(bs) = {}
  BY DEF SendMessage, PageOK, Memory, IsRunning
<1>2. bs \in Bubbles(Shown) /\ LastRuns(bs)
  BY <1>1 DEF PageOK, Memory, Bubbles, Shown
<1>3. bs \o <<User(t), Answer(<<>>, "running")>> = new
  <2> DEFINE u == User(t)
             a == Answer(<<>>, "running")
  <2>1. u \in Bubble(Shown) /\ a \in Bubble(Shown)
    BY <1>1, NewBubbles
  <2> HIDE DEF u, a, bs
  <2>2. bs \o <<u, a>> = Append(Append(bs, u), a)
    <3>1. bs \in Seq(Bubble(Shown))
      BY <1>2 DEF Bubbles
    <3> QED
      BY <2>1, <3>1
  <2> QED
    BY <2>2 DEF u, a
<1>4. Moves(bs, new, {}, {}, page.recovered[c])
  BY <1>1 DEF Moves
<1>5. new \in Bubbles(Shown)
  <2>1. {} \in SUBSET Shown
    OBVIOUS
  <2> HIDE DEF new, bs
  <2> QED
    BY <1>2, <1>4, <2>1, MovesKeep
<1>6. P \in [Conv -> 0..MaxTurns]
  BY <1>1, ChatAssumption DEF Memory, Turn
<1>7. Append(page.chains, ch) \in Seq([conv : Conv, turn : Turn, phase : {"socket", "ack"}])
  <2>1. ch \in [conv : Conv, turn : Turn, phase : {"socket", "ack"}]
    BY <1>1
  <2> HIDE DEF ch
  <2> QED
    BY <1>1, <2>1, AppendProperties DEF Memory
<1>8. page' = [page EXCEPT !.bubbles = [@ EXCEPT ![c] = new], !.sending = TRUE,
                           !.chains = Append(@, ch), !.pending = P]
  BY <1>3 DEF SendMessage
<1> HIDE DEF new, ch, P, t
<1>9. /\ page' \in Memory /\ page'.list = page.list /\ page'.active = page.active
      /\ page'.bubbles = [page.bubbles EXCEPT ![c] = new]
  BY <1>1, <1>5, <1>6, <1>7, <1>8 DEF Memory, Bubbles, Shown
<1>10. \A d \in Conv : Moves(page.bubbles[d], page'.bubbles[d], Delivered(d), Fetched(d), page.recovered[d])
  <2> TAKE d \in Conv
  <2>1. CASE d = c
    <3>1. page'.bubbles[c] = new
      BY <1>1, <1>9 DEF Memory
    <3> QED
      BY <1>4, <2>1, <3>1, MovesMore
  <2>2. CASE d # c
    BY <1>1, <1>9, <2>2 DEF Moves, Memory
  <2> QED
    BY <2>1, <2>2
<1> QED
  BY <1>9, <1>10 DEF PageMoves, PageOK, Listed

Chain == [conv : Conv, turn : Turn, phase : {"socket", "ack"}]

\* An action that marks the running answer of c and stores the page.
LEMMA MarkedMoves ==
  ASSUME PageOK, NEW c \in Conv, NEW s \in {"done", "error"},
         page' = Finish(MarkRunning(Disarm(page), c, s), c)
  PROVE  PageMoves
<1> DEFINE p == Disarm(page)
           bs == page.bubbles[c]
           new == Marked(bs, s)
           q == MarkRunning(p, c, s)
<1>1. page \in Memory /\ bs \in Bubbles(Shown) /\ LastRuns(bs)
  BY DEF PageOK, Memory, Bubbles, Shown
<1>2. SameShown(page, p) /\ p \in Memory /\ p.bubbles[c] = bs
  BY <1>1, Flags DEF SameShown
<1> HIDE DEF bs, p
<1>3. Moves(bs, new, {}, {}, page.recovered[c])
  BY <1>1, BubbleFunctions
<1>4. q = Put(p, c, new)
  BY <1>2, PageFunctions
<1> HIDE DEF new, q
<1>5. new \in Bubbles(Shown)
  <2>1. {} \in SUBSET Shown
    OBVIOUS
  <2> QED
    BY <1>1, <1>3, <2>1, MovesKeep
<1>6. SameBut(p, Put(p, c, new), c) /\ Put(p, c, new).bubbles[c] = new
  BY <1>2, <1>5, PutIsSameBut
<1>7. SameBut(page, q, c) /\ q.bubbles[c] = new
  BY <1>1, <1>2, <1>4, <1>6, SameTwice
<1>8. q \in Memory
  BY <1>7 DEF SameBut
<1>9. SameShown(q, Finish(q, c))
  BY <1>8, Flags
<1>10. SameBut(page, Finish(q, c), c) /\ Finish(q, c).bubbles[c] = new
  BY <1>7, <1>9 DEF SameBut, SameShown
<1>11. page' = Finish(q, c)
  BY DEF p, q
<1> QED
  BY <1>3, <1>10, <1>11, OneConversation DEF bs

LEMMA WatchdogMoves ==
  ASSUME PageOK, WatchdogFires
  PROVE  PageMoves /\ (Save \/ Kept)
<1> DEFINE c == page.watchdog
           p == Disarm(page)
<1>1. page \in Memory /\ c \in Conv
  BY DEF WatchdogFires, PageOK, Memory
<1>2. CASE IsRunning(p, c)
  BY <1>1, <1>2, MarkedMoves DEF WatchdogFires
<1>3. CASE ~ IsRunning(p, c)
  <2>1. page' = p /\ UNCHANGED stored
    BY <1>3 DEF WatchdogFires
  <2>2. SameShown(page, p)
    BY <1>1, Flags
  <2> QED
    BY <2>1, <2>2, SameBubbles DEF SameShown, PageOK, Listed
<1> QED
  BY <1>2, <1>3

LEMMA CreateTimesOutMoves ==
  ASSUME PageOK, NEW ch, CreateTimesOut(ch)
  PROVE  PageMoves
<1> DEFINE q == Unwait(page, {ch})
<1>1. page \in Memory /\ SamePlaces(page, q) /\ q.bubbles = page.bubbles
  BY UnwaitKeeps DEF PageOK
<1>2. page' = GiveUp(q, {ch.conv})
  BY DEF CreateTimesOut
<1> HIDE DEF q
<1>3. q \in Memory /\ \A c \in Conv : LastRuns(q.bubbles[c])
  BY <1>1 DEF SamePlaces, PageOK
<1>4. Dropped(q, page')
  BY <1>2, <1>3, GiveUpDrops
<1>5. Dropped(page, page')
  BY <1>1, <1>4 DEF Dropped, SamePlaces
<1> QED
  BY <1>5, PlaceholdersDropped

LEMMA PhaseChains ==
  ASSUME NEW p \in Memory, NEW phase
  PROVE  InPhase(p, phase) \in Seq(Chain)
<1>1. p.chains \in Seq(Chain)
  BY DEF Memory, Chain
<1> QED
  BY <1>1, FilteredIn DEF InPhase, Chain

LEMMA SocketOpensMoves ==
  ASSUME PageOK, SocketOpens
  PROVE  PageMoves /\ Kept
<1> DEFINE subs == ToSubscribe(page, socket.resub)
           opened(c) == {i \in DOMAIN Waiting : Waiting[i].conv = c}
           C == [i \in DOMAIN page.chains |-> [page.chains[i] EXCEPT !.phase = "ack"]]
           P == [c \in Conv |->
                   IF opened(c) = {} THEN page.pending[c]
                   ELSE Waiting[CHOOSE i \in opened(c) : \A j \in opened(c) : j <= i].turn]
           R == [c \in Conv |-> page.recovered[c] \/ ("all" \in socket.resub /\ \E i \in DOMAIN subs : subs[i] = c)]
<1>1. page' = [page EXCEPT !.chains = C, !.pending = P, !.recovered = R] /\ UNCHANGED stored
  BY DEF SocketOpens
<1>2. page \in Memory /\ page.chains \in Seq(Chain)
  BY DEF PageOK, Memory, Chain
<1>3. C \in Seq(Chain)
  <2>1. Len(page.chains) \in Nat /\ DOMAIN page.chains = 1..Len(page.chains)
    BY <1>2, LenProperties
  <2>2. \A i \in DOMAIN page.chains : [page.chains[i] EXCEPT !.phase = "ack"] \in Chain
    <3>1. \A i \in DOMAIN page.chains : page.chains[i] \in Chain
      BY <1>2, ElementOfSeq
    <3> QED
      BY <3>1 DEF Chain
  <2>3. C \in [1..Len(page.chains) -> Chain]
    BY <2>1, <2>2
  <2> HIDE DEF C
  <2> QED
    BY <2>1, <2>3, SeqDef
<1>4. P \in [Conv -> 0..MaxTurns]
  <2>1. Waiting \in Seq(Chain)
    BY <1>2, PhaseChains DEF Waiting
  <2>2. ASSUME NEW c \in Conv, opened(c) # {}
        PROVE  (CHOOSE i \in opened(c) : \A j \in opened(c) : j <= i) \in opened(c)
    <3>1. Len(Waiting) \in Nat /\ DOMAIN Waiting = 1..Len(Waiting)
      BY <2>1, LenProperties
    <3>2. PICK i \in opened(c) : \A j \in opened(c) : j <= i
      <4> DEFINE O == opened(c)
      <4>1. O \in SUBSET (1..Len(Waiting)) /\ O # {}
        BY <2>2, <3>1
      <4> HIDE DEF O
      <4>2. \E i \in O : \A j \in O : j <= i
        BY <3>1, <4>1, LastPlace
      <4> QED
        BY <4>2 DEF O
    <3> HIDE DEF opened
    <3> QED
      BY <3>2
  <2>3. \A i \in DOMAIN Waiting : Waiting[i].turn \in 0..MaxTurns
    <3>1. \A i \in DOMAIN Waiting : Waiting[i] \in Chain
      BY <2>1, ElementOfSeq
    <3> QED
      BY <3>1, ChatAssumption DEF Turn, Chain
  <2>4. \A c \in Conv : page.pending[c] \in 0..MaxTurns
    BY <1>2 DEF Memory
  <2>5. ASSUME NEW c \in Conv PROVE P[c] \in 0..MaxTurns
    <3>1. CASE opened(c) = {}
      BY <2>4, <3>1
    <3>2. CASE opened(c) # {}
      <4> DEFINE i == CHOOSE i \in opened(c) : \A j \in opened(c) : j <= i
      <4>1. i \in opened(c)
        BY <2>2, <3>2
      <4>2. P[c] = Waiting[i].turn
        BY <3>2
      <4> HIDE DEF i
      <4> QED
        BY <2>3, <4>1, <4>2
    <3> QED
      BY <3>1, <3>2
  <2> QED
    BY <2>5
<1>5. R \in [Conv -> BOOLEAN]
  BY <1>2 DEF Memory
<1> HIDE DEF C, P, R
<1>6. page' \in Memory /\ page'.bubbles = page.bubbles /\ page'.list = page.list
      /\ page'.active = page.active
  BY <1>1, <1>2, <1>3, <1>4, <1>5 DEF Memory, Chain
<1> QED
  BY <1>1, <1>6, SameBubbles DEF PageOK, Listed

LEMMA SocketClosesMoves ==
  ASSUME PageOK, SocketCloses
  PROVE  PageMoves /\ (Save \/ Kept)
<1> DEFINE p == [Disarm(page) EXCEPT !.chains = InPhase(page, "ack")]
<1>1. page \in Memory
  BY DEF PageOK
<1>2. InPhase(page, "ack") \in Seq(Chain)
  BY <1>1, PhaseChains
<1>3. /\ p \in Memory /\ p.list = page.list /\ p.active = page.active
      /\ p.bubbles = page.bubbles /\ p.recovered = page.recovered
  <2> DEFINE C == InPhase(page, "ack")
  <2>1. C \in Seq(Chain)
    BY <1>2
  <2> HIDE DEF C
  <2>2. p = [page EXCEPT !.watchdog = NoConv, !.chains = C]
    BY DEF Disarm, C
  <2> QED
    BY <1>1, <2>1, <2>2 DEF Memory, Chain
<1> HIDE DEF p
<1>4. CASE page' = p /\ UNCHANGED stored
  BY <1>3, <1>4, SameBubbles DEF PageOK, Listed
<1>5. CASE page' = Interrupt(p) /\ Save
  <2> DEFINE a == p.active
             marked == p.sending /\ a # NoConv
             m == MarkRunning(p, a, "error")
             q == IF marked THEN Finish(m, a) ELSE p
  <2>1. page' = Refuse(q, Affected(p))
    BY <1>5 DEF Interrupt
  <2>2. CASE ~ marked
    <3>1. Dropped(p, page')
      BY <1>3, <2>1, <2>2, RefuseDrops DEF PageOK
    <3>2. Dropped(page, page')
      BY <1>3, <3>1 DEF Dropped, SamePlaces
    <3> QED
      BY <1>5, <3>2, PlaceholdersDropped
  <2>3. CASE marked
    <3> DEFINE bs == page.bubbles[a]
               new == Marked(bs, "error")
    <3>1. a \in Conv /\ bs \in Bubbles(Shown) /\ LastRuns(bs)
      BY <1>1, <1>3, <2>3 DEF PageOK, Memory, Bubbles, Shown
    <3>2. Moves(bs, new, {}, {}, page.recovered[a])
      BY <3>1, BubbleFunctions
    <3>3. RunningIn(new) = {}
      <4>1. CASE RunningIn(bs) = {}
        BY <4>1 DEF Marked
      <4>2. CASE RunningIn(bs) # {}
        <5>1. RunningAt(bs) \in DOMAIN bs /\ \A i \in RunningIn(bs) : i = RunningAt(bs)
          BY <3>1, <4>2, RunsLast DEF LastRuns
        <5>2. bs[RunningAt(bs)] \in Bubble(Shown)
          BY <3>1, <5>1, ElementOfSeq DEF Bubbles
        <5>3. new = [bs EXCEPT ![RunningAt(bs)].status = "error"]
          BY <4>2 DEF Marked
        <5> QED
          BY <5>1, <5>2, <5>3 DEF RunningIn, Bubble
      <4> QED
        BY <4>1, <4>2
    <3>4. m = Put(p, a, new)
      BY <1>3, <3>1, PageFunctions
    <3> HIDE DEF new, bs, a, m
    <3>5. new \in Bubbles(Shown)
      <4>1. {} \in SUBSET Shown
        OBVIOUS
      <4> QED
        BY <3>1, <3>2, <4>1, MovesKeep
    <3>6. SameBut(p, m, a) /\ m.bubbles[a] = new /\ m.recovered = p.recovered
      BY <1>3, <3>1, <3>4, <3>5, PutIsSameBut
    <3>7. m \in Memory
      BY <3>6 DEF SameBut
    <3>8. SameShown(m, Finish(m, a))
      BY <3>1, <3>7, Flags
    <3>9. q = Finish(m, a)
      BY <2>3 DEF m, a
    <3> HIDE DEF q
    <3>10. q \in Memory /\ q.bubbles[a] = new /\ q.list = page.list /\ q.active = page.active
           /\ q.recovered = page.recovered /\ \A d \in Conv : d # a => q.bubbles[d] = page.bubbles[d]
      BY <1>3, <3>6, <3>8, <3>9 DEF SameShown, SameBut
    <3>11. \A d \in Conv : LastRuns(q.bubbles[d])
      <4> TAKE d \in Conv
      <4>1. CASE d = a
        BY <3>3, <3>10, <4>1 DEF LastRuns
      <4>2. CASE d # a
        BY <3>10, <4>2 DEF PageOK
      <4> QED
        BY <4>1, <4>2
    <3>12. Dropped(q, page')
      BY <2>1, <3>10, <3>11, RefuseDrops
    <3>13. page'.bubbles[a] = new
      BY <3>1, <3>3, <3>10, <3>12 DEF Dropped, DropPlaceholder
    <3>14. \A d \in Conv : Moves(page.bubbles[d], page'.bubbles[d], Delivered(d), Fetched(d), page.recovered[d])
      <4> TAKE d \in Conv
      <4>1. CASE d = a
        BY <3>2, <3>13, <4>1, MovesMore DEF bs
      <4>2. CASE d # a
        <5> DEFINE old == page.bubbles[d]
        <5>1. old \in Bubbles(Shown) /\ LastRuns(old)
          BY DEF PageOK, Memory, Bubbles, Shown
        <5>2. Moves(old, DropPlaceholder(old), {}, {}, page.recovered[d])
          BY <5>1, BubbleFunctions
        <5>3. Moves(old, old, {}, {}, page.recovered[d])
          BY DEF Moves
        <5>4. page'.bubbles[d] \in {old, DropPlaceholder(old)}
          BY <3>10, <3>12, <4>2 DEF Dropped
        <5>5. Moves(old, page'.bubbles[d], {}, {}, page.recovered[d])
          BY <5>2, <5>3, <5>4
        <5> HIDE DEF old
        <5> QED
          BY <5>5, MovesMore DEF old
      <4> QED
        BY <4>1, <4>2
    <3> QED
      BY <1>5, <3>10, <3>12, <3>14 DEF PageMoves, Dropped, SamePlaces, PageOK, Listed
  <2> QED
    BY <2>2, <2>3
<1> QED
  BY <1>4, <1>5 DEF SocketCloses, p

LEMMA HeadFrame ==
  ASSUME toPage \in Seq(PageFrame), NEW type, Receive(type)
  PROVE  /\ Head(toPage) \in PageFrame /\ Head(toPage).type = type
         /\ toPage # <<>> /\ Head(toPage).conv \in Conv
         /\ type = "delta" => Head(toPage).piece \in Piece /\ Head(toPage).piece \in Shown
         /\ type = "snapshot" => Head(toPage) \in Snapshot
         /\ toPage' \in Seq(PageFrame)
<1>1. toPage # <<>> /\ Head(toPage).type = type /\ toPage' = Tail(toPage)
  BY DEF Receive
<1>2. Head(toPage) \in PageFrame /\ Tail(toPage) \in Seq(PageFrame)
  BY <1>1, HeadTailProperties
<1>3. Head(toPage).conv \in Conv
  BY <1>2 DEF PageFrame
<1>4. type = "delta" => Head(toPage).piece \in Piece
  BY <1>1, <1>2 DEF PageFrame
<1>5. type = "snapshot" => Head(toPage) \in Snapshot
  BY <1>1, <1>2 DEF PageFrame, Snapshot
<1> QED
  BY <1>1, <1>2, <1>3, <1>4, <1>5 DEF Shown

LEMMA ToIsOpen ==
  ASSUME PageOK, Head(toPage).conv \in Conv
  PROVE  To \in Conv \cup {NoConv}
  BY DEF To, Target, PageOK, Memory

LEMMA IgnoredMoves ==
  ASSUME PageOK, Ignored
  PROVE  PageMoves /\ Kept
  BY SamePage DEF Ignored

LEMMA CreatedMoves ==
  ASSUME PageOK, toPage \in Seq(PageFrame), ReceiveCreated
  PROVE  PageMoves /\ (Save \/ Kept)
<1> DEFINE c == Head(toPage).conv
           p == Feed(page, To)
           u == Unwait(p, {AckChain(p, c)})
           v == [u EXCEPT !.recovered[c] = FALSE]
           q == Arm(v, c)
<1>1. Receive("created") /\ c \in Conv
  BY HeadFrame DEF ReceiveCreated
<1>2. CASE Ignored
  BY <1>2, IgnoredMoves
<1>3. CASE To # NoConv /\ page' \in {p, q} /\ (Save \/ UNCHANGED stored)
  <2>1. page \in Memory /\ To \in Conv
    BY <1>1, <1>3, ToIsOpen DEF PageOK
  <2>2. SameShown(page, p)
    BY <2>1, Flags
  <2>9. p \in Memory
    BY <2>2 DEF SameShown
  <2> HIDE DEF p
  <2>8. SamePlaces(p, u) /\ u.bubbles = p.bubbles
    BY <2>9, UnwaitKeeps
  <2>3. SamePlaces(page, u) /\ u.bubbles = page.bubbles
    BY <2>2, <2>8 DEF SamePlaces, SameShown
  <2>4. u \in Memory
    BY <2>3 DEF SamePlaces
  <2> HIDE DEF u
  <2>5. v \in Memory /\ v.list = page.list /\ v.active = page.active /\ v.bubbles = page.bubbles
    BY <1>1, <2>3, <2>4 DEF Memory, SamePlaces
  <2> HIDE DEF v
  <2>6. SameShown(v, q)
    BY <1>1, <2>5, Flags
  <2>7. /\ page' \in Memory /\ page'.list = page.list /\ page'.active = page.active
        /\ page'.bubbles = page.bubbles
    BY <1>3, <2>2, <2>5, <2>6 DEF SameShown
  <2> QED
    BY <1>3, <2>7, SameBubbles DEF PageOK, Listed
<1> QED
  BY <1>2, <1>3 DEF ReceiveCreated

LEMMA RefusedMoves ==
  ASSUME PageOK, toPage \in Seq(PageFrame), ReceiveRefused
  PROVE  PageMoves /\ (Save \/ Kept)
<1>1. CASE Ignored
  BY <1>1, IgnoredMoves
<1>2. CASE page' = Refuse(Disarm(page), {Head(toPage).conv}) /\ Save
  <2> DEFINE p == Disarm(page)
  <2>1. Receive("refused") /\ Head(toPage).conv \in Conv
    BY HeadFrame DEF ReceiveRefused
  <2>2. SameShown(page, p)
    BY <2>1, Flags DEF PageOK
  <2> HIDE DEF p
  <2>3. p \in Memory /\ \A d \in Conv : LastRuns(p.bubbles[d])
    BY <2>2 DEF SameShown, PageOK
  <2>4. Dropped(p, Refuse(p, {Head(toPage).conv}))
    BY <2>3, RefuseDrops
  <2>5. page' = Refuse(p, {Head(toPage).conv})
    BY <1>2 DEF p
  <2>6. Dropped(p, page')
    BY <2>4, <2>5
  <2>7. Dropped(page, page')
    BY <2>2, <2>6 DEF Dropped, SamePlaces, SameShown
  <2> QED
    BY <1>2, <2>7, PlaceholdersDropped
<1> QED
  BY <1>1, <1>2 DEF ReceiveRefused

\* A function of the bubbles of To, after the frame fed the watchdog.
LEMMA FedMoves ==
  ASSUME PageOK, To \in Conv, NEW new,
         NEW X \in SUBSET Delivered(To),
         page' = Put(Feed(page, To), To, new),
         Moves(page.bubbles[To], new, X, {}, page.recovered[To])
  PROVE  /\ PageMoves
         /\ UNCHANGED stored /\ EndsNothing(page.bubbles[To], new) => Kept
<1> DEFINE c == To
           bs == page.bubbles[c]
           p == Feed(page, c)
<1>1. page \in Memory /\ bs \in Bubbles(Shown) /\ LastRuns(bs) /\ c \in Conv
  BY DEF PageOK, Memory, Bubbles, Shown
<1>2. SameShown(page, p)
  BY <1>1, Flags
<1>3. page' = Put(p, c, new)
  OBVIOUS
<1>4. Moves(bs, new, X, {}, page.recovered[c])
  OBVIOUS
<1>5. X \in SUBSET Shown
  BY DEF Delivered, Shown
<1> HIDE DEF bs, p, c
<1>6. new \in Bubbles(Shown)
  <2>1. {} \in SUBSET Shown
    OBVIOUS
  <2> QED
    BY <1>1, <1>4, <1>5, <2>1, MovesKeep
<1>7. p \in Memory
  BY <1>2 DEF SameShown
<1>8. SameBut(p, Put(p, c, new), c) /\ Put(p, c, new).bubbles[c] = new
  BY <1>1, <1>6, <1>7, PutIsSameBut
<1>9. SameBut(page, page', c) /\ page'.bubbles[c] = new
  BY <1>2, <1>3, <1>8 DEF SameBut, SameShown
<1>10. X \subseteq Delivered(c) /\ {} \subseteq Fetched(c)
  BY DEF c
<1> QED
  BY <1>1, <1>4, <1>9, <1>10, OneConversation DEF bs, c

\* Moves that only append a running answer, or let the running one go on.
LEMMA EnsuredEndsNothing ==
  ASSUME NEW bs \in Bubbles(Shown), LastRuns(bs), NEW x \in Shown
  PROVE  EndsNothing(bs, Ensured(bs)) /\ EndsNothing(bs, Said(Ensured(bs), x))
<1>1. Len(bs) \in Nat /\ DOMAIN bs = 1..Len(bs)
  BY LenProperties DEF Bubbles
<1> DEFINE e == Ensured(bs)
           w == Said(e, x)
<1>2. Moves(bs, e, {}, {}, FALSE) /\ Moves(bs, w, {x}, {}, FALSE)
  BY BubbleFunctions
<1>3. {} \in SUBSET Shown /\ {x} \in SUBSET Shown
  OBVIOUS
<1>4. e = bs \/ (RunningIn(e) # {} /\ Len(e) = Len(bs) + 1)
  <2> DEFINE b == Answer(<<>>, "running")
  <2>1. b \in Bubble(Shown) /\ b.status = "running"
    BY NewBubbles DEF Answer
  <2> HIDE DEF b
  <2>2. /\ Len(Append(bs, b)) = Len(bs) + 1 /\ Append(bs, b)[Len(bs) + 1] = b
        /\ Append(bs, b) \in Bubbles(Shown)
    BY <2>1, AppendProperties DEF Bubbles
  <2>3. DOMAIN Append(bs, b) = 1..(Len(bs) + 1)
    BY <2>2, LenProperties DEF Bubbles
  <2>4. Len(bs) + 1 \in RunningIn(Append(bs, b))
    BY <1>1, <2>1, <2>2, <2>3 DEF RunningIn
  <2> QED
    BY <2>2, <2>4 DEF Ensured, b
<1> HIDE DEF e
<1>5. e \in Bubbles(Shown) /\ LastRuns(e)
  BY <1>2, <1>3, MovesKeep
<1>6. w = e \/ (RunningIn(w) # {} /\ Len(w) = Len(e) /\ RunningIn(e) # {})
  <2> SUFFICES ASSUME RunningIn(e) # {} PROVE RunningIn(w) # {} /\ Len(w) = Len(e)
    BY DEF Said
  <2> DEFINE n == Len(e)
  <2>1. RunningAt(e) = n /\ n \in DOMAIN e /\ e[n].status = "running"
    BY <1>5, RunsLast
  <2>2. e[n] \in Bubble(Shown)
    BY <1>5, <2>1, ElementOfSeq DEF Bubbles
  <2> DEFINE b == [e[n] EXCEPT !.text = Append(@, x)]
  <2>3. b \in Bubble(Shown) /\ b.status = "running"
    <3>1. e[n].text \in Seq(Shown)
      BY <2>2 DEF Bubble
    <3>2. Append(e[n].text, x) \in Seq(Shown)
      BY <3>1, AppendProperties
    <3> QED
      BY <2>1, <2>2, <3>2 DEF Bubble
  <2>4. w = [e EXCEPT ![n] = b]
    BY <2>1 DEF Said
  <2> HIDE DEF b, w, n
  <2>5. w \in Bubbles(Shown) /\ Len(w) = Len(e) /\ DOMAIN w = DOMAIN e /\ w[n] = b
    BY <1>5, <2>1, <2>3, <2>4, ExceptSeq DEF Bubbles
  <2>6. n \in RunningIn(w)
    BY <2>1, <2>3, <2>5 DEF RunningIn
  <2> QED
    BY <2>5, <2>6
<1> HIDE DEF w
<1>7. EndsNothing(bs, e)
  <2>1. e = bs \/ (RunningIn(e) # {} /\ Len(e) <= Len(bs) + 1)
    BY <1>1, <1>4
  <2> QED
    BY <1>2, <1>3, <2>1, NothingEnded
<1>8. EndsNothing(bs, w)
  <2>1. w = bs \/ (RunningIn(w) # {} /\ Len(w) <= Len(bs) + 1)
    BY <1>1, <1>4, <1>6
  <2> QED
    BY <1>2, <1>3, <2>1, NothingEnded
<1> QED
  BY <1>7, <1>8 DEF e, w

LEMMA StartedMoves ==
  ASSUME PageOK, toPage \in Seq(PageFrame), ReceiveStarted
  PROVE  PageMoves /\ (Save \/ Kept)
<1>1. CASE Ignored
  BY <1>1, IgnoredMoves
<1>2. CASE To # NoConv /\ page' = EnsureBubble(Feed(page, To), To) /\ UNCHANGED stored
  <2> DEFINE bs == page.bubbles[To]
             p == Feed(page, To)
             new == Ensured(bs)
  <2>1. page \in Memory /\ To \in Conv
    BY <1>2, HeadFrame, ToIsOpen DEF PageOK, ReceiveStarted
  <2>2. bs \in Bubbles(Shown) /\ LastRuns(bs)
    BY <2>1 DEF PageOK, Memory, Bubbles, Shown
  <2>3. SameShown(page, p)
    BY <2>1, Flags
  <2>4. p \in Memory /\ p.bubbles[To] = bs
    BY <2>3 DEF SameShown
  <2>5. page' = Put(p, To, new)
    <3> HIDE DEF p, bs, new
    <3>1. EnsureBubble(p, To) = Put(p, To, Ensured(p.bubbles[To]))
      BY <2>1, <2>4, PageFunctions
    <3> QED
      BY <1>2, <2>4, <3>1 DEF p, new
  <2>6. Moves(bs, new, {}, {}, page.recovered[To])
    BY <2>2, BubbleFunctions
  <2>7. EndsNothing(bs, new)
    BY <2>2, EnsuredEndsNothing DEF Shown
  <2> HIDE DEF new
  <2> QED
    BY <1>2, <2>1, <2>5, <2>6, <2>7, FedMoves
<1> QED
  BY <1>1, <1>2 DEF ReceiveStarted

LEMMA DeltaMoves ==
  ASSUME PageOK, toPage \in Seq(PageFrame), ReceiveDelta
  PROVE  PageMoves /\ (Save \/ Kept)
<1>1. CASE Ignored
  BY <1>1, IgnoredMoves
<1>2. CASE To # NoConv /\ page' = AddText(EnsureBubble(Feed(page, To), To), To, Head(toPage).piece)
           /\ UNCHANGED stored
  <2> DEFINE bs == page.bubbles[To]
             p == Feed(page, To)
             x == Head(toPage).piece
             mid == Ensured(bs)
             new == Said(mid, x)
  <2>1. page \in Memory /\ To \in Conv /\ x \in Shown /\ x \in Piece /\ toPage # <<>>
        /\ Head(toPage).type = "delta"
    BY <1>2, HeadFrame, ToIsOpen DEF PageOK, ReceiveDelta
  <2>2. bs \in Bubbles(Shown) /\ LastRuns(bs)
    BY <2>1 DEF PageOK, Memory, Bubbles, Shown
  <2>3. SameShown(page, p)
    BY <2>1, Flags
  <2>4. p \in Memory /\ p.bubbles[To] = bs
    BY <2>3 DEF SameShown
  <2>5. Moves(bs, new, {x}, {}, page.recovered[To]) /\ Moves(bs, mid, {}, {}, page.recovered[To])
    BY <2>1, <2>2, BubbleFunctions
  <2>6. EndsNothing(bs, new)
    BY <2>1, <2>2, EnsuredEndsNothing
  <2>7. mid \in Bubbles(Shown)
    <3>1. {} \in SUBSET Shown
      OBVIOUS
    <3> HIDE DEF mid
    <3> QED
      BY <2>2, <2>5, <3>1, MovesKeep
  <2>8. page' = Put(p, To, new)
    <3> HIDE DEF p, bs, x
    <3>1. EnsureBubble(p, To) = Put(p, To, mid)
      BY <2>1, <2>4, PageFunctions
    <3> HIDE DEF mid
    <3>2. Put(p, To, mid) \in Memory /\ Put(p, To, mid).bubbles[To] = mid
      BY <2>1, <2>4, <2>7, PutKeeps
    <3> DEFINE e == Put(p, To, mid)
    <3>3. e \in Memory /\ e.bubbles[To] = mid
      BY <3>2
    <3> HIDE DEF e
    <3>4. AddText(e, To, x) = Put(e, To, new)
      BY <2>1, <3>3, PageFunctions
    <3>5. Put(e, To, new) = Put(p, To, new)
      BY <2>1, <2>4, PutTwice DEF e
    <3> QED
      BY <1>2, <3>1, <3>4, <3>5 DEF p, e, x
  <2>9. {x} \in SUBSET Delivered(To)
    BY <2>1 DEF Delivered, ReceiveDelta, Receive
  <2> HIDE DEF new, x
  <2> QED
    BY <1>2, <2>1, <2>5, <2>6, <2>8, <2>9, FedMoves
<1> QED
  BY <1>1, <1>2 DEF ReceiveDelta

LEMMA StatusMoves ==
  ASSUME PageOK, toPage \in Seq(PageFrame), ReceiveStatus
  PROVE  PageMoves /\ (Save \/ Kept)
<1>1. CASE Ignored
  BY <1>1, IgnoredMoves
<1>2. CASE To # NoConv /\ page' = AddStatus(Feed(page, To), To) /\ Save
  <2> DEFINE bs == page.bubbles[To]
             p == Feed(page, To)
             new == Noted(bs)
  <2>1. page \in Memory /\ To \in Conv
    BY <1>2, HeadFrame, ToIsOpen DEF PageOK, ReceiveStatus
  <2>2. bs \in Bubbles(Shown) /\ LastRuns(bs)
    BY <2>1 DEF PageOK, Memory, Bubbles, Shown
  <2>3. SameShown(page, p)
    BY <2>1, Flags
  <2>4. p \in Memory /\ p.bubbles[To] = bs
    BY <2>3 DEF SameShown
  <2>5. page' = Put(p, To, new)
    <3> HIDE DEF p, bs, new
    <3>1. AddStatus(p, To) = Put(p, To, Noted(p.bubbles[To]))
      BY <2>1, <2>4, PageFunctions
    <3> QED
      BY <1>2, <2>4, <3>1 DEF p, new
  <2>6. Moves(bs, new, {StatusNote}, {}, page.recovered[To])
    BY <2>2, BubbleFunctions
  <2>7. {StatusNote} \in SUBSET Delivered(To)
    BY DEF Delivered
  <2> HIDE DEF new
  <2> QED
    BY <1>2, <2>1, <2>5, <2>6, <2>7, FedMoves
<1> QED
  BY <1>1, <1>2 DEF ReceiveStatus

LEMMA TerminalMoves ==
  ASSUME PageOK, toPage \in Seq(PageFrame), ReceiveDone \/ ReceiveError
  PROVE  PageMoves /\ (Save \/ Kept)
<1>1. CASE Ignored
  BY <1>1, IgnoredMoves
<1>2. ASSUME To # NoConv, NEW s \in {"done", "error"}, Save,
             page' = Finish(MarkRunning(Disarm(page), To, s), To)
      PROVE  PageMoves /\ (Save \/ Kept)
  <2>1. To \in Conv
    BY <1>2, HeadFrame, ToIsOpen DEF ReceiveDone, ReceiveError
  <2> QED
    BY <1>2, <2>1, MarkedMoves
<1> QED
  BY <1>1, <1>2 DEF ReceiveDone, ReceiveError

LEMMA SnapshotMoves ==
  ASSUME PageOK, toPage \in Seq(PageFrame), ReceiveSnapshot
  PROVE  PageMoves /\ (Save \/ Kept)
<1> DEFINE f == Head(toPage)
           c == f.conv
           q == Reconcile(page, f)
           bs == page.bubbles[c]
           new == q.bubbles[c]
           Y == PiecesOf(f.rows)
<1>1. Receive("snapshot") /\ toPage # <<>> /\ f.type = "snapshot" /\ f \in Snapshot /\ c \in Conv
  BY HeadFrame DEF ReceiveSnapshot
<1>2. page \in Memory /\ \A d \in Conv : LastRuns(page.bubbles[d])
  BY DEF PageOK
<1>3. CASE ~ Listed(page, c)
  BY <1>3, SamePage DEF ReceiveSnapshot
<1>4. CASE Listed(page, c)
  <2>1. page' = q /\ (Save \/ (UNCHANGED stored /\ ~ Finishes(page, f)))
    BY <1>4 DEF ReceiveSnapshot
  <2>2. /\ SameBut(page, q, c) /\ Moves(bs, new, {}, Y, page.recovered[c])
        /\ new = bs \/ RunningIn(new) = {} \/ Len(new) <= Len(bs) + 1
    BY <1>1, <1>2, ReconcileMoves
  <2>3. {} \subseteq Delivered(c) /\ Y \subseteq Fetched(c)
    BY <1>1 DEF Fetched, PiecesOf
  <2>4. ~ Finishes(page, f) => q = page \/ RunningIn(new) # {}
    BY DEF Finishes, IsRunning
  <2>5. bs \in Bubbles(Shown) /\ LastRuns(bs) /\ {} \in SUBSET Shown /\ Y \in SUBSET Shown
    BY <1>1, <1>2 DEF Memory, Bubbles, Shown, PiecesOf
  <2>6. ~ Finishes(page, f) => EndsNothing(bs, new)
    <3> SUFFICES ASSUME ~ Finishes(page, f) PROVE EndsNothing(bs, new)
      OBVIOUS
    <3>1. new = bs \/ (RunningIn(new) # {} /\ Len(new) <= Len(bs) + 1)
      <4>1. CASE q = page
        BY <4>1
      <4>2. CASE RunningIn(new) # {}
        <5> HIDE DEF q, bs
        <5> QED
          BY <2>2, <4>2
      <4> QED
        BY <2>4, <4>1, <4>2
    <3> HIDE DEF bs, new, Y
    <3> QED
      BY <2>2, <2>5, <3>1, NothingEnded
  <2> HIDE DEF f, q, Y, bs, new
  <2>7. c \in Conv /\ SameBut(page, page', c) /\ Moves(page.bubbles[c], page'.bubbles[c], {}, Y, page.recovered[c])
        /\ new = page'.bubbles[c] /\ bs = page.bubbles[c]
    BY <1>1, <2>1, <2>2 DEF bs, new
  <2> HIDE DEF c
  <2>8. PageMoves /\ (UNCHANGED stored /\ EndsNothing(bs, new) => Kept)
    <3> DEFINE X == {}
    <3>1. X \subseteq Delivered(c) /\ Moves(page.bubbles[c], page'.bubbles[c], X, Y, page.recovered[c])
      BY <2>3, <2>7
    <3> HIDE DEF X
    <3>2. PageMoves /\ (UNCHANGED stored /\ EndsNothing(page.bubbles[c], page'.bubbles[c]) => Kept)
      BY <2>3, <2>7, <3>1, OneConversation
    <3> QED
      BY <2>7, <3>2
  <2> QED
    BY <2>1, <2>6, <2>8
<1> QED
  BY <1>3, <1>4

LEMMA PageStep ==
  ASSUME PageOK, toPage \in Seq(PageFrame), [ChatNext]_vars
  PROVE  Reload \/ (PageMoves /\ (Save \/ Kept))
<1>1. CASE UserStep
  BY <1>1, NewConversationMoves, SelectConversationMoves, DeleteConversationMoves, SendMessageMoves,
     SamePage DEF UserStep, NewConversation, SelectConversation, DeleteConversation, SendMessage, StopRun
<1>2. CASE SocketCloses
  BY <1>2, SocketClosesMoves
<1>3. CASE FrameStep
  BY <1>3, CreatedMoves, RefusedMoves, StartedMoves, DeltaMoves, StatusMoves, TerminalMoves, SnapshotMoves
     DEF FrameStep
<1>4. CASE TimerStep
  BY <1>4, WatchdogMoves, CreateTimesOutMoves, SamePage DEF TimerStep, CreateTimesOut, RetryTimer
<1>5. CASE HandleStep
  BY <1>5, SamePage DEF HandleStep, HostCreate, HostMessage, HostStop, HostSubscribe, Handle
<1>6. CASE SocketOpens
  BY <1>6, SocketOpensMoves
<1>7. ASSUME NEW c \in Conv, RunStep(c)
      PROVE  PageMoves /\ Kept
  BY <1>7, SamePage DEF RunStep, HostDelta, HostEnd, HostClear
<1>8. CASE UNCHANGED vars
  BY <1>8, SamePage DEF vars
<1> QED
  BY <1>1, <1>2, <1>3, <1>4, <1>5, <1>6, <1>7, <1>8 DEF ChatNext, SystemStep

-------------------------------------------------------------------------------
(* The socket, the frames and the host keep their types. *)

SocketState == [state : {"none", "connecting", "open"}, attempts : 0..MaxReconnects,
                timers : Nat, resub : SUBSET {"all", "affected"}]

Spent == [turn : [Conv -> 0..MaxTurns], sends : Nat, stops : Nat, reloads : Nat, dropped : BOOLEAN]

LinkOK ==
  /\ socket \in SocketState
  /\ toHost \in Seq(HostFrame)
  /\ toPage \in Seq(PageFrame)
  /\ host \in [Conv -> HostState]
  /\ spent \in Spent

LEMMA SubscribeFrames ==
  ASSUME NEW p \in Memory, NEW resub
  PROVE  Subscribes(ToSubscribe(p, resub)) \in Seq(HostFrame)
<1> DEFINE cs == ToSubscribe(p, resub)
<1>1. p.list \in Seq(Conv)
  BY DEF Memory
<1>2. cs \in Seq(Conv)
  BY <1>1, FilteredIn DEF ToSubscribe
<1> HIDE DEF cs
<1>3. Len(cs) \in Nat /\ DOMAIN cs = 1..Len(cs) /\ \A i \in DOMAIN cs : cs[i] \in Conv
  BY <1>2, LenProperties, ElementOfSeq
<1>4. \A c \in Conv : SubscribeFrame(c) \in HostFrame
  BY DEF SubscribeFrame, HostFrame
<1>5. Subscribes(cs) \in [1..Len(cs) -> HostFrame]
  BY <1>3, <1>4 DEF Subscribes
<1>6. Subscribes(cs) \in Seq(HostFrame)
  <2> DEFINE s == Subscribes(cs)
  <2>1. s \in [1..Len(cs) -> HostFrame]
    BY <1>5
  <2> HIDE DEF s
  <2>2. s \in Seq(HostFrame)
    BY <1>3, <2>1, SeqDef
  <2> QED
    BY <2>2 DEF s
<1> QED
  BY <1>6 DEF cs

LEMMA CreateFrames ==
  ASSUME NEW chs \in Seq(Chain)
  PROVE  Creates(chs) \in Seq(HostFrame)
<1>1. Len(chs) \in Nat /\ DOMAIN chs = 1..Len(chs) /\ \A i \in DOMAIN chs : chs[i] \in Chain
  BY LenProperties, ElementOfSeq
<1>2. \A i \in DOMAIN chs : CreateFrame(chs[i].conv) \in HostFrame
  BY <1>1 DEF CreateFrame, HostFrame, Chain
<1> DEFINE s == Creates(chs)
<1>3. s \in [1..Len(chs) -> HostFrame]
  BY <1>1, <1>2 DEF Creates
<1> HIDE DEF s
<1>4. s \in Seq(HostFrame)
  BY <1>1, <1>3, SeqDef
<1> QED
  BY <1>4 DEF s

LEMMA FrameTypes ==
  /\ \A c \in Conv : CreateFrame(c) \in HostFrame /\ StopFrame(c) \in HostFrame
                     /\ SubscribeFrame(c) \in HostFrame
  /\ \A c \in Conv, t \in Turn : MessageFrame(c, t) \in HostFrame
  /\ \A c \in Conv : \A type \in {"created", "refused", "started", "status", "done", "error"} :
        Frame(type, c) \in PageFrame
  /\ \A c \in Conv, t \in Turn, k \in 1..Pieces : DeltaFrame(c, t, k) \in PageFrame
<1>1. \A c \in Conv, t \in Turn, k \in 1..Pieces : [conv |-> c, turn |-> t, k |-> k] \in Piece
  BY DEF Piece
<1> QED
  BY <1>1 DEF CreateFrame, StopFrame, SubscribeFrame, MessageFrame, HostFrame, Frame, DeltaFrame, PageFrame

LEMMA HostUpdates ==
  ASSUME NEW h \in HostState
  PROVE  /\ [h EXCEPT !.known = TRUE] \in HostState
         /\ \A v \in BOOLEAN : [h EXCEPT !.cancelled = v] \in HostState
         /\ [h EXCEPT !.reach = TRUE] \in HostState
         /\ \A n \in 0..Pieces : [h EXCEPT !.sent = n] \in HostState
         /\ [h EXCEPT !.phase = "idle"] \in HostState
         /\ \A j \in Seq(Row) : [h EXCEPT !.phase = "ending", !.journal = j] \in HostState
         /\ \A j \in Seq(Row), t \in 0..MaxTurns :
               [h EXCEPT !.known = TRUE, !.phase = "running", !.turn = t, !.sent = 0, !.cancelled = FALSE,
                         !.reach = TRUE, !.journal = j] \in HostState
<1> DEFINE J == Seq(Row)
<1>1. HostState = [known : BOOLEAN, phase : {"idle", "running", "ending"}, turn : 0..MaxTurns,
                   sent : 0..Pieces, cancelled : BOOLEAN, reach : BOOLEAN, journal : J]
  BY DEF HostState
<1>2. 0 \in 0..Pieces
  BY ChatAssumption
<1> SUFFICES
         /\ [h EXCEPT !.known = TRUE] \in HostState
         /\ \A v \in BOOLEAN : [h EXCEPT !.cancelled = v] \in HostState
         /\ [h EXCEPT !.reach = TRUE] \in HostState
         /\ \A n \in 0..Pieces : [h EXCEPT !.sent = n] \in HostState
         /\ [h EXCEPT !.phase = "idle"] \in HostState
         /\ \A j \in J : [h EXCEPT !.phase = "ending", !.journal = j] \in HostState
         /\ \A j \in J, t \in 0..MaxTurns :
               [h EXCEPT !.known = TRUE, !.phase = "running", !.turn = t, !.sent = 0, !.cancelled = FALSE,
                         !.reach = TRUE, !.journal = j] \in HostState
  OBVIOUS
<1> HIDE DEF J
<1> QED
  BY <1>1, <1>2

LEMMA SpentUpdates ==
  ASSUME NEW s \in Spent
  PROVE  /\ \A c \in Conv, t \in 0..MaxTurns : [s EXCEPT !.turn[c] = t, !.sends = @ + 1] \in Spent
         /\ [s EXCEPT !.stops = @ + 1] \in Spent
         /\ [s EXCEPT !.reloads = @ + 1] \in Spent
         /\ [s EXCEPT !.dropped = TRUE] \in Spent
<1> DEFINE T == [Conv -> 0..MaxTurns]
<1>1. Spent = [turn : T, sends : Nat, stops : Nat, reloads : Nat, dropped : BOOLEAN]
  BY DEF Spent
<1>2. \A c \in Conv, t \in 0..MaxTurns : [s.turn EXCEPT ![c] = t] \in T
  BY <1>1
<1>4. s.sends + 1 \in Nat /\ s.stops + 1 \in Nat /\ s.reloads + 1 \in Nat
  BY <1>1
<1> HIDE DEF T
<1>3. \A c \in Conv, t \in 0..MaxTurns : [s EXCEPT !.turn[c] = t, !.sends = @ + 1] \in Spent
  <2> TAKE c \in Conv, t \in 0..MaxTurns
  <2> DEFINE u == [s.turn EXCEPT ![c] = t]
  <2>1. [s EXCEPT !.turn[c] = t, !.sends = @ + 1] = [s EXCEPT !.turn = u, !.sends = @ + 1]
    BY <1>1
  <2>2. u \in T
    BY <1>2
  <2> HIDE DEF u
  <2>3. [s EXCEPT !.turn = u, !.sends = @ + 1] \in Spent
    BY <1>1, <1>4, <2>2
  <2> QED
    BY <2>1, <2>3
<1> QED
  BY <1>1, <1>3, <1>4

LEMMA SocketUpdates ==
  ASSUME NEW s \in SocketState
  PROVE  /\ [s EXCEPT !.attempts = 0] \in SocketState
         /\ [s EXCEPT !.state = "open", !.resub = {}] \in SocketState
         /\ [s EXCEPT !.state = "none", !.resub = {}] \in SocketState
         /\ s.attempts < MaxReconnects =>
               [s EXCEPT !.state = "none", !.resub = {}, !.attempts = @ + 1, !.timers = @ + 1] \in SocketState
         /\ Connect(s) \in SocketState
         /\ s.timers > 0 => [s EXCEPT !.timers = @ - 1] \in SocketState
         /\ [s EXCEPT !.resub = @ \cup {"affected"}] \in SocketState
<1> DEFINE U == SUBSET {"all", "affected"}
<1>1. SocketState = [state : {"none", "connecting", "open"}, attempts : 0..MaxReconnects,
                     timers : Nat, resub : U]
  BY DEF SocketState
<1>2. s.resub \cup {"affected"} \in U /\ 0 \in 0..MaxReconnects /\ {} \in U
      /\ (s.attempts < MaxReconnects => s.attempts + 1 \in 0..MaxReconnects)
  BY <1>1 DEF MaxReconnects
<1>3. s.timers \in Nat /\ s.timers + 1 \in Nat /\ (s.timers > 0 => s.timers - 1 \in Nat)
  BY <1>1
<1> HIDE DEF U
<1> QED
  BY <1>1, <1>2, <1>3 DEF Connect

LEMMA HostChange ==
  ASSUME host \in [Conv -> HostState], NEW c \in Conv, NEW h \in HostState, host' = [host EXCEPT ![c] = h]
  PROVE  host' \in [Conv -> HostState]
  OBVIOUS

LEMMA RestTypes ==
  ASSUME PageOK, LinkOK, [ChatNext]_vars, \A c \in Conv : host[c].phase = "running" => host[c].turn \in Turn
  PROVE  LinkOK'
<1>1. page \in Memory
  BY DEF PageOK
<1>2. MaxTurns \in Nat /\ Pieces \in Nat /\ MaxReconnects = 2
  BY ChatAssumption DEF MaxReconnects
<1>3. /\ \A f \in HostFrame : Append(toHost, f) \in Seq(HostFrame)
      /\ \A f \in PageFrame : Append(toPage, f) \in Seq(PageFrame)
      /\ <<>> \in Seq(HostFrame) /\ <<>> \in Seq(PageFrame)
      /\ toHost # <<>> => Tail(toHost) \in Seq(HostFrame) /\ Head(toHost) \in HostFrame
      /\ toPage # <<>> => Tail(toPage) \in Seq(PageFrame) /\ Head(toPage) \in PageFrame
      /\ \A s \in Seq(HostFrame) : toHost \o s \in Seq(HostFrame)
  BY AppendProperties, HeadTailProperties, ConcatProperties, EmptySeq DEF LinkOK
<1>4. Unreached \in [Conv -> HostState]
  BY DEF Unreached, LinkOK, HostState
<1>5. CASE NewConversation \/ (\E c \in Conv : SelectConversation(c)) \/ DeleteConversation \/ WatchdogFires
           \/ UNCHANGED vars \/ (\E i \in DOMAIN page.chains : CreateTimesOut(page.chains[i]))
  BY <1>5 DEF NewConversation, SelectConversation, DeleteConversation, WatchdogFires, CreateTimesOut,
     vars, LinkOK
<1>6. CASE SendMessage
  <2>1. page.active \in Conv /\ spent.turn[page.active] + 1 \in Turn
    BY <1>1, <1>6 DEF SendMessage, Memory
  <2>2. toHost' \in Seq(HostFrame)
    BY <1>3, <1>6, <2>1, FrameTypes DEF SendMessage, LinkOK
  <2>3. socket' \in SocketState
    BY <1>6 DEF SendMessage, LinkOK, Connect, SocketState
  <2>4. spent' \in Spent
    <3> DEFINE t == spent.turn[page.active] + 1
    <3>1. spent' = [spent EXCEPT !.turn[page.active] = t, !.sends = @ + 1]
      BY <1>6 DEF SendMessage
    <3>2. t \in 0..MaxTurns
      BY <1>2, <2>1 DEF Turn
    <3> HIDE DEF t
    <3> QED
      BY <2>1, <3>1, <3>2, SpentUpdates DEF LinkOK
  <2> QED
    BY <1>6, <2>2, <2>3, <2>4 DEF SendMessage, LinkOK
<1>7. CASE StopRun
  <2>1. page.active \in Conv
    BY <1>1, <1>7 DEF StopRun, Memory
  <2>2. spent' \in Spent
    BY <1>7, SpentUpdates DEF StopRun, LinkOK
  <2>3. toHost' \in Seq(HostFrame)
    BY <1>3, <1>7, <2>1, FrameTypes DEF StopRun
  <2> QED
    BY <1>7, <2>2, <2>3 DEF StopRun, LinkOK
<1>8. CASE Reload
  <2>1. spent' \in Spent
    BY <1>8, SpentUpdates DEF Reload, LinkOK
  <2>2. socket' \in SocketState
    BY <1>2, <1>8 DEF Reload, SocketState
  <2> QED
    BY <1>3, <1>4, <1>8, <2>1, <2>2 DEF Reload, LinkOK
<1>9. CASE SocketCloses
  <2>1. socket' \in SocketState
    <3>1. \/ socket' = [socket EXCEPT !.state = "none", !.resub = {}]
          \/ /\ socket' = [socket EXCEPT !.state = "none", !.resub = {}, !.attempts = @ + 1, !.timers = @ + 1]
             /\ socket.attempts < MaxReconnects
      <4> DEFINE p == [Disarm(page) EXCEPT !.chains = InPhase(page, "ack")]
                 retry == Affected(p) # {} /\ socket.attempts < MaxReconnects
      <4>1. socket' = [socket EXCEPT !.state = "none", !.resub = {},
                          !.attempts = IF retry THEN @ + 1 ELSE @,
                          !.timers = IF retry THEN @ + 1 ELSE @]
        BY <1>9 DEF SocketCloses
      <4>2. retry => socket.attempts < MaxReconnects
        OBVIOUS
      <4> HIDE DEF retry
      <4>3. CASE retry
        BY <4>1, <4>2, <4>3
      <4>4. CASE ~ retry
        BY <4>1, <4>4 DEF LinkOK, SocketState
      <4> QED
        BY <4>3, <4>4
    <3> QED
      BY <3>1, SocketUpdates DEF LinkOK
  <2>2. spent' \in Spent
    BY <1>9, SpentUpdates DEF SocketCloses, LinkOK
  <2> QED
    BY <1>3, <1>4, <1>9, <2>1, <2>2 DEF SocketCloses, LinkOK
<1>10. CASE SocketOpens
  <2>1. Waiting \in Seq(Chain)
    BY <1>1, PhaseChains DEF Waiting
  <2>2. Creates(Waiting) \in Seq(HostFrame)
    BY <2>1, CreateFrames
  <2>3. Subscribes(ToSubscribe(page, socket.resub)) \in Seq(HostFrame)
    BY <1>1, SubscribeFrames
  <2> DEFINE x == Creates(Waiting)
             y == Subscribes(ToSubscribe(page, socket.resub))
  <2>4. toHost' = toHost \o x \o y
    BY <1>10 DEF SocketOpens
  <2>5. x \in Seq(HostFrame) /\ y \in Seq(HostFrame)
    BY <2>2, <2>3
  <2> HIDE DEF x, y
  <2>6. toHost \o x \in Seq(HostFrame)
    BY <1>3, <2>5
  <2>7. toHost' \in Seq(HostFrame)
    BY <2>4, <2>5, <2>6, ConcatProperties
  <2>8. socket' \in SocketState
    BY <1>10, SocketUpdates DEF SocketOpens, LinkOK
  <2> QED
    BY <1>10, <2>7, <2>8 DEF SocketOpens, LinkOK
<1>11. CASE RetryTimer
  <2>1. Subscribes(ToSubscribe(page, {"affected"})) \in Seq(HostFrame)
    BY <1>1, SubscribeFrames
  <2>2. toHost' \in Seq(HostFrame)
    BY <1>3, <1>11, <2>1 DEF RetryTimer, LinkOK
  <2>3. socket' \in SocketState
    <3>1. CASE socket.state = "open"
      <4>1. socket' = [socket EXCEPT !.timers = @ - 1] /\ socket.timers > 0
        BY <1>11, <3>1 DEF RetryTimer
      <4> QED
        BY <4>1, SocketUpdates DEF LinkOK
    <3>2. CASE socket.state # "open"
      <4> DEFINE s == Connect(socket)
                 r == [s EXCEPT !.timers = @ - 1]
      <4>1. socket' = [r EXCEPT !.resub = @ \cup {"affected"}]
        BY <1>11, <3>2 DEF RetryTimer
      <4>2. s \in SocketState /\ s.timers > 0
        BY <1>11, SocketUpdates DEF LinkOK, Connect, SocketState, RetryTimer
      <4> HIDE DEF s
      <4>3. r \in SocketState
        BY <4>2, SocketUpdates
      <4> HIDE DEF r
      <4> QED
        BY <4>1, <4>3, SocketUpdates
    <3> QED
      BY <3>1, <3>2
  <2> QED
    BY <1>11, <2>2, <2>3 DEF RetryTimer, LinkOK
<1>12. ASSUME NEW type, Receive(type)
       PROVE  toPage' \in Seq(PageFrame) /\ socket' \in SocketState /\ Head(toPage).conv \in Conv
  <2>1. toPage' \in Seq(PageFrame) /\ Head(toPage).conv \in Conv
    BY <1>12, HeadFrame DEF LinkOK
  <2>2. socket' \in SocketState
    BY <1>12, SocketUpdates DEF Receive, LinkOK
  <2> QED
    BY <2>1, <2>2
<1>13. CASE FrameStep
  <2>1. PICK type : Receive(type)
    BY <1>13 DEF FrameStep, ReceiveCreated, ReceiveRefused, ReceiveStarted, ReceiveDelta, ReceiveStatus,
       ReceiveDone, ReceiveError, ReceiveSnapshot
  <2>2. toPage' \in Seq(PageFrame) /\ socket' \in SocketState /\ Head(toPage).conv \in Conv
    BY <1>12, <2>1
  <2>3. UNCHANGED <<host, spent>>
    BY <1>13 DEF FrameStep, ReceiveCreated, ReceiveRefused, ReceiveStarted, ReceiveDelta, ReceiveStatus,
       ReceiveDone, ReceiveError, ReceiveSnapshot, Ignored
  <2>4. toHost' \in Seq(HostFrame)
    <3>1. CASE ReceiveCreated
      <4> DEFINE c == Head(toPage).conv
                 t == page.pending[c]
      <4>1. t # 0 => MessageFrame(c, t) \in HostFrame
        BY <1>1, <1>2, <2>2, FrameTypes DEF Memory, Turn
      <4>2. toHost' \in {toHost, Append(toHost, MessageFrame(c, t))} /\ (t = 0 => toHost' = toHost)
        BY <3>1 DEF ReceiveCreated, Ignored
      <4> HIDE DEF c, t
      <4> QED
        BY <1>3, <4>1, <4>2 DEF LinkOK
    <3>2. CASE ReceiveDone
      <4>1. To \in Conv \cup {NoConv}
        BY <2>2, ToIsOpen
      <4> QED
        BY <1>3, <3>2, <4>1, FrameTypes DEF ReceiveDone, Ignored, LinkOK
    <3>3. CASE ReceiveRefused \/ ReceiveStarted \/ ReceiveDelta \/ ReceiveStatus \/ ReceiveError \/ ReceiveSnapshot
      BY <3>3 DEF ReceiveRefused, ReceiveStarted, ReceiveDelta, ReceiveStatus,
         ReceiveError, ReceiveSnapshot, Ignored, LinkOK
    <3> QED
      BY <1>13, <3>1, <3>2, <3>3 DEF FrameStep
  <2> QED
    BY <2>2, <2>3, <2>4 DEF LinkOK
<1>14. CASE HandleStep
  <2>1. PICK type : Handle(type)
    BY <1>14 DEF HandleStep, HostCreate, HostMessage, HostStop, HostSubscribe
  <2>2. toHost' \in Seq(HostFrame) /\ Head(toHost) \in HostFrame /\ Head(toHost).conv \in Conv
        /\ UNCHANGED <<socket, spent>>
    BY <1>3, <2>1 DEF Handle, HostFrame
  <2> DEFINE c == Head(toHost).conv
             t == Head(toHost).turn
  <2>3. Head(toHost).type = "message" => t \in Turn
    BY <2>2 DEF HostFrame
  <2>4. host[c] \in HostState /\ host[c].journal \in Seq(Row)
    BY <2>2 DEF LinkOK, HostState
  <2>5. SnapshotFrame(c) \in PageFrame
    BY <2>2, <2>4 DEF SnapshotFrame, PageFrame
  <2>6. Head(toHost).type = "message" => Append(host[c].journal, [turn |-> t, text |-> <<>>]) \in Seq(Row)
    <3> SUFFICES ASSUME t \in Turn PROVE Append(host[c].journal, [turn |-> t, text |-> <<>>]) \in Seq(Row)
      BY <2>3
    <3> DEFINE row == [turn |-> t, text |-> <<>>]
    <3>1. row \in Row
      BY EmptySeq DEF Row
    <3> HIDE DEF row
    <3>2. Append(host[c].journal, row) \in Seq(Row)
      BY <2>4, <3>1, AppendProperties
    <3> QED
      BY <3>2 DEF row
  <2>7. CASE HostCreate
    <3>1. toPage' \in Seq(PageFrame)
      BY <1>3, <2>2, <2>7, FrameTypes DEF HostCreate
    <3>2. host' = host \/ host' = [host EXCEPT ![c] = [host[c] EXCEPT !.known = TRUE]]
      BY <2>7 DEF HostCreate
    <3>3. [host[c] EXCEPT !.known = TRUE] \in HostState
      BY <2>4, HostUpdates
    <3>4. host' \in [Conv -> HostState]
      BY <2>2, <3>2, <3>3, HostChange DEF LinkOK
    <3> QED
      BY <2>2, <3>1, <3>4 DEF LinkOK
  <2>8. CASE HostMessage
    <3>1. Head(toHost).type = "message"
      BY <2>8 DEF HostMessage, Handle
    <3>2. toPage' \in Seq(PageFrame)
      BY <1>3, <2>2, <2>8, FrameTypes DEF HostMessage
    <3>3. host' \in [Conv -> HostState]
      <4> DEFINE j == Append(host[c].journal, [turn |-> t, text |-> <<>>])
                 h == [host[c] EXCEPT !.known = TRUE, !.phase = "running", !.turn = t,
                             !.sent = 0, !.cancelled = FALSE, !.reach = TRUE, !.journal = j]
      <4>1. host' = host \/ host' = [host EXCEPT ![c] = h]
        BY <2>8 DEF HostMessage
      <4>2. j \in Seq(Row) /\ t \in 0..MaxTurns
        BY <1>2, <2>3, <2>6, <3>1 DEF Turn
      <4> HIDE DEF j
      <4>3. h \in HostState
        BY <2>4, <4>2, HostUpdates DEF c
      <4> HIDE DEF h, c
      <4> QED
        BY <2>2, <4>1, <4>3, HostChange DEF LinkOK
    <3> QED
      BY <2>2, <3>2, <3>3 DEF LinkOK
  <2>9. CASE HostStop
    <3>1. toPage' \in Seq(PageFrame)
      BY <1>3, <2>2, <2>9, FrameTypes DEF HostStop, LinkOK
    <3>2. host' \in [Conv -> HostState]
      <4> DEFINE h == [host[c] EXCEPT !.cancelled = (host[c].phase = "running")]
      <4>1. host' = [host EXCEPT ![c] = h]
        BY <2>9 DEF HostStop
      <4>2. h \in HostState
        BY <2>4, HostUpdates
      <4> HIDE DEF h, c
      <4> QED
        BY <2>2, <4>1, <4>2, HostChange DEF LinkOK
    <3> QED
      BY <2>2, <3>1, <3>2 DEF LinkOK
  <2>10. CASE HostSubscribe
    <3>1. toPage' \in Seq(PageFrame)
      BY <1>3, <2>5, <2>10 DEF HostSubscribe
    <3>2. host' \in [Conv -> HostState]
      <4> DEFINE h == [host[c] EXCEPT !.reach = TRUE]
      <4>1. host' = [host EXCEPT ![c] = h]
        BY <2>10 DEF HostSubscribe
      <4>2. h \in HostState
        BY <2>4, HostUpdates
      <4> HIDE DEF h, c
      <4> QED
        BY <2>2, <4>1, <4>2, HostChange DEF LinkOK
    <3> QED
      BY <2>2, <3>1, <3>2 DEF LinkOK
  <2> QED
    BY <1>14, <2>7, <2>8, <2>9, <2>10 DEF HandleStep
<1>15. ASSUME NEW c \in Conv, RunStep(c)
       PROVE  LinkOK'
  <2>1. host[c] \in HostState /\ host[c].journal \in Seq(Row)
    BY DEF LinkOK, HostState
  <2>2. CASE HostDelta(c)
    <3>1. host[c].sent + 1 \in 1..Pieces /\ host[c].turn \in Turn
      BY <1>2, <2>1, <2>2 DEF HostDelta, HasMore, HostState
    <3>2. toPage' \in Seq(PageFrame)
      BY <1>3, <2>2, <3>1, FrameTypes DEF HostDelta, Emit, LinkOK
    <3>3. host' \in [Conv -> HostState]
      <4> DEFINE h == [host[c] EXCEPT !.sent = @ + 1]
      <4>1. host' = [host EXCEPT ![c] = h]
        BY <2>2 DEF HostDelta, HasMore
      <4>2. host[c].sent + 1 \in 0..Pieces
        BY <1>2, <3>1
      <4>3. h \in HostState
        BY <2>1, <4>2, HostUpdates
      <4> HIDE DEF h
      <4> QED
        BY <4>1, <4>3, HostChange DEF LinkOK
    <3> QED
      BY <2>2, <3>2, <3>3 DEF HostDelta, LinkOK
  <2>3. ASSUME NEW how \in {"done", "error", "status"}, HostEnd(c, how)
        PROVE  LinkOK'
    <3> DEFINE j == host[c].journal
               text == [k \in 1..host[c].sent |-> [conv |-> c, turn |-> host[c].turn, k |-> k]]
               new == [j EXCEPT ![Len(j)].text = text]
               h == [host[c] EXCEPT !.phase = "ending", !.journal = new]
    <3>1. toPage' \in Seq(PageFrame)
      BY <1>3, <2>3, FrameTypes DEF HostEnd, Emit, LinkOK
    <3>2. host' = [host EXCEPT ![c] = h]
      BY <2>3 DEF HostEnd
    <3>3. text \in Seq(Piece)
      <4>1. host[c].sent \in Nat /\ host[c].sent <= Pieces /\ host[c].turn \in Turn
        BY <1>2, <2>1, <2>3 DEF HostState, HostEnd
      <4>2. text \in [1..host[c].sent -> Piece]
        BY <1>2, <4>1 DEF Piece
      <4> HIDE DEF text
      <4> QED
        BY <4>1, <4>2, SeqDef
    <3> HIDE DEF text
    <3>4. new \in Seq(Row)
      <4>1. j \in Seq(Row)
        BY <2>1
      <4> HIDE DEF j
      <4>2. CASE Len(j) \in DOMAIN j
        <5> DEFINE row == [j[Len(j)] EXCEPT !.text = text]
        <5>1. j[Len(j)] \in Row
          BY <4>1, <4>2, ElementOfSeq
        <5>2. row \in Row
          BY <3>3, <5>1 DEF Row
        <5>3. new = [j EXCEPT ![Len(j)] = row]
          OBVIOUS
        <5> HIDE DEF row, new
        <5> QED
          BY <4>1, <4>2, <5>2, <5>3, ExceptSeq
      <4>3. CASE Len(j) \notin DOMAIN j
        <5>1. new = j
          BY <4>1, <4>3
        <5> QED
          BY <4>1, <5>1
      <4> QED
        BY <4>2, <4>3
    <3> HIDE DEF new
    <3>5. h \in HostState
      BY <2>1, <3>4, HostUpdates
    <3> HIDE DEF h
    <3> QED
      BY <2>3, <3>1, <3>2, <3>5 DEF HostEnd, LinkOK
  <2>4. CASE HostClear(c)
    <3> DEFINE h == [host[c] EXCEPT !.phase = "idle"]
    <3>1. host' = [host EXCEPT ![c] = h]
      BY <2>4 DEF HostClear
    <3>2. h \in HostState
      BY <2>1, HostUpdates
    <3> HIDE DEF h
    <3>3. host' \in [Conv -> HostState]
      BY <3>1, <3>2, HostChange DEF LinkOK
    <3> QED
      BY <2>4, <3>3 DEF HostClear, LinkOK
  <2> QED
    BY <1>15, <2>2, <2>3, <2>4 DEF RunStep
<1> QED
  BY <1>5, <1>6, <1>7, <1>8, <1>9, <1>10, <1>11, <1>13, <1>14, <1>15
     DEF ChatNext, SystemStep, UserStep, TimerStep

-------------------------------------------------------------------------------
(* The invariant of the page: what it stored holds all that ended. *)

Storage == [list : Seq(Conv), active : Conv \cup {NoConv}, bubbles : [Conv -> Bubbles(Shown)]]

Synced ==
  /\ stored \in Storage
  /\ stored.list = page.list /\ stored.active = page.active
  /\ \A c \in Conv : /\ LastRuns(stored.bubbles[c])
                     /\ EndsNothing(stored.bubbles[c], page.bubbles[c])

RunTurns == \A c \in Conv : host[c].phase = "running" => host[c].turn \in Turn

PageInv == PageOK /\ LinkOK /\ Synced /\ RunTurns

LEMMA PageInvTypes ==
  ASSUME PageInv
  PROVE  ChatTypeOK
  BY DEF PageInv, PageOK, LinkOK, Synced, ChatTypeOK, Storage, Bubbles, Shown, SocketState, Spent

LEMMA PageInit ==
  ASSUME ChatInit
  PROVE  PageInv
<1>1. MaxTurns \in Nat /\ Pieces \in Nat /\ MaxReconnects = 2
  BY ChatAssumption DEF MaxReconnects
<1>2. \A S : <<>> \in Seq(S)
  BY EmptySeq
<1>3. RunningIn(<<>>) = {}
  BY DEF RunningIn
<1>4. <<>> \in Bubbles(Shown) /\ LastRuns(<<>>) /\ EndsNothing(<<>>, <<>>)
  BY <1>2, <1>3 DEF Bubbles, LastRuns, EndsNothing
<1>5. page \in Memory
  <2>1. page.list \in Seq(Conv) /\ page.chains \in Seq(Chain)
    BY <1>2 DEF ChatInit
  <2>2. page.bubbles \in [Conv -> Bubbles(Shown)]
    BY <1>4 DEF ChatInit
  <2> QED
    BY <1>1, <2>1, <2>2 DEF ChatInit, Memory, Chain, Bubbles, Shown
<1>6. PageOK
  BY <1>4, <1>5, ChatAssumption DEF PageOK, ChatInit
<1>7. Synced
  BY <1>2, <1>4 DEF Synced, Storage, ChatInit
<1>8. LinkOK
  <2>1. host \in [Conv -> HostState]
    <3> DEFINE h == [known |-> FALSE, phase |-> "idle", turn |-> 0, sent |-> 0,
                     cancelled |-> FALSE, reach |-> FALSE, journal |-> <<>>]
    <3>1. h \in HostState
      <4>1. <<>> \in Seq(Row)
        BY <1>2
      <4> QED
        BY <1>1, <4>1 DEF HostState
    <3>2. host = [c \in Conv |-> h]
      BY DEF ChatInit
    <3> HIDE DEF h
    <3> QED
      BY <3>1, <3>2
  <2>2. spent \in Spent /\ socket \in SocketState
    BY <1>1 DEF ChatInit, Spent, SocketState
  <2>3. toHost \in Seq(HostFrame) /\ toPage \in Seq(PageFrame)
    BY <1>2 DEF ChatInit
  <2> QED
    BY <2>1, <2>2, <2>3 DEF LinkOK
<1>9. RunTurns
  BY DEF RunTurns, ChatInit
<1> QED
  BY <1>6, <1>7, <1>8, <1>9 DEF PageInv

LEMMA RunTurnsStep ==
  ASSUME LinkOK, RunTurns, [ChatNext]_vars
  PROVE  RunTurns'
<1>1. host \in [Conv -> HostState]
  BY DEF LinkOK
<1>2. CASE UNCHANGED host
  BY <1>2 DEF RunTurns
<1>3. CASE host' = Unreached
  BY <1>1, <1>3 DEF RunTurns, Unreached, HostState
<1>4. CASE HandleStep
  <2>1. PICK type : Handle(type)
    BY <1>4 DEF HandleStep, HostCreate, HostMessage, HostStop, HostSubscribe
  <2>2. Head(toHost) \in HostFrame
    BY <2>1, HeadTailProperties DEF LinkOK, Handle
  <2> DEFINE c == Head(toHost).conv
  <2>3. Head(toHost).type = "message" => Head(toHost).turn \in Turn
    BY <2>2 DEF HostFrame
  <2>4. c \in Conv /\ host[c] \in HostState
    BY <1>1, <2>2 DEF HostFrame
  <2>5. \A d \in Conv : d # c => host'[d] = host[d]
    BY <1>1, <1>4 DEF HandleStep, HostCreate, HostMessage, HostStop, HostSubscribe
  <2>6. host'[c].phase = "running" => host'[c].turn \in Turn
    <3>1. CASE HostMessage
      <4>1. Head(toHost).type = "message"
        BY <3>1 DEF HostMessage, Handle
      <4>2. CASE host' = host
        BY <2>4, <4>2 DEF RunTurns
      <4>3. CASE host[c].phase = "idle" /\ host' # host
        <5> DEFINE t == Head(toHost).turn
                   j == Append(host[c].journal, [turn |-> t, text |-> <<>>])
                   h == [host[c] EXCEPT !.known = TRUE, !.phase = "running", !.turn = t, !.sent = 0,
                                        !.cancelled = FALSE, !.reach = TRUE, !.journal = j]
        <5>1. host' = [host EXCEPT ![c] = h]
          BY <3>1, <4>3 DEF HostMessage
        <5> HIDE DEF j
        <5>2. h.turn = t
          BY <2>4 DEF HostState
        <5> HIDE DEF h, t, c
        <5>3. host'[c] = h
          BY <1>1, <2>4, <5>1
        <5> QED
          BY <2>3, <4>1, <5>2, <5>3 DEF c, t
      <4> QED
        BY <3>1, <4>2, <4>3 DEF HostMessage
    <3>2. CASE HostCreate \/ HostStop \/ HostSubscribe
      <4>1. \/ host' = host
            \/ host' = [host EXCEPT ![c].known = TRUE]
            \/ host' = [host EXCEPT ![c].cancelled = (host[c].phase = "running")]
            \/ host' = [host EXCEPT ![c].reach = TRUE]
        BY <3>2 DEF HostCreate, HostStop, HostSubscribe
      <4>2. host'[c].phase = host[c].phase /\ host'[c].turn = host[c].turn
        <5> HIDE DEF c
        <5> QED
          BY <1>1, <2>4, <4>1 DEF HostState
      <4> QED
        BY <2>4, <4>2 DEF RunTurns
    <3> QED
      BY <1>4, <3>1, <3>2 DEF HandleStep
  <2> HIDE DEF c
  <2> QED
    BY <2>4, <2>5, <2>6 DEF RunTurns
<1>5. ASSUME NEW c \in Conv, RunStep(c)
      PROVE  RunTurns'
  <2>1. host[c] \in HostState /\ \A d \in Conv : d # c => host'[d] = host[d]
    BY <1>1, <1>5 DEF RunStep, HostDelta, HostEnd, HostClear
  <2>2. host'[c].phase = "running" => host[c].phase = "running" /\ host'[c].turn = host[c].turn
    BY <1>1, <1>5, <2>1 DEF RunStep, HostDelta, HostEnd, HostClear, HostState
  <2> QED
    BY <2>1, <2>2 DEF RunTurns
<1>6. CASE UserStep \/ SocketCloses \/ FrameStep \/ TimerStep \/ SocketOpens
  BY <1>2, <1>3, <1>6 DEF UserStep, NewConversation, SelectConversation, DeleteConversation, SendMessage,
     StopRun, Reload, SocketCloses, FrameStep, ReceiveCreated, ReceiveRefused, ReceiveStarted, ReceiveDelta,
     ReceiveStatus, ReceiveDone, ReceiveError, ReceiveSnapshot, Ignored, TimerStep, WatchdogFires,
     CreateTimesOut, RetryTimer, SocketOpens
<1> QED
  BY <1>2, <1>4, <1>5, <1>6 DEF ChatNext, SystemStep, vars

\* What a step does to the bubbles of a conversation, when the page is not reloaded.
LEMMA BubblesStep ==
  ASSUME PageOK, PageMoves, NEW c \in Conv
  PROVE  /\ page'.bubbles[c] \in Bubbles(Shown) /\ LastRuns(page'.bubbles[c])
         /\ Stands(page.bubbles[c], page'.bubbles[c], page.recovered[c])
<1> DEFINE bs == page.bubbles[c]
           new == page'.bubbles[c]
           r == page.recovered[c]
           X == Delivered(c)
           Y == Fetched(c)
<1>1. bs \in Bubbles(Shown) /\ LastRuns(bs)
  BY DEF PageOK, Memory, Bubbles, Shown
<1>2. X \in SUBSET Shown /\ Y \in SUBSET Shown
  BY DEF Delivered, Fetched, Shown
<1>3. Moves(bs, new, X, Y, r)
  BY DEF PageMoves
<1> HIDE DEF bs, new, r, X, Y
<1>4. new \in Bubbles(Shown) /\ LastRuns(new) /\ Stands(bs, new, r)
  BY <1>1, <1>2, <1>3, MovesKeep
<1> QED
  BY <1>4 DEF bs, new, r

LEMMA PageInvStep ==
  ASSUME PageInv, [ChatNext]_vars
  PROVE  PageInv'
<1>1. LinkOK' /\ RunTurns'
  BY RestTypes, RunTurnsStep DEF PageInv, RunTurns
<1>2. CASE Reload
  <2>1. /\ page'.list = stored.list /\ page'.active = stored.active /\ page'.bubbles = stored.bubbles
        /\ UNCHANGED stored
    BY <1>2 DEF Reload
  <2>2. page' \in Memory
    <3>1. <<>> \in Seq(Chain)
      BY EmptySeq
    <3>2. stored \in Storage
      BY DEF PageInv, Synced
    <3>3. /\ stored.list \in Seq(Conv) /\ stored.active \in Conv \cup {NoConv}
          /\ stored.bubbles \in [Conv -> Seq(Bubble(Piece \cup {StatusNote}))]
      BY <3>2 DEF Storage, Bubbles, Shown
    <3> DEFINE R == [c \in Conv |-> FALSE]
               P == [c \in Conv |-> 0]
    <3>4. R \in [Conv -> BOOLEAN] /\ P \in [Conv -> 0..MaxTurns]
      BY ChatAssumption
    <3>5. page' = [list |-> stored.list, active |-> stored.active, sending |-> FALSE,
                   watchdog |-> NoConv, bubbles |-> stored.bubbles, recovered |-> R,
                   chains |-> <<>>, pending |-> P]
      BY <1>2 DEF Reload
    <3> HIDE DEF R, P
    <3> QED
      BY <3>1, <3>3, <3>4, <3>5 DEF Memory, Chain
  <2>3. PageOK'
    BY <2>1, <2>2 DEF PageOK, PageInv, Synced, Listed
  <2>4. \A c \in Conv : EndsNothing(stored'.bubbles[c], page'.bubbles[c])
    BY <2>1 DEF EndsNothing
  <2>5. Synced'
    BY <2>1, <2>4 DEF PageInv, Synced
  <2> QED
    BY <1>1, <2>3, <2>5 DEF PageInv
<1>3. CASE PageMoves /\ (Save \/ Kept)
  <2>1. \A c \in Conv : page'.bubbles[c] \in Bubbles(Shown) /\ LastRuns(page'.bubbles[c])
    BY <1>3, BubblesStep DEF PageInv
  <2>2. PageOK'
    BY <1>3, <2>1 DEF PageOK, PageMoves
  <2>3. CASE Save
    <3>1. stored'.list = page'.list /\ stored'.active = page'.active /\ stored'.bubbles = page'.bubbles
      BY <2>3 DEF Save
    <3>2. stored' \in Storage
      <4>1. page' \in Memory
        BY <1>3 DEF PageMoves
      <4> QED
        BY <2>3, <4>1 DEF Save, Storage, Memory, Bubbles, Shown
    <3>3. \A c \in Conv : EndsNothing(stored'.bubbles[c], page'.bubbles[c])
      BY <3>1 DEF EndsNothing
    <3>4. Synced'
      BY <2>1, <3>1, <3>2, <3>3 DEF Synced
    <3> QED
      BY <1>1, <2>2, <3>4 DEF PageInv
  <2>4. CASE Kept
    <3>1. \A c \in Conv : EndsNothing(stored'.bubbles[c], page'.bubbles[c])
      BY <2>4 DEF Kept, EndsNothing, PageInv, Synced
    <3>2. Synced'
      BY <2>4, <3>1 DEF Kept, PageInv, Synced
    <3> QED
      BY <1>1, <2>2, <3>2 DEF PageInv
  <2> QED
    BY <1>3, <2>3, <2>4
<1> QED
  BY <1>2, <1>3, PageStep DEF PageInv, LinkOK

LEMMA PageInvHolds == ChatSpec => []PageInv
<1>1. ChatInit => PageInv
  BY PageInit
<1>2. PageInv /\ [ChatNext]_vars => PageInv'
  BY PageInvStep
<1> QED
  BY <1>1, <1>2, PTL DEF ChatSpec

(* The page, the frames on the socket and the host keep the shapes the code *)
(* gives them, and the conversation shown is a listed one, whatever frame,  *)
(* timer or reload comes.                                                   *)
THEOREM ChatTypeCorrect == ChatSpec => []ChatTypeOK
<1>1. PageInv => ChatTypeOK
  BY PageInvTypes
<1> QED
  BY <1>1, PageInvHolds, PTL

(* Sends, lost bubbles that a frame makes anew and answers restored from a  *)
(* snapshot never leave two running answers in a conversation: each of them *)
(* finds the running one, which is the last bubble.                         *)
THEOREM OneAnswerRuns == ChatSpec => []OneRunningBubble
<1>1. PageInv => OneRunningBubble
  <2> SUFFICES ASSUME PageInv, NEW c \in Conv
               PROVE  Cardinality(RunningIn(page.bubbles[c])) <= 1
    BY DEF OneRunningBubble
  <2> DEFINE bs == page.bubbles[c]
  <2>1. \A i \in RunningIn(bs) : i = Len(bs)
    BY DEF PageInv, PageOK, LastRuns
  <2>2. CASE RunningIn(bs) = {}
    BY <2>2, FS_EmptySet
  <2>3. CASE RunningIn(bs) # {}
    <3>1. RunningIn(bs) = {Len(bs)}
      BY <2>1, <2>3
    <3>2. Cardinality({Len(bs)}) = 1
      BY FS_Singleton
    <3> HIDE DEF bs
    <3> QED
      BY <3>1, <3>2 DEF bs
  <2> QED
    BY <2>2, <2>3
<1> QED
  BY <1>1, PageInvHolds, PTL

(* An answer that ended is not changed by a late delta, a second terminal   *)
(* frame, the watchdog, a reconnection or a reload; a restored one may only *)
(* get the longer text of the journal.                                      *)
THEOREM AnswersStand == ChatSpec => EndedStands
<1> DEFINE A == \A c \in Conv : \A i \in DOMAIN page.bubbles[c] :
          Ended(page.bubbles[c][i]) =>
             /\ i \in DOMAIN page'.bubbles[c]
             /\ LET b == page.bubbles[c][i]
                    n == page'.bubbles[c][i] IN
                \/ n = b
                \/ /\ n = [b EXCEPT !.text = n.text] /\ b.status = "done"
                   /\ page.recovered[c] /\ Len(n.text) > Len(b.text)
<1>1. PageInv /\ [ChatNext]_vars => [A]_vars
  <2> SUFFICES ASSUME PageInv, [ChatNext]_vars PROVE A
    OBVIOUS
  <2>1. CASE Reload
    <3>1. page'.bubbles = stored.bubbles
      BY <2>1 DEF Reload
    <3> QED
      BY <3>1 DEF PageInv, Synced, EndsNothing, Ended
  <2>2. CASE PageMoves
    <3>1. \A c \in Conv : Stands(page.bubbles[c], page'.bubbles[c], page.recovered[c])
      BY <2>2, BubblesStep DEF PageInv
    <3> QED
      BY <3>1 DEF Stands, Ended
  <2> QED
    BY <2>1, <2>2, PageStep DEF PageInv, LinkOK
<1>2. ChatSpec => [][A]_vars
  BY <1>1, PageInvHolds, PTL DEF ChatSpec
<1> QED
  BY <1>2 DEF EndedStands

-------------------------------------------------------------------------------
(* The elements of sequences. *)

LEMMA RangeOf ==
  ASSUME NEW S, NEW s \in Seq(S)
  PROVE  /\ Range(s) \in SUBSET S
         /\ \A e : e \in Range(s) <=> \E i \in 1..Len(s) : s[i] = e
         /\ s # <<>> => Head(s) \in Range(s) /\ Tail(s) \in Seq(S) /\ Range(Tail(s)) \subseteq Range(s)
         /\ \A e \in S : Append(s, e) \in Seq(S) /\ Range(Append(s, e)) = Range(s) \cup {e}
         /\ \A t \in Seq(S) : s \o t \in Seq(S) /\ Range(s \o t) = Range(s) \cup Range(t)
<1>1. Len(s) \in Nat /\ DOMAIN s = 1..Len(s) /\ \A i \in DOMAIN s : s[i] \in S
  BY LenProperties, ElementOfSeq
<1>2. \A e : e \in Range(s) <=> \E i \in 1..Len(s) : s[i] = e
  BY <1>1 DEF Range
<1>3. Range(s) \in SUBSET S
  BY <1>1 DEF Range
<1>4. ASSUME s # <<>>
      PROVE  Head(s) \in Range(s) /\ Tail(s) \in Seq(S) /\ Range(Tail(s)) \subseteq Range(s)
  <2>1. Len(s) # 0
    BY <1>4, EmptySeq
  <2>2. Head(s) = s[1] /\ 1 \in DOMAIN s
    BY <1>1, <1>4, <2>1, HeadTailProperties
  <2>3. /\ Tail(s) \in Seq(S) /\ Len(Tail(s)) = Len(s) - 1
        /\ \A i \in 1..Len(Tail(s)) : Tail(s)[i] = s[i + 1]
    BY <1>4, HeadTailProperties
  <2>4. DOMAIN Tail(s) = 1..Len(Tail(s))
    BY <2>3, LenProperties
  <2>5. \A i \in DOMAIN Tail(s) : i + 1 \in DOMAIN s /\ Tail(s)[i] = s[i + 1]
    BY <1>1, <2>3, <2>4
  <2> QED
    BY <2>2, <2>3, <2>5 DEF Range
<1>5. ASSUME NEW e \in S
      PROVE  Append(s, e) \in Seq(S) /\ Range(Append(s, e)) = Range(s) \cup {e}
  <2> DEFINE a == Append(s, e)
  <2>1. /\ a \in Seq(S) /\ Len(a) = Len(s) + 1 /\ a[Len(s) + 1] = e
        /\ \A i \in 1..Len(s) : a[i] = s[i]
    BY AppendProperties
  <2> HIDE DEF a
  <2>2. DOMAIN a = 1..(Len(s) + 1)
    BY <2>1, LenProperties
  <2>3. Range(a) \subseteq Range(s) \cup {e}
    <3> SUFFICES ASSUME NEW i \in DOMAIN a PROVE a[i] \in Range(s) \cup {e}
      BY DEF Range
    <3>1. i \in 1..Len(s) \/ i = Len(s) + 1
      BY <1>1, <2>2
    <3> QED
      BY <1>2, <2>1, <3>1
  <2>4. Range(s) \cup {e} \subseteq Range(a)
    <3>1. \A i \in 1..Len(s) : i \in DOMAIN a /\ a[i] = s[i]
      BY <1>1, <2>1, <2>2
    <3>2. Len(s) + 1 \in DOMAIN a
      BY <1>1, <2>2
    <3> QED
      BY <1>1, <2>1, <3>1, <3>2 DEF Range
  <2> QED
    BY <2>1, <2>3, <2>4 DEF a
<1>6. ASSUME NEW t \in Seq(S)
      PROVE  s \o t \in Seq(S) /\ Range(s \o t) = Range(s) \cup Range(t)
  <2> DEFINE a == s \o t
             m == Len(s)
             n == Len(t)
  <2>1. n \in Nat /\ DOMAIN t = 1..n /\ m \in Nat /\ DOMAIN s = 1..m
    BY <1>1, LenProperties
  <2>2. /\ a \in Seq(S) /\ Len(a) = m + n
        /\ \A i \in 1..(m + n) : a[i] = IF i <= m THEN s[i] ELSE t[i - m]
    BY ConcatProperties
  <2> HIDE DEF a, m, n
  <2>3. DOMAIN a = 1..(m + n)
    BY <2>2, LenProperties
  <2>4. \A i \in DOMAIN a : a[i] \in Range(s) \cup Range(t)
    <3> TAKE i \in DOMAIN a
    <3>1. CASE i <= m
      <4>1. i \in DOMAIN s /\ a[i] = s[i]
        BY <2>1, <2>2, <2>3, <3>1
      <4> QED
        BY <4>1 DEF Range
    <3>2. CASE ~ (i <= m)
      <4>1. i - m \in DOMAIN t /\ a[i] = t[i - m]
        BY <2>1, <2>2, <2>3, <3>2
      <4> QED
        BY <4>1 DEF Range
    <3> QED
      BY <3>1, <3>2
  <2>5. \A i \in DOMAIN s : i \in DOMAIN a /\ a[i] = s[i]
    BY <2>1, <2>2, <2>3
  <2>6. \A i \in DOMAIN t : i + m \in DOMAIN a /\ a[i + m] = t[i]
    <3> TAKE i \in DOMAIN t
    <3> DEFINE k == i + m
    <3>1. k \in 1..(m + n) /\ ~ (k <= m) /\ k - m = i
      BY <2>1
    <3> HIDE DEF k
    <3>2. k \in DOMAIN a /\ a[k] = t[k - m]
      BY <2>2, <2>3, <3>1
    <3>3. k \in DOMAIN a /\ a[k] = t[i]
      BY <3>1, <3>2
    <3> QED
      BY <3>3 DEF k
  <2>7. \A e \in Range(t) : e \in Range(a)
    <3> TAKE e \in Range(t)
    <3>1. PICK i \in DOMAIN t : t[i] = e
      BY DEF Range
    <3> QED
      BY <2>6, <3>1 DEF Range
  <2>8. \A e \in Range(s) : e \in Range(a)
    BY <2>5 DEF Range
  <2>9. Range(a) \subseteq Range(s) \cup Range(t)
    BY <2>4 DEF Range
  <2> QED
    BY <2>2, <2>7, <2>8, <2>9 DEF a
<1> QED
  BY <1>2, <1>3, <1>4, <1>5, <1>6

LEMMA EmptyRange == Range(<<>>) = {}
  BY DEF Range

-------------------------------------------------------------------------------
(* What a step does to the frames on their way. *)

LEMMA NewFrames ==
  ASSUME NEW p \in Memory, NEW resub, NEW chs \in Seq(Chain)
  PROVE  /\ \A f \in Range(Creates(chs)) : f.type = "create"
         /\ \A f \in Range(Subscribes(ToSubscribe(p, resub))) : f.type = "subscribe" /\ resub # {}
<1>1. \A f \in Range(Creates(chs)) : f.type = "create"
  BY DEF Range, Creates, CreateFrame
<1> DEFINE I == {i \in DOMAIN p.list :
                   \/ "all" \in resub /\ p.bubbles[p.list[i]] # <<>>
                   \/ "affected" \in resub /\ p.list[i] \in Affected(p)}
           cs == Filtered(p.list, I)
<1>2. p.list \in Seq(Conv) /\ I \in SUBSET DOMAIN p.list /\ ToSubscribe(p, resub) = cs
  BY DEF Memory, ToSubscribe
<1>3. \A i \in I : resub # {}
  OBVIOUS
<1> HIDE DEF I
<1>4. \A n \in DOMAIN cs : \E i \in I : cs[n] = p.list[i]
  BY <1>2, FilteredIn
<1> HIDE DEF cs
<1>5. \A f \in Range(Subscribes(cs)) : f.type = "subscribe" /\ resub # {}
  BY <1>3, <1>4 DEF Range, Subscribes, SubscribeFrame
<1> QED
  BY <1>1, <1>2, <1>5

\* What the page sends: one frame, or the frames of an opened socket.
LEMMA Sends ==
  ASSUME PageOK, LinkOK, [ChatNext]_vars
  PROVE  \/ UNCHANGED toHost
         \/ toHost' = <<>> /\ toPage' = <<>> /\ (Reload \/ SocketCloses)
         \/ HandleStep /\ toHost # <<>> /\ toHost' = Tail(toHost)
         \/ /\ ReceiveCreated /\ toPage # <<>> /\ Head(toPage).type = "created"
            /\ Head(toPage).conv \in Conv /\ page.pending[Head(toPage).conv] \in Turn
            /\ toHost' = Append(toHost, MessageFrame(Head(toPage).conv, page.pending[Head(toPage).conv]))
         \/ \E f \in HostFrame :
              /\ toHost' = Append(toHost, f) /\ f.type # "message"
              /\ f.type = "subscribe" => \E c \in Conv : page.recovered[c]
         \/ /\ SocketOpens \/ RetryTimer
            /\ \A f \in Range(toHost') :
                 \/ f \in Range(toHost) \/ f.type = "create"
                 \/ f.type = "subscribe" /\ (socket.resub # {} \/ socket.timers > 0)
<1>1. page \in Memory /\ toHost \in Seq(HostFrame)
  BY DEF PageOK, LinkOK
<1>2. CASE SendMessage
  <2> DEFINE f == CreateFrame(page.active)
  <2>1. toHost' \in {toHost, Append(toHost, f)}
    BY <1>2 DEF SendMessage
  <2>2. f \in HostFrame /\ f.type = "create"
    <3>1. page.active \in Conv
      BY <1>1, <1>2 DEF SendMessage, Memory
    <3> QED
      BY <3>1, FrameTypes DEF CreateFrame
  <2> HIDE DEF f
  <2> QED
    BY <2>1, <2>2
<1>3. CASE StopRun
  <2> DEFINE f == StopFrame(page.active)
  <2>1. toHost' = Append(toHost, f)
    BY <1>3 DEF StopRun
  <2>2. f \in HostFrame /\ f.type = "stop"
    <3>1. page.active \in Conv
      BY <1>1, <1>3 DEF StopRun, Memory
    <3> QED
      BY <3>1, FrameTypes DEF StopFrame
  <2> HIDE DEF f
  <2> QED
    BY <2>1, <2>2
<1>4. CASE ReceiveDone
  <2>1. Head(toPage).conv \in Conv
    BY <1>4, HeadFrame DEF ReceiveDone, LinkOK
  <2> DEFINE f == SubscribeFrame(To)
  <2>2. toHost' = toHost \/ (toHost' = Append(toHost, f) /\ To # NoConv /\ page.recovered[To])
    BY <1>4 DEF ReceiveDone, Ignored
  <2>3. To # NoConv => f \in HostFrame /\ f.type = "subscribe" /\ To \in Conv
    BY <2>1, ToIsOpen, FrameTypes DEF SubscribeFrame
  <2> HIDE DEF f
  <2> QED
    BY <2>2, <2>3
<1>5. CASE ReceiveCreated
  <2> DEFINE c == Head(toPage).conv
             t == page.pending[c]
  <2>1. c \in Conv /\ toPage # <<>> /\ Head(toPage).type = "created"
    BY <1>5, HeadFrame DEF ReceiveCreated, LinkOK
  <2>2. t \in 0..MaxTurns
    BY <1>1, <2>1 DEF Memory
  <2>3. toHost' = toHost \/ (t # 0 /\ toHost' = Append(toHost, MessageFrame(c, t)))
    BY <1>5 DEF ReceiveCreated, Ignored
  <2>4. t # 0 => t \in Turn
    <3> HIDE DEF t
    <3> QED
      BY <2>2, ChatAssumption DEF Turn
  <2> QED
    BY <1>5, <2>1, <2>3, <2>4
<1>6. CASE SocketOpens
  <2> DEFINE x == Creates(Waiting)
             y == Subscribes(ToSubscribe(page, socket.resub))
  <2>1. Waiting \in Seq(Chain)
    BY <1>1, PhaseChains DEF Waiting
  <2>2. x \in Seq(HostFrame) /\ y \in Seq(HostFrame)
    BY <1>1, <2>1, CreateFrames, SubscribeFrames
  <2>3. /\ \A f \in Range(x) : f.type = "create"
        /\ \A f \in Range(y) : f.type = "subscribe" /\ socket.resub # {}
    BY <1>1, <2>1, NewFrames
  <2>4. toHost' = toHost \o x \o y
    BY <1>6 DEF SocketOpens
  <2> HIDE DEF x, y
  <2>5. toHost \o x \in Seq(HostFrame) /\ Range(toHost \o x) = Range(toHost) \cup Range(x)
    BY <1>1, <2>2, RangeOf
  <2> DEFINE z == toHost \o x
  <2>6. Range(toHost') = Range(z) \cup Range(y)
    <3>1. z \in Seq(HostFrame) /\ toHost' = z \o y
      BY <2>4, <2>5
    <3> HIDE DEF z
    <3> QED
      BY <2>2, <3>1, RangeOf
  <2> QED
    BY <1>6, <2>3, <2>5, <2>6
<1>7. CASE RetryTimer
  <2> DEFINE y == Subscribes(ToSubscribe(page, {"affected"}))
  <2>1. y \in Seq(HostFrame)
    BY <1>1, SubscribeFrames
  <2>2. \A f \in Range(y) : f.type = "subscribe"
    <3>1. <<>> \in Seq(Chain)
      BY EmptySeq
    <3> QED
      BY <1>1, <3>1, NewFrames
  <2>3. (toHost' = toHost \/ toHost' = toHost \o y) /\ socket.timers > 0
    BY <1>7 DEF RetryTimer
  <2> HIDE DEF y
  <2>4. Range(toHost \o y) = Range(toHost) \cup Range(y)
    BY <1>1, <2>1, RangeOf
  <2>5. toHost' = toHost \/ \A f \in Range(toHost') : f \in Range(toHost) \/ f.type = "subscribe"
    BY <2>2, <2>3, <2>4
  <2> QED
    BY <1>7, <2>3, <2>5
<1>8. CASE Reload \/ SocketCloses
  BY <1>8 DEF Reload, SocketCloses
<1>9. CASE HandleStep
  BY <1>9 DEF HandleStep, HostCreate, HostMessage, HostStop, HostSubscribe, Handle
<1>10. CASE \/ NewConversation \/ (\E c \in Conv : SelectConversation(c)) \/ DeleteConversation
            \/ ReceiveRefused \/ ReceiveStarted \/ ReceiveDelta \/ ReceiveStatus \/ ReceiveError
            \/ ReceiveSnapshot \/ WatchdogFires \/ UNCHANGED vars
            \/ (\E i \in DOMAIN page.chains : CreateTimesOut(page.chains[i]))
            \/ \E c \in Conv : RunStep(c)
  BY <1>10 DEF NewConversation, SelectConversation, DeleteConversation, ReceiveRefused, ReceiveStarted,
     ReceiveDelta, ReceiveStatus, ReceiveError, ReceiveSnapshot, Ignored, WatchdogFires, CreateTimesOut,
     RunStep, HostDelta, HostEnd, HostClear, vars
<1> QED
  BY <1>2, <1>3, <1>4, <1>5, <1>6, <1>7, <1>8, <1>9, <1>10
     DEF ChatNext, UserStep, SystemStep, FrameStep, TimerStep

\* What the host sends: one frame at a time.
LEMMA Arrives ==
  ASSUME PageOK, LinkOK, RunTurns, [ChatNext]_vars
  PROVE  \/ UNCHANGED toPage
         \/ toPage' = <<>> /\ (Reload \/ SocketCloses)
         \/ FrameStep /\ toPage # <<>> /\ toPage' = Tail(toPage) /\ UNCHANGED <<host, spent>>
         \/ \E f \in PageFrame, c \in Conv :
              /\ toPage' = Append(toPage, f) /\ f.conv = c
              /\ \/ f.type \notin {"created", "delta", "snapshot"}
                 \/ f.type = "created" /\ host'[c].known
                 \/ /\ f = SnapshotFrame(c) /\ f.type = "snapshot"
                    /\ HandleStep /\ Head(toHost) \in Range(toHost) /\ Head(toHost).type = "subscribe"
                 \/ HostDelta(c) /\ f = DeltaFrame(c, host[c].turn, host[c].sent + 1) /\ f.type = "delta"
<1>1. toPage \in Seq(PageFrame) /\ toHost \in Seq(HostFrame) /\ host \in [Conv -> HostState]
  BY DEF LinkOK
<1>2. CASE FrameStep
  BY <1>2 DEF FrameStep, ReceiveCreated, ReceiveRefused, ReceiveStarted, ReceiveDelta, ReceiveStatus,
     ReceiveDone, ReceiveError, ReceiveSnapshot, Receive, Ignored
<1>3. CASE Reload \/ SocketCloses
  BY <1>3 DEF Reload, SocketCloses
<1>4. ASSUME NEW type, Handle(type)
      PROVE  Head(toHost) \in Range(toHost) /\ Head(toHost).conv \in Conv /\ Head(toHost).type = type
  <2>1. Head(toHost) \in HostFrame
    BY <1>1, <1>4, HeadTailProperties DEF Handle
  <2>2. Head(toHost) \in Range(toHost)
    BY <1>1, <1>4, RangeOf DEF Handle
  <2> QED
    BY <1>4, <2>1, <2>2 DEF Handle, HostFrame
<1>5. CASE HandleStep
  <2> DEFINE c == Head(toHost).conv
  <2>1. c \in Conv
    BY <1>4, <1>5 DEF HandleStep, HostCreate, HostMessage, HostStop, HostSubscribe
  <2>2. CASE HostSubscribe
    <3> DEFINE f == SnapshotFrame(c)
    <3>1. toPage' = Append(toPage, f)
      BY <2>2 DEF HostSubscribe
    <3>2. f \in PageFrame /\ f.type = "snapshot" /\ f.conv = c
      <4>1. host[c].journal \in Seq(Row)
        BY <1>1, <2>1 DEF HostState
      <4> QED
        BY <2>1, <4>1 DEF SnapshotFrame, PageFrame
    <3>3. Head(toHost) \in Range(toHost) /\ Head(toHost).type = "subscribe"
      BY <1>4, <2>2 DEF HostSubscribe
    <3>4. f = SnapshotFrame(c)
      OBVIOUS
    <3> HIDE DEF f, c
    <3> QED
      BY <1>5, <2>1, <3>1, <3>2, <3>3, <3>4
  <2>3. CASE HostCreate \/ HostMessage \/ HostStop
    <3>1. \/ toPage' = toPage
          \/ \E type \in {"refused", "error", "started", "status"} : toPage' = Append(toPage, Frame(type, c))
          \/ toPage' = Append(toPage, Frame("created", c)) /\ host' = [host EXCEPT ![c].known = TRUE]
      BY <2>3 DEF HostCreate, HostMessage, HostStop
    <3> HIDE DEF c
    <3>2. ASSUME NEW type \in {"refused", "error", "started", "status", "created"}
          PROVE  Frame(type, c) \in PageFrame /\ Frame(type, c).type = type /\ Frame(type, c).conv = c
      BY <2>1, FrameTypes DEF Frame
    <3>3. host' = [host EXCEPT ![c].known = TRUE] => host'[c].known
      BY <1>1, <2>1 DEF HostState
    <3>4. CASE \E type \in {"refused", "error", "started", "status"} : toPage' = Append(toPage, Frame(type, c))
      <4>1. PICK type \in {"refused", "error", "started", "status"} : toPage' = Append(toPage, Frame(type, c))
        BY <3>4
      <4> DEFINE f == Frame(type, c)
      <4>2. f \in PageFrame /\ f.type = type /\ f.conv = c /\ toPage' = Append(toPage, f)
        BY <3>2, <4>1
      <4> HIDE DEF f
      <4> QED
        BY <2>1, <4>2
    <3>5. CASE toPage' = Append(toPage, Frame("created", c)) /\ host' = [host EXCEPT ![c].known = TRUE]
      <4> DEFINE f == Frame("created", c)
      <4>1. f \in PageFrame /\ f.type = "created" /\ f.conv = c /\ toPage' = Append(toPage, f)
        BY <3>2, <3>5
      <4> HIDE DEF f
      <4> QED
        BY <2>1, <3>3, <3>5, <4>1
    <3> QED
      BY <3>1, <3>4, <3>5
  <2> QED
    BY <1>5, <2>2, <2>3 DEF HandleStep
<1>6. ASSUME NEW c \in Conv, RunStep(c), ~ UNCHANGED toPage
      PROVE  \E f \in PageFrame :
              /\ toPage' = Append(toPage, f) /\ f.conv = c
              /\ \/ f.type \notin {"created", "delta", "snapshot"}
                 \/ HostDelta(c) /\ f = DeltaFrame(c, host[c].turn, host[c].sent + 1) /\ f.type = "delta"
  <2>1. CASE HostDelta(c)
    <3> DEFINE f == DeltaFrame(c, host[c].turn, host[c].sent + 1)
    <3>1. toPage' = Append(toPage, f)
      BY <1>6, <2>1 DEF HostDelta, Emit
    <3>2. f \in PageFrame
      <4>1. host[c].turn \in Turn
        BY <2>1 DEF HostDelta, RunTurns
      <4>2. host[c].sent + 1 \in 1..Pieces
        <5>1. host[c] \in HostState
          BY <1>1
        <5>2. host[c].sent \in 0..Pieces /\ host[c].sent < Pieces
          BY <2>1, <5>1 DEF HostDelta, HasMore, HostState
        <5> QED
          BY <5>2, ChatAssumption
      <4> QED
        BY <4>1, <4>2, FrameTypes
    <3>3. f.type = "delta" /\ f.conv = c
      BY DEF DeltaFrame
    <3>4. f = DeltaFrame(c, host[c].turn, host[c].sent + 1)
      OBVIOUS
    <3> HIDE DEF f
    <3> QED
      BY <2>1, <3>1, <3>2, <3>3, <3>4
  <2>2. ASSUME NEW how \in {"done", "error", "status"}, HostEnd(c, how)
        PROVE  \E f \in PageFrame : /\ toPage' = Append(toPage, f) /\ f.conv = c
                                    /\ f.type \notin {"created", "delta", "snapshot"}
    <3> DEFINE f == Frame(how, c)
    <3>1. toPage' = Append(toPage, f)
      BY <1>6, <2>2 DEF HostEnd, Emit
    <3>2. f \in PageFrame /\ f.conv = c /\ f.type = how
      BY FrameTypes DEF Frame
    <3> HIDE DEF f
    <3> QED
      BY <3>1, <3>2
  <2>3. ~ HostClear(c)
    BY <1>6 DEF HostClear
  <2> QED
    BY <1>6, <2>1, <2>2, <2>3 DEF RunStep
<1>7. CASE \/ NewConversation \/ (\E c \in Conv : SelectConversation(c)) \/ DeleteConversation
           \/ SendMessage \/ StopRun \/ SocketOpens \/ RetryTimer \/ WatchdogFires \/ UNCHANGED vars
           \/ (\E i \in DOMAIN page.chains : CreateTimesOut(page.chains[i]))
  BY <1>7 DEF NewConversation, SelectConversation, DeleteConversation, SendMessage, StopRun, SocketOpens,
     RetryTimer, WatchdogFires, CreateTimesOut, vars
<1> QED
  BY <1>2, <1>3, <1>5, <1>6, <1>7 DEF ChatNext, UserStep, SystemStep, TimerStep

\* What the host keeps of a run.
LEMMA HostRuns ==
  ASSUME PageOK, LinkOK, RunTurns, [ChatNext]_vars, NEW c \in Conv
  PROVE  /\ host[c].known => host'[c].known
         /\ \/ /\ host'[c].turn = host[c].turn /\ host'[c].sent >= host[c].sent
               /\ host'[c].phase # "idle" => host[c].phase # "idle"
               /\ host'[c].phase = "running" => host[c].phase = "running"
            \/ /\ HandleStep /\ toHost # <<>> /\ Head(toHost).type = "message" /\ Head(toHost).conv = c
               /\ host'[c].turn = Head(toHost).turn /\ host'[c].sent = 0 /\ host'[c].known
         /\ HostDelta(c) => host'[c].turn = host[c].turn /\ host'[c].sent = host[c].sent + 1
<1>1. host \in [Conv -> HostState] /\ toHost \in Seq(HostFrame)
  BY DEF LinkOK
<1>2. host[c] \in HostState /\ host[c].sent \in Nat
  BY <1>1 DEF HostState
<1>3. CASE UNCHANGED host
  <2>1. ~ HostDelta(c)
    <3> SUFFICES ASSUME HostDelta(c) PROVE FALSE
      OBVIOUS
    <3>1. host'[c].sent = host[c].sent + 1
      BY <1>1, <1>2 DEF HostDelta, HostState
    <3> QED
      BY <1>2, <1>3, <3>1
  <2> QED
    BY <1>2, <1>3, <2>1
<1>4. CASE host' = Unreached
  <2>1. host'[c] = [host[c] EXCEPT !.reach = FALSE]
    BY <1>4 DEF Unreached
  <2>2. ~ HostDelta(c)
    <3> SUFFICES ASSUME HostDelta(c) PROVE FALSE
      OBVIOUS
    <3>1. host'[c].sent = host[c].sent + 1
      BY <1>1, <1>2 DEF HostDelta, HostState
    <3>2. host'[c].sent = host[c].sent
      BY <1>2, <2>1 DEF HostState
    <3> QED
      BY <1>2, <3>1, <3>2
  <2> QED
    BY <1>2, <2>1, <2>2 DEF HostState
<1>5. CASE HandleStep
  <2>1. toHost # <<>> /\ toHost' = Tail(toHost)
    BY <1>5 DEF HandleStep, HostCreate, HostMessage, HostStop, HostSubscribe, Handle
  <2>2. Head(toHost) \in HostFrame /\ Len(Tail(toHost)) = Len(toHost) - 1 /\ Len(toHost) \in Nat
    BY <1>1, <2>1, HeadTailProperties, LenProperties
  <2>3. ~ HostDelta(c)
    <3> DEFINE n == Len(toHost)
               m == Len(Tail(toHost))
    <3>1. toHost' = toHost => m = n
      BY <2>1
    <3>2. m = n - 1 /\ n \in Nat
      BY <2>2
    <3> HIDE DEF m, n
    <3>3. toHost' # toHost
      BY <3>1, <3>2
    <3> QED
      BY <3>3 DEF HostDelta
  <2> DEFINE d == Head(toHost).conv
  <2>4. \/ host' = host
        \/ host' = [host EXCEPT ![d].known = TRUE]
        \/ host' = [host EXCEPT ![d].cancelled = (host[d].phase = "running")]
        \/ host' = [host EXCEPT ![d].reach = TRUE]
        \/ HostMessage /\ ~ UNCHANGED host
    BY <1>5 DEF HandleStep, HostCreate, HostMessage, HostStop, HostSubscribe
  <2>5. d \in Conv
    BY <2>2 DEF HostFrame
  <2>6. CASE HostMessage /\ ~ UNCHANGED host
    <3> DEFINE t == Head(toHost).turn
               h == [host[d] EXCEPT !.known = TRUE, !.phase = "running", !.turn = t,
                             !.sent = 0, !.cancelled = FALSE, !.reach = TRUE,
                             !.journal = Append(host[d].journal, [turn |-> t, text |-> <<>>])]
    <3>1. host' = [host EXCEPT ![d] = h] /\ Head(toHost).type = "message"
      BY <2>6 DEF HostMessage, Handle
    <3>2. host[d] \in HostState
      BY <1>1, <2>5
    <3>3. h.turn = t /\ h.sent = 0 /\ h.known
      BY <3>2 DEF HostState
    <3> HIDE DEF h, t
    <3>4. CASE d = c
      <4>1. host'[c] = h
        BY <1>1, <3>1, <3>4
      <4> QED
        BY <1>5, <2>1, <2>3, <3>1, <3>3, <3>4, <4>1 DEF t
    <3>5. CASE d # c
      <4>1. host'[c] = host[c]
        BY <1>1, <3>1, <3>5
      <4> QED
        BY <1>2, <2>3, <4>1
    <3> QED
      BY <3>4, <3>5
  <2>7. CASE ~ (HostMessage /\ ~ UNCHANGED host)
    <3> HIDE DEF d
    <3>1. /\ host'[c].turn = host[c].turn /\ host'[c].sent = host[c].sent /\ host'[c].phase = host[c].phase
          /\ host[c].known => host'[c].known
      <4>1. CASE d = c
        <5>1. host[d] = host[c]
          BY <4>1
        <5>2. \/ host'[c] = host[c]
              \/ host'[c] = [host[c] EXCEPT !.known = TRUE]
              \/ host'[c] = [host[c] EXCEPT !.cancelled = (host[c].phase = "running")]
              \/ host'[c] = [host[c] EXCEPT !.reach = TRUE]
          BY <1>1, <2>4, <2>7, <4>1
        <5> QED
          BY <1>2, <5>2 DEF HostState
      <4>2. CASE d # c
        BY <1>1, <2>4, <2>7, <4>2
      <4> QED
        BY <4>1, <4>2
    <3> QED
      BY <1>2, <2>3, <3>1
  <2> QED
    BY <2>6, <2>7
<1>6. ASSUME NEW d \in Conv, RunStep(d)
      PROVE  /\ host'[c].turn = host[c].turn /\ host'[c].known = host[c].known
             /\ host'[c].sent >= host[c].sent
             /\ host'[c].phase # "idle" => host[c].phase # "idle"
             /\ host'[c].phase = "running" => host[c].phase = "running"
             /\ HostDelta(c) => host'[c].sent = host[c].sent + 1
  <2>1. \/ host' = [host EXCEPT ![d].sent = @ + 1] /\ host[d].phase = "running"
        \/ host' = [host EXCEPT ![d].phase = "idle"]
        \/ \E text : /\ host' = [host EXCEPT ![d].phase = "ending",
                                            ![d].journal[Len(host[d].journal)].text = text]
                     /\ host[d].phase = "running"
    BY <1>6 DEF RunStep, HostDelta, HostEnd, HostClear
  <2>2. HostDelta(c) => host'[c].sent = host[c].sent + 1
    BY <1>1, <1>2 DEF HostDelta, HostState
  <2>3. host[c].sent + 1 >= host[c].sent /\ host[c].sent >= host[c].sent
    BY <1>2
  <2>4. /\ host'[c].turn = host[c].turn /\ host'[c].known = host[c].known
        /\ host'[c].sent \in {host[c].sent, host[c].sent + 1}
        /\ host'[c].phase # "idle" => host[c].phase # "idle"
        /\ host'[c].phase = "running" => host[c].phase = "running"
    <3>1. CASE \E text : /\ host' = [host EXCEPT ![d].phase = "ending",
                                            ![d].journal[Len(host[d].journal)].text = text]
                         /\ host[d].phase = "running"
      <4>1. PICK text : /\ host' = [host EXCEPT ![d].phase = "ending",
                                            ![d].journal[Len(host[d].journal)].text = text]
                        /\ host[d].phase = "running"
        BY <3>1
      <4> DEFINE j == [host[d].journal EXCEPT ![Len(host[d].journal)].text = text]
                 h == [host[d] EXCEPT !.phase = "ending", !.journal = j]
      <4>2. host' = [host EXCEPT ![d] = h]
        BY <4>1
      <4> HIDE DEF j
      <4> QED
        BY <1>1, <1>2, <4>1, <4>2 DEF HostState
    <3>2. CASE host' = [host EXCEPT ![d].sent = @ + 1] /\ host[d].phase = "running"
      BY <1>1, <1>2, <3>2 DEF HostState
    <3>3. CASE host' = [host EXCEPT ![d].phase = "idle"]
      BY <1>1, <1>2, <3>3 DEF HostState
    <3> QED
      BY <2>1, <3>1, <3>2, <3>3
  <2> QED
    BY <2>2, <2>3, <2>4
<1>7. CASE UserStep \/ SocketCloses \/ FrameStep \/ TimerStep \/ SocketOpens \/ UNCHANGED vars
  BY <1>3, <1>4, <1>7 DEF UserStep, NewConversation, SelectConversation, DeleteConversation, SendMessage,
     StopRun, Reload, SocketCloses, FrameStep, ReceiveCreated, ReceiveRefused, ReceiveStarted, ReceiveDelta,
     ReceiveStatus, ReceiveDone, ReceiveError, ReceiveSnapshot, Ignored, TimerStep, WatchdogFires,
     CreateTimesOut, RetryTimer, SocketOpens, vars
<1> QED
  BY <1>5, <1>6, <1>7 DEF ChatNext, SystemStep

-------------------------------------------------------------------------------
(* No message reaches the host before its session is known there.          *)

Acknowledged ==
  /\ \A f \in Range(toPage) : f.type = "created" => host[f.conv].known
  /\ \A f \in Range(toHost) : f.type = "message" => host[f.conv].known

LEMMA AcknowledgedStep ==
  ASSUME PageInv, Acknowledged, [ChatNext]_vars
  PROVE  Acknowledged'
<1>1. PageOK /\ LinkOK /\ RunTurns /\ toHost \in Seq(HostFrame) /\ toPage \in Seq(PageFrame)
  BY DEF PageInv, LinkOK
<1>2. \A c \in Conv : host[c].known => host'[c].known
  BY <1>1, HostRuns
<1>3. /\ \A f \in Range(toPage) : f.conv \in Conv
      /\ \A f \in Range(toHost) : f.conv \in Conv
  <2>1. Range(toPage) \subseteq PageFrame /\ Range(toHost) \subseteq HostFrame
    BY <1>1, RangeOf
  <2> QED
    BY <2>1 DEF PageFrame, HostFrame
<1>4. \A f \in Range(toPage') : f.type = "created" => host'[f.conv].known
  <2>1. CASE UNCHANGED toPage
    BY <1>2, <1>3, <2>1 DEF Acknowledged
  <2>2. CASE toPage' = <<>>
    BY <2>2, EmptyRange
  <2>3. CASE toPage # <<>> /\ toPage' = Tail(toPage)
    <3>1. Range(toPage') \subseteq Range(toPage)
      BY <1>1, <2>3, RangeOf
    <3> QED
      BY <1>2, <1>3, <3>1 DEF Acknowledged
  <2>4. ASSUME NEW g \in PageFrame, NEW c \in Conv, toPage' = Append(toPage, g), g.conv = c,
               g.type = "created" => host'[c].known
        PROVE  \A f \in Range(toPage') : f.type = "created" => host'[f.conv].known
    <3>1. Range(toPage') = Range(toPage) \cup {g}
      BY <1>1, <2>4, RangeOf
    <3> QED
      BY <1>2, <1>3, <2>4, <3>1 DEF Acknowledged
  <2> QED
    BY <1>1, <2>1, <2>2, <2>3, <2>4, Arrives
<1>5. \A f \in Range(toHost') : f.type = "message" => host'[f.conv].known
  <2>1. CASE UNCHANGED toHost
    BY <1>2, <1>3, <2>1 DEF Acknowledged
  <2>2. CASE toHost' = <<>>
    BY <2>2, EmptyRange
  <2>3. CASE toHost # <<>> /\ toHost' = Tail(toHost)
    <3>1. Range(toHost') \subseteq Range(toHost)
      BY <1>1, <2>3, RangeOf
    <3> QED
      BY <1>2, <1>3, <3>1 DEF Acknowledged
  <2>4. ASSUME toPage # <<>>, Head(toPage).type = "created",
               Head(toPage).conv \in Conv, page.pending[Head(toPage).conv] \in Turn,
               toHost' = Append(toHost, MessageFrame(Head(toPage).conv, page.pending[Head(toPage).conv]))
        PROVE  \A f \in Range(toHost') : f.type = "message" => host'[f.conv].known
    <3> DEFINE c == Head(toPage).conv
               g == MessageFrame(c, page.pending[c])
    <3>1. host[c].known /\ c \in Conv
      BY <1>1, <2>4, RangeOf DEF Acknowledged
    <3>2. g \in HostFrame /\ g.conv = c /\ toHost' = Append(toHost, g)
      BY <2>4, FrameTypes DEF MessageFrame
    <3> HIDE DEF g, c
    <3>3. Range(toHost') = Range(toHost) \cup {g}
      BY <1>1, <3>2, RangeOf
    <3> QED
      BY <1>2, <1>3, <3>1, <3>2, <3>3 DEF Acknowledged
  <2>5. ASSUME NEW g \in HostFrame, toHost' = Append(toHost, g), g.type # "message"
        PROVE  \A f \in Range(toHost') : f.type = "message" => host'[f.conv].known
    <3>1. Range(toHost') = Range(toHost) \cup {g}
      BY <1>1, <2>5, RangeOf
    <3> QED
      BY <1>2, <1>3, <2>5, <3>1 DEF Acknowledged
  <2>6. CASE \A f \in Range(toHost') : f \in Range(toHost) \/ f.type = "create" \/ f.type = "subscribe"
    BY <1>2, <1>3, <2>6 DEF Acknowledged
  <2> QED
    BY <1>1, <2>1, <2>2, <2>3, <2>4, <2>5, <2>6, Sends
<1> QED
  BY <1>4, <1>5 DEF Acknowledged

(* The gate before ai.message holds through time-outs, late acknowledgements *)
(* and overlapping sends: what the page sends follows an acknowledgement the *)
(* host gave, and the host forgets no session.                               *)
THEOREM NoRunBeforeCreate == ChatSpec => []NoLazyCreate
<1>1. ChatInit => Acknowledged
  BY EmptyRange DEF ChatInit, Acknowledged
<1>2. PageInv /\ Acknowledged /\ [ChatNext]_vars => Acknowledged'
  BY AcknowledgedStep
<1>3. Acknowledged => NoLazyCreate
  BY DEF Acknowledged, NoLazyCreate, Range
<1> QED
  BY <1>1, <1>2, <1>3, PageInvHolds, PTL DEF ChatSpec

-------------------------------------------------------------------------------
(* The creates the page awaits, and the conversations it lists. *)

HasAwaits(p) == "pending" \in DOMAIN p /\ "chains" \in DOMAIN p /\ "list" \in DOMAIN p

SameAwaits(p, q) == HasAwaits(q) /\ q.pending = p.pending /\ q.chains = p.chains /\ q.list = p.list

LEMMA OthersAwait ==
  ASSUME NEW p, HasAwaits(p), NEW c
  PROVE  /\ SameAwaits(p, Arm(p, c)) /\ SameAwaits(p, Disarm(p)) /\ SameAwaits(p, Feed(p, c))
         /\ SameAwaits(p, Finish(p, c)) /\ SameAwaits(p, ArmFor(p, c)) /\ SameAwaits(p, EnsureBubble(p, c))
         /\ SameAwaits(p, AddStatus(p, c))
         /\ \A s : SameAwaits(p, MarkRunning(p, c, s))
         /\ \A x : SameAwaits(p, AddText(p, c, x))
         /\ \A text : SameAwaits(p, FillRunning(p, c, text))
         /\ \A i, text : SameAwaits(p, SetText(p, c, i, text))
         /\ \A R : SameAwaits(p, GiveUp(p, R))
<1>1. \A B : SameAwaits(p, [p EXCEPT !.bubbles = B])
  BY DEF SameAwaits, HasAwaits
<1>2. \A s : SameAwaits(p, MarkRunning(p, c, s))
  BY DEF MarkRunning, SameAwaits, HasAwaits
<1>3. \A x : SameAwaits(p, AddText(p, c, x))
  BY DEF AddText, SameAwaits, HasAwaits
<1>4. \A i, text : SameAwaits(p, SetText(p, c, i, text))
  BY DEF SetText, SameAwaits, HasAwaits
<1>5. SameAwaits(p, p)
  BY DEF SameAwaits
<1>6. SameAwaits(p, EnsureBubble(p, c))
  BY <1>5 DEF EnsureBubble, SameAwaits, HasAwaits
<1>7. SameAwaits(p, Arm(p, c)) /\ SameAwaits(p, Disarm(p)) /\ SameAwaits(p, Finish(p, c))
  BY DEF Arm, Disarm, Finish, SameAwaits, HasAwaits
<1>8. \A R : SameAwaits(p, GiveUp(p, R))
  BY DEF GiveUp, Disarm, SameAwaits, HasAwaits
<1> QED
  BY <1>2, <1>3, <1>4, <1>5, <1>6, <1>7, <1>8 DEF Feed, ArmFor, AddStatus, FillRunning

LEMMA ReconcileAwaits ==
  ASSUME NEW p, HasAwaits(p), NEW f
  PROVE  SameAwaits(p, Reconcile(p, f))
<1> DEFINE c == f.conv
<1>1. \A q, text : SameAwaits(p, q) => /\ SameAwaits(p, ArmFor(q, c)) /\ SameAwaits(p, Finish(q, c))
                                      /\ SameAwaits(p, Disarm(q)) /\ SameAwaits(p, FillRunning(q, c, text))
                                      /\ SameAwaits(p, MarkRunning(q, c, "done"))
  <2> SUFFICES ASSUME NEW q, SameAwaits(p, q), NEW text
               PROVE  /\ SameAwaits(p, ArmFor(q, c)) /\ SameAwaits(p, Finish(q, c))
                      /\ SameAwaits(p, Disarm(q)) /\ SameAwaits(p, FillRunning(q, c, text))
                      /\ SameAwaits(p, MarkRunning(q, c, "done"))
    OBVIOUS
  <2> HIDE DEF c
  <2>1. HasAwaits(q) /\ q.pending = p.pending /\ q.chains = p.chains /\ q.list = p.list
    BY DEF SameAwaits
  <2>2. /\ SameAwaits(q, ArmFor(q, c)) /\ SameAwaits(q, Finish(q, c))
        /\ SameAwaits(q, Disarm(q)) /\ SameAwaits(q, FillRunning(q, c, text))
        /\ SameAwaits(q, MarkRunning(q, c, "done"))
    BY <2>1, OthersAwait
  <2> QED
    BY <2>1, <2>2 DEF SameAwaits
<1>2. SameAwaits(p, p)
  BY DEF SameAwaits
<1>3. \A text, s, v : SameAwaits(p, [p EXCEPT !.bubbles[c] = Append(@, Answer(text, s)), !.recovered[c] = v])
                      /\ SameAwaits(p, [p EXCEPT !.bubbles[c] = Append(@, Answer(text, s))])
                      /\ \A i : SameAwaits(p, [SetText(p, c, i, text) EXCEPT !.recovered[c] = v])
  BY DEF SameAwaits, HasAwaits, SetText
<1> HIDE DEF c
<1> QED
  BY <1>1, <1>2, <1>3 DEF Reconcile, c

\* q lists what p does and awaits no more.
Awaits(p, q) ==
  /\ HasAwaits(q) /\ q.list = p.list
  /\ \A c \in Conv : q.pending[c] \in {0, p.pending[c]}
  /\ Range(q.chains) \subseteq Range(p.chains)

LEMMA FewerAwait ==
  ASSUME NEW p, HasAwaits(p), p.chains \in Seq(Chain)
  PROVE  /\ \A chs : /\ Awaits(p, Unwait(p, chs))
                     /\ \A c \in Conv : (\E ch \in chs : ch.conv = c) => Unwait(p, chs).pending[c] = 0
         /\ \A A : Awaits(p, Refuse(p, A))
         /\ \A phase : Range(InPhase(p, phase)) \subseteq Range(p.chains)
<1>1. p.chains \in Seq(Chain) /\ HasAwaits(p)
  OBVIOUS
<1>2. \A I \in SUBSET DOMAIN p.chains : Range(Filtered(p.chains, I)) \subseteq Range(p.chains)
  <2> TAKE I \in SUBSET DOMAIN p.chains
  <2> DEFINE s == Filtered(p.chains, I)
  <2>1. \A n \in DOMAIN s : \E i \in I : s[n] = p.chains[i]
    BY <1>1, FilteredIn
  <2> HIDE DEF s
  <2> QED
    BY <2>1 DEF Range, s
<1>3. ASSUME NEW chs
      PROVE  /\ Awaits(p, Unwait(p, chs)) /\ HasAwaits(Unwait(p, chs))
             /\ \A c \in Conv : (\E ch \in chs : ch.conv = c) => Unwait(p, chs).pending[c] = 0
  <2> DEFINE P == [c \in Conv |-> IF \E ch \in chs : ch.conv = c THEN 0 ELSE p.pending[c]]
             I == {i \in DOMAIN p.chains : p.chains[i] \notin chs}
             s == Filtered(p.chains, I)
             u == Unwait(p, chs)
  <2>1. u = [p EXCEPT !.pending = P, !.chains = s]
    BY DEF Unwait
  <2>2. \A c \in Conv : P[c] \in {0, p.pending[c]} /\ ((\E ch \in chs : ch.conv = c) => P[c] = 0)
    OBVIOUS
  <2>3. Range(s) \subseteq Range(p.chains)
    BY <1>2
  <2> HIDE DEF P, s, u
  <2>4. u.pending = P /\ u.chains = s /\ u.list = p.list /\ HasAwaits(u)
    BY <1>1, <2>1 DEF HasAwaits
  <2> QED
    BY <2>2, <2>3, <2>4 DEF Awaits, u
<1>4. ASSUME NEW A PROVE Awaits(p, Refuse(p, A))
  <2> DEFINE R == {c \in A : p.pending[c] # 0}
             u == Unwait(p, {AckChain(p, c) : c \in R})
  <2>1. Refuse(p, A) = p \/ Refuse(p, A) = GiveUp(u, R)
    BY DEF Refuse
  <2>2. Awaits(p, u) /\ HasAwaits(u)
    BY <1>3
  <2> HIDE DEF u
  <2>3. SameAwaits(u, GiveUp(u, R))
    BY <2>2, OthersAwait
  <2>4. Awaits(p, p)
    BY <1>1 DEF Awaits
  <2> QED
    BY <2>1, <2>2, <2>3, <2>4 DEF Awaits, SameAwaits
<1>5. \A phase : Range(InPhase(p, phase)) \subseteq Range(p.chains)
  BY <1>2 DEF InPhase
<1> QED
  BY <1>3, <1>4, <1>5

\* Only a send and the opening of its socket make the page await more.
LEMMA AwaitsStep ==
  ASSUME PageOK, LinkOK, [ChatNext]_vars
  PROVE  \/ Awaits(page, page')
         \/ /\ NewConversation \/ DeleteConversation \/ Reload
            /\ \A c \in Conv : page'.pending[c] \in {0, page.pending[c]}
            /\ Range(page'.chains) \subseteq Range(page.chains)
         \/ /\ SendMessage /\ page.active \in Conv /\ page'.list = page.list
            /\ \A c \in Conv : page'.pending[c] \in {0, page.pending[c]}
                 \/ /\ c = page.active /\ socket.state = "open"
                    /\ page'.pending[c] = spent'.turn[c]
            /\ \A ch \in Range(page'.chains) :
                 ch \in Range(page.chains)
                 \/ (ch.conv = page.active /\ ch.turn = spent'.turn[page.active])
         \/ /\ SocketOpens /\ page'.list = page.list
            /\ \A c \in Conv : page'.pending[c] \in {0, page.pending[c]}
                 \/ \E ch \in Range(page.chains) : ch.conv = c /\ page'.pending[c] = ch.turn
            /\ \A ch \in Range(page'.chains) :
                 \E old \in Range(page.chains) : old.conv = ch.conv /\ old.turn = ch.turn
<1>1. page \in Memory /\ HasAwaits(page) /\ page.chains \in Seq(Chain)
  BY DEF PageOK, Memory, HasAwaits, Chain
<1>2. Awaits(page, page)
  BY <1>1 DEF Awaits
<1>3. \A q : SameAwaits(page, q) => Awaits(page, q)
  BY <1>1 DEF Awaits, SameAwaits
<1>4. CASE UNCHANGED page
  BY <1>2, <1>4
<1>5. CASE \E c \in Conv : SelectConversation(c)
  <2>1. SameAwaits(page, page')
    BY <1>1, <1>5 DEF SelectConversation, SameAwaits, HasAwaits
  <2> QED
    BY <1>3, <2>1
<1>6. CASE NewConversation \/ DeleteConversation \/ Reload
  <2>1. CASE NewConversation \/ DeleteConversation
    <3>1. page'.pending = page.pending /\ page'.chains = page.chains
      BY <1>1, <2>1 DEF NewConversation, DeleteConversation, HasAwaits
    <3> QED
      BY <2>1, <3>1
  <2>2. CASE Reload
    <3>1. page'.chains = <<>> /\ \A c \in Conv : page'.pending[c] = 0
      BY <2>2 DEF Reload
    <3> QED
      BY <2>2, <3>1, EmptyRange
  <2> QED
    BY <1>6, <2>1, <2>2
<1>7. CASE SendMessage
  <2> DEFINE a == page.active
             t == spent.turn[a] + 1
             open == socket.state = "open"
             ch == [conv |-> a, turn |-> t, phase |-> IF open THEN "ack" ELSE "socket"]
             C == Append(page.chains, ch)
             P == [page.pending EXCEPT ![a] = IF open THEN t ELSE @]
             B == [page.bubbles EXCEPT ![a] = @ \o <<User(t), Answer(<<>>, "running")>>]
  <2>1. a \in Conv /\ t \in Turn
    BY <1>1, <1>7 DEF SendMessage, Memory
  <2>2. page' = [page EXCEPT !.bubbles = B, !.sending = TRUE, !.chains = C, !.pending = P]
    BY <1>7 DEF SendMessage
  <2>3. spent'.turn[a] = t
    BY <1>7, <2>1 DEF SendMessage, LinkOK, Spent
  <2>4. ch \in Chain /\ ch.conv = a /\ ch.turn = t
    BY <2>1 DEF Chain
  <2>5. \A c \in Conv : P[c] \in {0, page.pending[c]} \/ (c = a /\ open /\ P[c] = t)
    BY <1>1, <2>1 DEF Memory
  <2> HIDE DEF ch, P, B, t
  <2>6. Range(C) = Range(page.chains) \cup {ch}
    BY <1>1, <2>4, RangeOf
  <2> HIDE DEF C
  <2>7. page'.chains = C /\ page'.pending = P /\ page'.list = page.list
    BY <1>1, <2>2 DEF HasAwaits
  <2> QED
    BY <1>7, <2>1, <2>3, <2>4, <2>5, <2>6, <2>7
<1>8. CASE WatchdogFires
  <2> DEFINE c == page.watchdog
             p == Disarm(page)
             m == MarkRunning(p, c, "error")
  <2>1. page' = p \/ page' = Finish(m, c)
    BY <1>8 DEF WatchdogFires
  <2>2. SameAwaits(page, p)
    BY <1>1, OthersAwait
  <2> HIDE DEF p, c
  <2>3. HasAwaits(p)
    BY <2>2 DEF SameAwaits
  <2>4. SameAwaits(p, m)
    BY <2>3, OthersAwait
  <2> HIDE DEF m
  <2>5. SameAwaits(m, Finish(m, c))
    BY <2>4, OthersAwait DEF SameAwaits
  <2>6. SameAwaits(page, page')
    BY <2>1, <2>2, <2>4, <2>5 DEF SameAwaits
  <2> QED
    BY <1>3, <2>6
<1>9. ASSUME NEW ch, CreateTimesOut(ch)
      PROVE  Awaits(page, page')
  <2> DEFINE u == Unwait(page, {ch})
  <2>1. Awaits(page, u) /\ HasAwaits(u)
    BY <1>1, FewerAwait DEF Awaits
  <2>2. page' = GiveUp(u, {ch.conv})
    BY <1>9 DEF CreateTimesOut
  <2> HIDE DEF u
  <2>3. SameAwaits(u, page')
    BY <2>1, <2>2, OthersAwait
  <2> QED
    BY <2>1, <2>3 DEF Awaits, SameAwaits
<1>10. CASE SocketCloses
  <2> DEFINE C == InPhase(page, "ack")
             p == [Disarm(page) EXCEPT !.chains = C]
             a == p.active
             m == MarkRunning(p, a, "error")
             q == IF p.sending /\ a # NoConv THEN Finish(m, a) ELSE p
  <2>1. page' = p \/ page' = Refuse(q, Affected(p))
    BY <1>10 DEF SocketCloses, Interrupt
  <2>2. C \in Seq(Chain) /\ Range(C) \subseteq Range(page.chains)
    BY <1>1, PhaseChains, FewerAwait
  <2> HIDE DEF C
  <2>3. p = [page EXCEPT !.watchdog = NoConv, !.chains = C]
    BY DEF Disarm
  <2> HIDE DEF p
  <2>4. HasAwaits(p) /\ Awaits(page, p) /\ p.chains \in Seq(Chain)
    BY <1>1, <2>2, <2>3 DEF Awaits, HasAwaits
  <2> HIDE DEF a
  <2>5. SameAwaits(p, m)
    BY <2>4, OthersAwait
  <2> HIDE DEF m
  <2>6. SameAwaits(p, q)
    <3>1. SameAwaits(m, Finish(m, a))
      BY <2>5, OthersAwait DEF SameAwaits
    <3> QED
      BY <2>4, <2>5, <3>1 DEF SameAwaits
  <2> HIDE DEF q
  <2>7. Awaits(q, Refuse(q, Affected(p)))
    BY <2>4, <2>6, FewerAwait DEF SameAwaits
  <2> QED
    BY <2>1, <2>4, <2>6, <2>7 DEF Awaits, SameAwaits
<1>11. CASE SocketOpens
  <2> DEFINE opened(c) == {i \in DOMAIN Waiting : Waiting[i].conv = c}
             last(c) == CHOOSE i \in opened(c) : \A j \in opened(c) : j <= i
             C == [i \in DOMAIN page.chains |-> [page.chains[i] EXCEPT !.phase = "ack"]]
             P == [c \in Conv |-> IF opened(c) = {} THEN page.pending[c] ELSE Waiting[last(c)].turn]
             R == [c \in Conv |-> page.recovered[c] \/ ("all" \in socket.resub
                     /\ \E i \in DOMAIN ToSubscribe(page, socket.resub) : ToSubscribe(page, socket.resub)[i] = c)]
  <2>1. page' = [page EXCEPT !.chains = C, !.pending = P, !.recovered = R]
    BY <1>11 DEF SocketOpens
  <2>2. Waiting \in Seq(Chain) /\ Range(Waiting) \subseteq Range(page.chains)
    BY <1>1, PhaseChains, FewerAwait DEF Waiting
  <2>3. Len(Waiting) \in Nat /\ DOMAIN Waiting = 1..Len(Waiting)
    BY <2>2, LenProperties
  <2>4. ASSUME NEW c \in Conv, opened(c) # {}
        PROVE  last(c) \in opened(c)
    <3> DEFINE O == opened(c)
    <3>1. O \in SUBSET (1..Len(Waiting)) /\ O # {}
      BY <2>3, <2>4
    <3>2. last(c) = CHOOSE i \in O : \A j \in O : j <= i
      OBVIOUS
    <3> HIDE DEF O, last
    <3>3. \E i \in O : \A j \in O : j <= i
      BY <2>3, <3>1, LastPlace
    <3> QED
      BY <3>2, <3>3 DEF O
  <2>5. ASSUME NEW c \in Conv
        PROVE  P[c] = page.pending[c] \/ \E ch \in Range(page.chains) : ch.conv = c /\ P[c] = ch.turn
    <3>1. CASE opened(c) # {}
      <4>1. P[c] = Waiting[last(c)].turn /\ last(c) \in opened(c)
        BY <2>4, <3>1
      <4> HIDE DEF P, last
      <4>2. Waiting[last(c)] \in Range(Waiting) /\ Waiting[last(c)].conv = c
        BY <4>1 DEF Range
      <4> QED
        BY <2>2, <4>1, <4>2
    <3> QED
      BY <3>1
  <2>6. ASSUME NEW ch \in Range(C)
        PROVE  \E old \in Range(page.chains) : old.conv = ch.conv /\ old.turn = ch.turn
    <3>1. PICK i \in DOMAIN page.chains : ch = [page.chains[i] EXCEPT !.phase = "ack"]
      BY <2>6 DEF Range
    <3>2. page.chains[i] \in Chain
      BY <1>1, ElementOfSeq
    <3>3. ch.conv = page.chains[i].conv /\ ch.turn = page.chains[i].turn
      BY <3>1, <3>2 DEF Chain
    <3> QED
      BY <3>3 DEF Range
  <2> HIDE DEF C, P, R, opened
  <2>7. page'.chains = C /\ page'.pending = P /\ page'.list = page.list
    BY <1>1, <2>1 DEF HasAwaits
  <2> QED
    BY <1>11, <2>5, <2>6, <2>7
<1>12. CASE FrameStep
  <2> DEFINE d == Head(toPage).conv
             p == Feed(page, To)
             D == Disarm(page)
  <2>1. \/ page' = page
        \/ ReceiveCreated
        \/ page' = Refuse(D, {d})
        \/ page' = EnsureBubble(p, To)
        \/ page' = AddText(EnsureBubble(p, To), To, Head(toPage).piece)
        \/ page' = AddStatus(p, To)
        \/ \E s \in {"done", "error"} : page' = Finish(MarkRunning(D, To, s), To)
        \/ page' = Reconcile(page, Head(toPage))
    BY <1>12 DEF FrameStep, ReceiveRefused, ReceiveStarted, ReceiveDelta, ReceiveStatus, ReceiveDone,
       ReceiveError, ReceiveSnapshot, Ignored
  <2>2. SameAwaits(page, p) /\ SameAwaits(page, D)
    BY <1>1, OthersAwait
  <2> HIDE DEF p, D, d
  <2>3. HasAwaits(p) /\ HasAwaits(D) /\ D.chains \in Seq(Chain)
    BY <1>1, <2>2 DEF SameAwaits
  <2>4. CASE page' = Refuse(D, {d})
    BY <2>2, <2>3, <2>4, FewerAwait DEF Awaits, SameAwaits
  <2>5. CASE page' = EnsureBubble(p, To) \/ page' = AddStatus(p, To)
    <3>1. SameAwaits(p, page')
      BY <2>3, <2>5, OthersAwait
    <3> QED
      BY <1>3, <2>2, <3>1 DEF SameAwaits
  <2>6. CASE page' = AddText(EnsureBubble(p, To), To, Head(toPage).piece)
    <3> DEFINE e == EnsureBubble(p, To)
    <3>1. SameAwaits(p, e)
      BY <2>3, OthersAwait
    <3>2. page' = AddText(e, To, Head(toPage).piece)
      BY <2>6
    <3> HIDE DEF e
    <3>3. HasAwaits(e)
      BY <3>1 DEF SameAwaits
    <3>4. SameAwaits(e, page')
      BY <3>2, <3>3, OthersAwait
    <3> QED
      BY <1>3, <2>2, <3>1, <3>4 DEF SameAwaits
  <2>7. ASSUME NEW s, page' = Finish(MarkRunning(D, To, s), To)
        PROVE  Awaits(page, page')
    <3> DEFINE m == MarkRunning(D, To, s)
    <3>1. SameAwaits(D, m)
      BY <2>3, OthersAwait
    <3> HIDE DEF m
    <3>2. SameAwaits(m, page')
      BY <2>7, <3>1, OthersAwait DEF SameAwaits, m
    <3> QED
      BY <1>3, <2>2, <3>1, <3>2 DEF SameAwaits
  <2>8. CASE page' = Reconcile(page, Head(toPage))
    BY <1>1, <1>3, <2>8, ReconcileAwaits
  <2>9. CASE ReceiveCreated
    <3>1. CASE page' \in {page, p}
      BY <1>2, <1>3, <2>2, <3>1
    <3>2. CASE page' \notin {page, p}
      <4> DEFINE u == Unwait(p, {AckChain(p, d)})
                 v == [u EXCEPT !.recovered[d] = FALSE]
      <4>1. page' = Arm(v, d)
        BY <2>9, <3>2 DEF ReceiveCreated, Ignored, p, d
      <4>2. Awaits(p, u)
        BY <1>1, <2>2, <2>3, FewerAwait DEF SameAwaits
      <4> HIDE DEF u
      <4>3. SameAwaits(u, v)
        BY <4>2 DEF Awaits, SameAwaits, HasAwaits
      <4> HIDE DEF v
      <4>4. SameAwaits(v, page')
        BY <4>1, <4>3, OthersAwait DEF SameAwaits
      <4> QED
        BY <2>2, <4>2, <4>3, <4>4 DEF Awaits, SameAwaits
    <3> QED
      BY <3>1, <3>2
  <2> QED
    BY <1>2, <2>1, <2>4, <2>5, <2>6, <2>7, <2>8, <2>9
<1>13. CASE StopRun \/ RetryTimer \/ HandleStep \/ (\E c \in Conv : RunStep(c)) \/ UNCHANGED vars
  BY <1>4, <1>13 DEF StopRun, RetryTimer, HandleStep, HostCreate, HostMessage, HostStop, HostSubscribe, Handle,
     RunStep, HostDelta, HostEnd, HostClear, vars
<1> QED
  BY <1>5, <1>6, <1>7, <1>8, <1>9, <1>10, <1>11, <1>12, <1>13
     DEF ChatNext, UserStep, SystemStep, TimerStep

-------------------------------------------------------------------------------
(* The texts after a move: what was there, one piece at the very end, and   *)
(* what a snapshot tells.                                                   *)

Grown(bs, new, X, Y) ==
  \A i \in DOMAIN new : \A j \in DOMAIN new[i].text :
    \/ i \in DOMAIN bs /\ j \in DOMAIN bs[i].text /\ new[i].text[j] = bs[i].text[j]
    \/ new[i].text[j] \in X /\ i = Len(new) /\ j = Len(new[i].text)
    \/ new[i].text[j] \in Y

LEMMA GrownText ==
  ASSUME NEW old \in Seq(Shown), NEW X \in SUBSET Shown, NEW Y \in SUBSET Shown, NEW text, GoesOn(old, text, X, Y)
  PROVE  \A j \in DOMAIN text : \/ j \in DOMAIN old /\ text[j] = old[j]
                                \/ text[j] \in X /\ j = Len(text)
                                \/ text[j] \in Y
<1>1. Len(old) \in Nat /\ DOMAIN old = 1..Len(old)
  BY LenProperties
<1>2. CASE text = old
  BY <1>2
<1>3. ASSUME NEW x \in X, text = Append(old, x)
      PROVE  \A j \in DOMAIN text : (j \in DOMAIN old /\ text[j] = old[j]) \/ (text[j] \in X /\ j = Len(text))
  <2>1. /\ text \in Seq(Shown) /\ Len(text) = Len(old) + 1 /\ text[Len(old) + 1] = x
        /\ \A j \in 1..Len(old) : text[j] = old[j]
    BY <1>3, AppendProperties
  <2>2. DOMAIN text = 1..(Len(old) + 1)
    BY <2>1, LenProperties
  <2>3. \A j \in DOMAIN text : j \in DOMAIN old \/ j = Len(old) + 1
    BY <1>1, <2>2
  <2> QED
    BY <1>1, <1>3, <2>1, <2>3
<1>4. CASE text \in Seq(Y)
  BY <1>4, ElementOfSeq
<1> QED
  BY <1>2, <1>3, <1>4 DEF GoesOn

LEMMA GrownAtEnd ==
  ASSUME NEW bs \in Bubbles(Shown), NEW b \in Bubble(Shown), NEW X \in SUBSET Shown, NEW Y \in SUBSET Shown,
         GoesOn(<<>>, b.text, X, Y)
  PROVE  Grown(bs, Append(bs, b), X, Y)
<1> DEFINE new == Append(bs, b)
<1>1. /\ new \in Bubbles(Shown) /\ Len(new) = Len(bs) + 1 /\ new[Len(bs) + 1] = b
      /\ \A i \in 1..Len(bs) : new[i] = bs[i]
  BY AppendProperties DEF Bubbles
<1>2. Len(bs) \in Nat /\ DOMAIN bs = 1..Len(bs) /\ DOMAIN new = 1..(Len(bs) + 1)
  BY <1>1, LenProperties DEF Bubbles
<1> HIDE DEF new
<1>3. \A j \in DOMAIN b.text : (b.text[j] \in X /\ j = Len(b.text)) \/ b.text[j] \in Y
  <2>1. <<>> \in Seq(Shown) /\ \A j : j \notin DOMAIN <<>>
    BY EmptySeq
  <2> QED
    BY <2>1, GrownText
<1>4. \A i \in DOMAIN new : (i \in DOMAIN bs /\ new[i] = bs[i]) \/ (i = Len(new) /\ new[i] = b)
  BY <1>1, <1>2
<1> QED
  BY <1>3, <1>4 DEF Grown, new

LEMMA MovedTexts ==
  ASSUME NEW bs \in Bubbles(Shown), LastRuns(bs), NEW X \in SUBSET Shown, NEW Y \in SUBSET Shown,
         NEW r, NEW new, Moves(bs, new, X, Y, r)
  PROVE  Grown(bs, new, X, Y)
<1>1. Len(bs) \in Nat /\ DOMAIN bs = 1..Len(bs)
  BY LenProperties DEF Bubbles
<1>2. \A i \in DOMAIN bs : bs[i] \in Bubble(Shown) /\ bs[i].text \in Seq(Shown)
  <2>1. \A i \in DOMAIN bs : bs[i] \in Bubble(Shown)
    BY ElementOfSeq DEF Bubbles
  <2> QED
    BY <2>1 DEF Bubble
<1>3. CASE new = bs
  BY <1>3 DEF Grown
<1>4. ASSUME RunningIn(bs) # {},
             NEW s \in {"running", "done", "error"}, NEW text \in Seq(Piece \cup {StatusNote}),
             GoesOn(bs[Len(bs)].text, text, X, Y),
             new = [bs EXCEPT ![Len(bs)] = [@ EXCEPT !.status = s, !.text = text]]
      PROVE  Grown(bs, new, X, Y)
  <2> DEFINE n == Len(bs)
             b == [bs[n] EXCEPT !.status = s, !.text = text]
  <2>1. n \in DOMAIN bs
    BY <1>4, RunsLast
  <2>2. b \in Bubble(Shown) /\ b.text = text
    BY <1>2, <2>1 DEF Bubble, Shown
  <2>3. new = [bs EXCEPT ![n] = b]
    BY <1>4
  <2> HIDE DEF b
  <2>4. DOMAIN new = DOMAIN bs /\ new[n] = b /\ \A i \in DOMAIN bs : i # n => new[i] = bs[i]
    BY <2>1, <2>3
  <2>5. Len(new) = n
    BY <2>1, <2>2, <2>3, ExceptSeq DEF Bubbles
  <2>6. \A j \in DOMAIN text : \/ j \in DOMAIN bs[n].text /\ text[j] = bs[n].text[j]
                               \/ text[j] \in X /\ j = Len(text)
                               \/ text[j] \in Y
    BY <1>2, <1>4, <2>1, GrownText
  <2> QED
    BY <2>1, <2>2, <2>4, <2>5, <2>6 DEF Grown
<1>5. CASE RunningIn(bs) # {} /\ new = SubSeq(bs, 1, Len(bs) - 1)
  <2>1. Len(bs) - 1 \in Nat
    BY <1>5, RunsLast
  <2>2. \A i \in 1..(Len(bs) - 1) : bs[i] \in Bubble(Shown)
    BY <1>1, <1>2, <2>1
  <2> DEFINE m == Len(bs) - 1
  <2>3. m \in Nat /\ m \in Int /\ 1 \in Int /\ m + 1 = Len(bs)
    BY <1>1, <2>1
  <2> HIDE DEF m
  <2>4. /\ SubSeq(bs, 1, m) \in Seq(Bubble(Shown))
        /\ Len(SubSeq(bs, 1, m)) = IF 1 <= m THEN m - 1 + 1 ELSE 0
        /\ \A i \in 1..m-1+1 : SubSeq(bs, 1, m)[i] = bs[1 + i - 1]
    BY <2>2, <2>3, SubSeqProperties DEF m
  <2>5. Len(SubSeq(bs, 1, m)) = m
    <3>1. CASE 1 <= m
      BY <2>3, <2>4, <3>1
    <3>2. CASE ~ (1 <= m)
      <4>1. m = 0
        BY <2>3, <3>2
      <4> QED
        BY <2>4, <3>2, <4>1
    <3> QED
      BY <3>1, <3>2
  <2>6. \A i \in 1..m : SubSeq(bs, 1, m)[i] = bs[i] /\ i \in DOMAIN bs
    BY <1>1, <2>3, <2>4
  <2>7. DOMAIN SubSeq(bs, 1, m) = 1..m
    BY <2>4, <2>5, LenProperties
  <2>8. new = SubSeq(bs, 1, m)
    BY <1>5 DEF m
  <2> QED
    BY <2>6, <2>7, <2>8 DEF Grown
<1>6. ASSUME RunningIn(bs) = {}, NEW t \in Turn,
             new = Append(Append(bs, User(t)), Answer(<<>>, "running"))
      PROVE  Grown(bs, new, X, Y)
  <2> DEFINE u == User(t)
             mid == Append(bs, u)
             b == Answer(<<>>, "running")
  <2>1. u \in Bubble(Shown) /\ b \in Bubble(Shown) /\ u.text = <<>> /\ b.text = <<>>
    BY NewBubbles DEF User, Answer
  <2>2. mid \in Bubbles(Shown)
    BY <2>1, AppendProperties DEF Bubbles
  <2>3. GoesOn(<<>>, <<>>, X, Y)
    BY DEF GoesOn
  <2> HIDE DEF u, b
  <2>4. Grown(bs, mid, X, Y)
    BY <2>1, <2>3, GrownAtEnd
  <2> DEFINE new2 == Append(mid, b)
  <2>5. /\ Len(new2) = Len(mid) + 1 /\ new2[Len(mid) + 1] = b
        /\ \A i \in 1..Len(mid) : new2[i] = mid[i]
        /\ DOMAIN new2 = 1..(Len(mid) + 1) /\ Len(mid) \in Nat
        /\ DOMAIN mid = 1..Len(mid) /\ Len(mid) = Len(bs) + 1
    <3> HIDE DEF mid
    <3>1. /\ new2 \in Seq(Bubble(Shown)) /\ Len(new2) = Len(mid) + 1 /\ new2[Len(mid) + 1] = b
          /\ \A i \in 1..Len(mid) : new2[i] = mid[i]
      BY <2>1, <2>2, AppendProperties DEF Bubbles
    <3> HIDE DEF new2
    <3>2. DOMAIN new2 = 1..Len(new2) /\ DOMAIN mid = 1..Len(mid) /\ Len(mid) \in Nat
      BY <2>2, <3>1, LenProperties DEF Bubbles
    <3>3. Len(mid) = Len(bs) + 1
      BY <2>1, AppendProperties DEF mid, Bubbles
    <3> QED
      BY <3>1, <3>2, <3>3
  <2>6. mid[Len(bs) + 1] = u /\ \A i \in 1..Len(bs) : mid[i] = bs[i]
    BY <2>1, AppendProperties DEF Bubbles
  <2> HIDE DEF mid, new2
  <2>7. \A j : j \notin DOMAIN <<>>
    OBVIOUS
  <2>8. \A i \in DOMAIN new2 : (i \in DOMAIN bs /\ new2[i] = bs[i]) \/ new2[i].text = <<>>
    <3>1. \A i \in DOMAIN new2 : i \in 1..Len(bs) \/ i = Len(bs) + 1 \/ i = Len(mid) + 1
      BY <1>1, <2>5
    <3>2. \A i \in 1..Len(bs) : i \in 1..Len(mid) /\ new2[i] = bs[i]
      BY <1>1, <2>5, <2>6
    <3>3. Len(bs) + 1 \in 1..Len(mid)
      BY <1>1, <2>5
    <3> QED
      BY <1>1, <2>1, <2>5, <2>6, <3>1, <3>2, <3>3
  <2>9. new = new2
    BY <1>6 DEF new2, mid, u, b
  <2> QED
    BY <2>7, <2>8, <2>9 DEF Grown
<1>7. ASSUME RunningIn(bs) = {}, NEW s \in {"running", "done"}, NEW text \in Seq(Piece \cup {StatusNote}),
             GoesOn(<<>>, text, X, Y), new = Append(bs, Answer(text, s))
      PROVE  Grown(bs, new, X, Y)
  <2> DEFINE b == Answer(text, s)
  <2>1. b \in Bubble(Shown) /\ b.text = text
    BY NewBubbles DEF Answer, Shown
  <2> HIDE DEF b
  <2> QED
    BY <1>7, <2>1, GrownAtEnd DEF b
<1>8. ASSUME NEW i \in DOMAIN bs, NEW text \in Seq(Y), new = [bs EXCEPT ![i].text = text]
      PROVE  Grown(bs, new, X, Y)
  <2>1. DOMAIN new = DOMAIN bs /\ new[i].text = text /\ \A k \in DOMAIN bs : k # i => new[k] = bs[k]
    BY <1>2, <1>8 DEF Bubble
  <2>2. \A j \in DOMAIN text : text[j] \in Y
    BY ElementOfSeq
  <2> QED
    BY <2>1, <2>2 DEF Grown
<1> QED
  BY <1>3, <1>4, <1>5, <1>6, <1>7, <1>8 DEF Moves

LEMMA MovedPieces ==
  ASSUME NEW bs \in Bubbles(Shown), LastRuns(bs), NEW X \in SUBSET Shown, NEW Y \in SUBSET Shown,
         NEW r, NEW new, Moves(bs, new, X, Y, r)
  PROVE  PiecesOf(new) \subseteq PiecesOf(bs) \cup X \cup Y
<1>1. Grown(bs, new, X, Y)
  BY MovedTexts
<1> QED
  BY <1>1 DEF Grown, PiecesOf

-------------------------------------------------------------------------------
(* A piece belongs to a conversation in which something was sent, and such *)
(* a conversation is not opened anew.                                      *)

Used(c) == spent.turn[c] # 0

FramesUsed ==
  /\ \A f \in Range(toHost) : f.type = "message" => Used(f.conv)
  /\ \A f \in Range(toPage) :
       /\ f.type = "delta" => f.piece.conv = f.conv /\ Used(f.conv)
       /\ f.type = "snapshot" => \A x \in PiecesOf(f.rows) : x.conv = f.conv /\ Used(f.conv)

AwaitsUsed ==
  /\ \A ch \in Range(page.chains) : Used(ch.conv)
  /\ \A c \in Conv : page.pending[c] # 0 => Used(c)

HostUsed ==
  \A c \in Conv : /\ host[c].phase = "running" => Used(c)
                  /\ \A x \in PiecesOf(host[c].journal) : x.conv = c /\ Used(c)

KeptOpen ==
  \A c \in Conv : Used(c) => 1 \in DOMAIN page.bubbles[c] /\ page.bubbles[c][1].status # "running"

Owned(bs, c) == \A x \in PiecesOf(bs) : Used(x.conv) /\ (x.conv = c \/ ~ Listed(page, x.conv))

Own == \A c \in Conv : Owned(page.bubbles[c], c) /\ Owned(stored.bubbles[c], c)

OwnInv == FramesUsed /\ AwaitsUsed /\ HostUsed /\ KeptOpen /\ Own

LEMMA SpentStep ==
  ASSUME PageOK, LinkOK, [ChatNext]_vars, NEW c \in Conv
  PROVE  /\ SendMessage /\ c = page.active =>
              /\ spent'.turn[c] \in Turn /\ spent'.turn[c] = spent.turn[c] + 1
              /\ RunningIn(page.bubbles[c]) = {}
              /\ page'.bubbles[c] = Append(Append(page.bubbles[c], User(spent'.turn[c])), Answer(<<>>, "running"))
         /\ ~ (SendMessage /\ c = page.active) => spent'.turn[c] = spent.turn[c]
         /\ spent.turn[c] \in Nat /\ spent'.turn[c] \in Nat /\ spent'.turn[c] >= spent.turn[c]
         /\ Used(c) => Used(c)'
<1>1. spent \in Spent /\ spent.turn[c] \in 0..MaxTurns /\ spent.turn[c] \in Nat
  BY ChatAssumption DEF LinkOK, Spent
<1>2. CASE UNCHANGED spent /\ ~ SendMessage
  BY <1>1, <1>2 DEF Used
<1>3. CASE SendMessage
  <2> DEFINE a == page.active
             t == spent.turn[a] + 1
             bs == page.bubbles[a]
             u == User(t)
             b == Answer(<<>>, "running")
  <2>1. page \in Memory /\ a \in Conv /\ t \in Turn /\ RunningIn(bs) = {}
    BY <1>3 DEF SendMessage, PageOK, Memory, IsRunning
  <2>2. spent'.turn = [spent.turn EXCEPT ![a] = t]
    BY <1>1, <1>3 DEF SendMessage, Spent
  <2>3. page'.bubbles[a] = bs \o <<u, b>>
    BY <1>3, <2>1 DEF SendMessage, Memory
  <2>4. bs \o <<u, b>> = Append(Append(bs, u), b)
    <3>1. u \in Bubble(Shown) /\ b \in Bubble(Shown) /\ bs \in Seq(Bubble(Shown))
      BY <2>1, NewBubbles DEF Memory, Shown
    <3> HIDE DEF u, b, bs
    <3> QED
      BY <3>1
  <2>5. spent.turn[a] \in Nat
    BY <1>1, <2>1, ChatAssumption DEF Spent
  <2> HIDE DEF b, bs
  <2>6. CASE c = a
    <3>1. spent'.turn[c] = spent.turn[c] + 1
      BY <1>1, <2>1, <2>2, <2>6 DEF Spent
    <3>2. page'.bubbles[c] = Append(Append(page.bubbles[c], User(spent'.turn[c])), Answer(<<>>, "running"))
      BY <2>3, <2>4, <2>6, <3>1 DEF b, bs
    <3>3. spent'.turn[c] \in Turn /\ spent'.turn[c] # 0 /\ spent'.turn[c] \in Nat /\ spent'.turn[c] >= spent.turn[c]
      BY <1>1, <2>1, <2>6, <3>1
    <3> QED
      BY <1>1, <1>3, <2>1, <2>6, <3>1, <3>2, <3>3 DEF Used, bs
  <2>7. CASE c # a
    <3>1. spent'.turn[c] = spent.turn[c]
      BY <1>1, <2>2, <2>7 DEF Spent
    <3> QED
      BY <1>1, <2>7, <3>1 DEF Used
  <2> QED
    BY <2>6, <2>7
<1>4. CASE (StopRun \/ Reload \/ SocketCloses) /\ ~ SendMessage
  <2>1. spent'.turn = spent.turn
    BY <1>1, <1>4 DEF StopRun, Reload, SocketCloses, Spent
  <2> QED
    BY <1>1, <1>4, <2>1 DEF Used
<1>5. CASE /\ \/ NewConversation \/ (\E d \in Conv : SelectConversation(d)) \/ DeleteConversation
              \/ FrameStep \/ TimerStep \/ SocketOpens \/ HandleStep \/ (\E d \in Conv : RunStep(d))
              \/ UNCHANGED vars
           /\ ~ SendMessage
  BY <1>2, <1>5 DEF NewConversation, SelectConversation, DeleteConversation, FrameStep, ReceiveCreated,
     ReceiveRefused, ReceiveStarted, ReceiveDelta, ReceiveStatus, ReceiveDone, ReceiveError, ReceiveSnapshot,
     Ignored, TimerStep, WatchdogFires, CreateTimesOut, RetryTimer, SocketOpens, HandleStep, HostCreate,
     HostMessage, HostStop, HostSubscribe, Handle, RunStep, HostDelta, HostEnd, HostClear, vars
<1> QED
  BY <1>3, <1>4, <1>5 DEF ChatNext, UserStep, SystemStep

\* A conversation newly listed is one without bubbles.
LEMMA ListStep ==
  ASSUME PageInv, [ChatNext]_vars, NEW d, Listed(page', d)
  PROVE  Listed(page, d) \/ (d \in Conv /\ page.bubbles[d] = <<>>)
<1>1. page \in Memory /\ page.list \in Seq(Conv)
  BY DEF PageInv, PageOK, Memory
<1>2. CASE page'.list = page.list
  BY <1>2 DEF Listed
<1>3. CASE Reload
  <2>1. page'.list = page.list
    BY <1>3 DEF Reload, PageInv, Synced
  <2> QED
    BY <1>2, <2>1
<1>4. CASE DeleteConversation
  <2> DEFINE I == {i \in DOMAIN page.list : page.list[i] # page.active}
             rest == Filtered(page.list, I)
  <2>1. page'.list = rest
    BY <1>1, <1>4 DEF DeleteConversation, Memory
  <2>2. \A n \in DOMAIN rest : \E i \in I : rest[n] = page.list[i]
    <3>1. I \in SUBSET DOMAIN page.list
      OBVIOUS
    <3> HIDE DEF I
    <3> QED
      BY <1>1, <3>1, FilteredIn
  <2> HIDE DEF rest
  <2> QED
    BY <2>1, <2>2 DEF Listed
<1>5. CASE NewConversation
  <2> DEFINE c == CHOOSE e \in Conv \ Opened : TRUE
             l == <<c>> \o page.list
  <2>1. Opened # Conv /\ Opened \subseteq Conv /\ page' = [page EXCEPT !.list = l, !.active = c]
    BY <1>5 DEF NewConversation, Opened
  <2>2. c \in Conv /\ c \notin Opened
    BY <2>1
  <2> HIDE DEF c
  <2>3. \A i \in DOMAIN l : l[i] = c \/ \E k \in DOMAIN page.list : l[i] = page.list[k]
    <3> DEFINE s == <<c>>
    <3>1. s \in Seq(Conv) /\ Len(s) = 1 /\ s[1] = c
      BY <2>2
    <3>2. l = s \o page.list
      OBVIOUS
    <3> HIDE DEF s
    <3>3. Len(page.list) \in Nat /\ DOMAIN page.list = 1..Len(page.list)
      BY <1>1, LenProperties
    <3>4. /\ s \o page.list \in Seq(Conv) /\ Len(s \o page.list) = Len(s) + Len(page.list)
          /\ \A i \in 1..(Len(s) + Len(page.list)) : (s \o page.list)[i] =
               IF i <= Len(s) THEN s[i] ELSE page.list[i - Len(s)]
      BY <1>1, <3>1, ConcatProperties
    <3> HIDE DEF l
    <3>5. l \in Seq(Conv) /\ DOMAIN l = 1..Len(l) /\ Len(l) = 1 + Len(page.list)
      BY <3>1, <3>2, <3>4, LenProperties
    <3> TAKE i \in DOMAIN l
    <3>6. i \in 1..(1 + Len(page.list))
      BY <3>5
    <3>7. CASE i <= 1
      <4>1. i = 1
        BY <3>3, <3>6, <3>7
      <4> QED
        BY <3>1, <3>2, <3>3, <3>4, <4>1
    <3>8. CASE ~ (i <= 1)
      <4>1. l[i] = page.list[i - 1] /\ i - 1 \in DOMAIN page.list
        BY <3>1, <3>2, <3>3, <3>4, <3>6, <3>8
      <4> QED
        BY <4>1
    <3> QED
      BY <3>7, <3>8
  <2> HIDE DEF l
  <2>4. page'.list = l
    BY <1>1, <2>1 DEF Memory
  <2>5. d = c \/ Listed(page, d)
    BY <2>3, <2>4 DEF Listed
  <2> QED
    BY <2>2, <2>5 DEF Opened
<1> QED
  BY <1>2, <1>3, <1>4, <1>5, AwaitsStep DEF PageInv, Awaits

\* The journal of a run grows by what the run sent.
LEMMA JournalStep ==
  ASSUME LinkOK, [ChatNext]_vars, NEW c \in Conv, NEW x \in PiecesOf(host'[c].journal)
  PROVE  x \in PiecesOf(host[c].journal) \/ (x.conv = c /\ host[c].phase = "running")
<1>1. host \in [Conv -> HostState] /\ host[c] \in HostState /\ host[c].journal \in Seq(Row)
  BY DEF LinkOK, HostState
<1> DEFINE j == host[c].journal
<1>2. CASE host'[c].journal = j
  BY <1>2
<1>3. CASE HandleStep
  <2> DEFINE d == Head(toHost).conv
             t == Head(toHost).turn
  <2>1. \/ host' = host
        \/ host' = [host EXCEPT ![d].known = TRUE]
        \/ host' = [host EXCEPT ![d].cancelled = (host[d].phase = "running")]
        \/ host' = [host EXCEPT ![d].reach = TRUE]
        \/ HostMessage /\ ~ UNCHANGED host
    BY <1>3 DEF HandleStep, HostCreate, HostMessage, HostStop, HostSubscribe
  <2>2. CASE HostMessage /\ ~ UNCHANGED host /\ d = c
    <3> DEFINE row == [turn |-> t, text |-> <<>>]
               h == [host[d] EXCEPT !.known = TRUE, !.phase = "running", !.turn = t,
                             !.sent = 0, !.cancelled = FALSE, !.reach = TRUE,
                             !.journal = Append(host[d].journal, row)]
               new == Append(j, row)
    <3>1. host' = [host EXCEPT ![d] = h] /\ Head(toHost).type = "message"
      BY <2>2 DEF HostMessage, Handle
    <3>2. t \in Turn
      <4>1. Head(toHost) \in HostFrame
        BY <2>2, HeadTailProperties DEF HostMessage, Handle, LinkOK
      <4> QED
        BY <3>1, <4>1 DEF HostFrame
    <3>3. row \in Row /\ row.text = <<>>
      BY <3>2, EmptySeq DEF Row
    <3>4. host'[c].journal = new
      BY <1>1, <2>2, <3>1 DEF HostState
    <3> HIDE DEF row, h, j
    <3>5. /\ new \in Seq(Row) /\ Len(new) = Len(j) + 1 /\ new[Len(j) + 1] = row
          /\ \A i \in 1..Len(j) : new[i] = j[i]
      BY <1>1, <3>3, AppendProperties DEF j
    <3> HIDE DEF new
    <3>6. DOMAIN new = 1..(Len(j) + 1) /\ Len(j) \in Nat /\ DOMAIN j = 1..Len(j)
      BY <1>1, <3>5, LenProperties DEF j
    <3>7. PICK i \in DOMAIN new : \E k \in DOMAIN new[i].text : x = new[i].text[k]
      BY <3>4 DEF PiecesOf
    <3>8. \A k : k \notin DOMAIN <<>>
      OBVIOUS
    <3>9. i # Len(j) + 1
      BY <3>3, <3>5, <3>7, <3>8
    <3>10. i \in DOMAIN j /\ new[i] = j[i]
      BY <3>5, <3>6, <3>9
    <3>11. x \in Piece
      BY DEF PiecesOf
    <3> QED
      BY <3>7, <3>10, <3>11 DEF PiecesOf, j
  <2>3. CASE ~ (HostMessage /\ ~ UNCHANGED host /\ d = c)
    <3>1. host'[c].journal = j
      <4>1. CASE d = c
        <5>1. \/ host'[c] = host[c]
              \/ host'[c] = [host[c] EXCEPT !.known = TRUE]
              \/ host'[c] = [host[c] EXCEPT !.cancelled = (host[c].phase = "running")]
              \/ host'[c] = [host[c] EXCEPT !.reach = TRUE]
          <6> HIDE DEF d
          <6> QED
            BY <1>1, <2>1, <2>3, <4>1
        <5> QED
          BY <1>1, <5>1 DEF HostState
      <4>2. CASE d # c
        <5>1. host'[c] = host[c]
          BY <1>1, <1>3, <4>2 DEF HandleStep, HostCreate, HostMessage, HostStop, HostSubscribe
        <5> QED
          BY <5>1
      <4> QED
        BY <4>1, <4>2
    <3> QED
      BY <1>2, <3>1
  <2> QED
    BY <2>2, <2>3
<1>4. ASSUME NEW d \in Conv, RunStep(d)
      PROVE  x \in PiecesOf(j) \/ (x.conv = c /\ host[c].phase = "running")
  <2>1. CASE HostDelta(d) \/ HostClear(d) \/ d # c
    <3>1. host'[c].journal = j
      BY <1>1, <1>4, <2>1 DEF RunStep, HostDelta, HostEnd, HostClear, HostState
    <3> QED
      BY <1>2, <3>1
  <2>2. CASE d = c /\ \E how \in {"done", "error", "status"} : HostEnd(c, how)
    <3> DEFINE text == [k \in 1..host[c].sent |-> [conv |-> c, turn |-> host[c].turn, k |-> k]]
               new == [j EXCEPT ![Len(j)].text = text]
               h == [host[c] EXCEPT !.phase = "ending", !.journal = new]
    <3>1. host[c].phase = "running" /\ host' = [host EXCEPT ![c] = h]
      <4>1. PICK how \in {"done", "error", "status"} : HostEnd(c, how)
        BY <2>2
      <4>2. /\ host[c].phase = "running"
            /\ host' = [host EXCEPT ![c].phase = "ending", ![c].journal[Len(host[c].journal)].text = text]
        BY <4>1 DEF HostEnd
      <4> HIDE DEF text
      <4> QED
        BY <1>1, <4>2
    <3>2. host'[c].journal = new
      BY <1>1, <3>1 DEF HostState
    <3>3. \A k \in DOMAIN text : text[k].conv = c
      OBVIOUS
    <3> HIDE DEF text, h, j
    <3>4. DOMAIN new = DOMAIN j /\ \A i \in DOMAIN j : i # Len(j) => new[i] = j[i]
      BY <1>1 DEF j
    <3>5. \A i \in DOMAIN j : i = Len(j) => new[i].text = text
      <4>1. \A i \in DOMAIN j : j[i] \in Row
        BY <1>1, ElementOfSeq DEF j
      <4> QED
        BY <4>1 DEF Row
    <3> HIDE DEF new
    <3>6. PICK i \in DOMAIN new : \E k \in DOMAIN new[i].text : x = new[i].text[k]
      BY <3>2 DEF PiecesOf
    <3>7. x \in Piece
      BY DEF PiecesOf
    <3> QED
      BY <3>1, <3>3, <3>4, <3>5, <3>6, <3>7 DEF PiecesOf
  <2> QED
    BY <1>4, <2>1, <2>2 DEF RunStep
<1>5. CASE UserStep \/ SocketCloses \/ FrameStep \/ TimerStep \/ SocketOpens \/ UNCHANGED vars
  <2>1. host' = host \/ host' = Unreached
    BY <1>5 DEF UserStep, NewConversation, SelectConversation, DeleteConversation, SendMessage,
     StopRun, Reload, SocketCloses, FrameStep, ReceiveCreated, ReceiveRefused, ReceiveStarted, ReceiveDelta,
     ReceiveStatus, ReceiveDone, ReceiveError, ReceiveSnapshot, Ignored, TimerStep, WatchdogFires,
     CreateTimesOut, RetryTimer, SocketOpens, vars
  <2>2. host'[c].journal = j
    BY <1>1, <2>1 DEF Unreached, HostState
  <2> QED
    BY <1>2, <2>2
<1> QED
  BY <1>3, <1>4, <1>5 DEF ChatNext, SystemStep

LEMMA FrameConvs ==
  ASSUME LinkOK
  PROVE  /\ toHost \in Seq(HostFrame) /\ toPage \in Seq(PageFrame)
         /\ \A f \in Range(toHost) : f \in HostFrame /\ f.conv \in Conv
         /\ \A f \in Range(toPage) : /\ f \in PageFrame /\ f.conv \in Conv
                                     /\ f.type = "delta" => f.piece \in Piece /\ f.piece.conv \in Conv
         /\ toPage # <<>> => Head(toPage) \in Range(toPage) /\ Range(Tail(toPage)) \subseteq Range(toPage)
         /\ toHost # <<>> => Head(toHost) \in Range(toHost) /\ Range(Tail(toHost)) \subseteq Range(toHost)
<1>1. toHost \in Seq(HostFrame) /\ toPage \in Seq(PageFrame)
  BY DEF LinkOK
<1>2. Range(toPage) \subseteq PageFrame /\ Range(toHost) \subseteq HostFrame
  BY <1>1, RangeOf
<1>3. \A f \in Range(toPage) : f.type = "delta" => f.piece \in Piece /\ f.piece.conv \in Conv
  BY <1>2 DEF PageFrame, Piece
<1>4. /\ \A f \in Range(toPage) : f.conv \in Conv
      /\ \A f \in Range(toHost) : f.conv \in Conv
  BY <1>2 DEF PageFrame, HostFrame
<1> QED
  BY <1>1, <1>2, <1>3, <1>4, RangeOf

LEMMA FramesUsedStep ==
  ASSUME PageInv, OwnInv, [ChatNext]_vars
  PROVE  FramesUsed'
<1>1. PageOK /\ LinkOK /\ RunTurns /\ FramesUsed /\ AwaitsUsed /\ HostUsed
  BY DEF PageInv, OwnInv
<1>2. \A c \in Conv : Used(c) => Used(c)'
  BY <1>1, SpentStep
<1>3. /\ toHost \in Seq(HostFrame) /\ toPage \in Seq(PageFrame)
      /\ \A f \in Range(toHost) : f.conv \in Conv
      /\ \A f \in Range(toPage) : f.conv \in Conv
  BY <1>1, FrameConvs
<1>4. \A f \in Range(toHost') : f.type = "message" => Used(f.conv)'
  <2>1. \A f \in Range(toHost) : f.type = "message" => Used(f.conv)'
    BY <1>1, <1>2, <1>3 DEF FramesUsed
  <2>2. CASE UNCHANGED toHost
    BY <2>1, <2>2
  <2>3. CASE toHost' = <<>>
    BY <2>3, EmptyRange
  <2>4. CASE toHost # <<>> /\ toHost' = Tail(toHost)
    BY <1>1, <2>1, <2>4, FrameConvs
  <2>5. ASSUME NEW c \in Conv, page.pending[c] \in Turn,
               toHost' = Append(toHost, MessageFrame(c, page.pending[c]))
        PROVE  \A f \in Range(toHost') : f.type = "message" => Used(f.conv)'
    <3> DEFINE g == MessageFrame(c, page.pending[c])
    <3>1. g \in HostFrame /\ g.conv = c /\ toHost' = Append(toHost, g)
      BY <2>5, FrameTypes DEF MessageFrame
    <3>2. Used(c)'
      BY <1>1, <1>2, <2>5 DEF AwaitsUsed, Turn
    <3> HIDE DEF g
    <3>3. Range(toHost') = Range(toHost) \cup {g}
      BY <1>3, <3>1, RangeOf
    <3> QED
      BY <2>1, <3>1, <3>2, <3>3
  <2>6. ASSUME NEW g \in HostFrame, toHost' = Append(toHost, g), g.type # "message"
        PROVE  \A f \in Range(toHost') : f.type = "message" => Used(f.conv)'
    <3>1. Range(toHost') = Range(toHost) \cup {g}
      BY <1>3, <2>6, RangeOf
    <3> QED
      BY <2>1, <2>6, <3>1
  <2>7. CASE \A f \in Range(toHost') : f \in Range(toHost) \/ f.type = "create" \/ f.type = "subscribe"
    BY <2>1, <2>7
  <2> QED
    BY <1>1, <2>2, <2>3, <2>4, <2>5, <2>6, <2>7, Sends
<1> DEFINE Good(f) == /\ f.type = "delta" => f.piece.conv = f.conv /\ Used(f.conv)'
                      /\ f.type = "snapshot" => \A x \in PiecesOf(f.rows) : x.conv = f.conv /\ Used(f.conv)'
<1>5. \A f \in Range(toPage') : Good(f)
  <2>1. \A f \in Range(toPage) : Good(f)
    BY <1>1, <1>2, <1>3 DEF FramesUsed
  <2>2. ASSUME NEW c \in Conv, HostDelta(c) PROVE Good(DeltaFrame(c, host[c].turn, host[c].sent + 1))
    <3>1. Used(c)'
      BY <1>1, <1>2, <2>2 DEF HostDelta, HostUsed
    <3> QED
      BY <3>1 DEF DeltaFrame
  <2>3. ASSUME NEW c \in Conv PROVE Good(SnapshotFrame(c))
    <3>1. \A x \in PiecesOf(host[c].journal) : x.conv = c /\ Used(c)'
      BY <1>1, <1>2 DEF HostUsed
    <3> QED
      BY <3>1 DEF SnapshotFrame
  <2> HIDE DEF Good
  <2>4. CASE UNCHANGED toPage
    BY <2>1, <2>4
  <2>5. CASE toPage' = <<>>
    BY <2>5, EmptyRange
  <2>6. CASE toPage # <<>> /\ toPage' = Tail(toPage)
    BY <1>1, <2>1, <2>6, FrameConvs
  <2>7. ASSUME NEW g \in PageFrame, toPage' = Append(toPage, g), Good(g)
        PROVE  \A f \in Range(toPage') : Good(f)
    <3>1. Range(toPage') = Range(toPage) \cup {g}
      BY <1>3, <2>7, RangeOf
    <3> QED
      BY <2>1, <2>7, <3>1
  <2>8. \A g : g.type \notin {"delta", "snapshot"} => Good(g)
    BY DEF Good
  <2>9. \A g, c : g.type = "created" => g.type \notin {"delta", "snapshot"}
    OBVIOUS
  <2> QED
    BY <1>1, <2>2, <2>3, <2>4, <2>5, <2>6, <2>7, <2>8, <2>9, Arrives
<1> QED
  BY <1>4, <1>5 DEF FramesUsed

LEMMA AwaitsUsedStep ==
  ASSUME PageInv, OwnInv, [ChatNext]_vars
  PROVE  AwaitsUsed'
<1>1. PageOK /\ LinkOK /\ AwaitsUsed
  BY DEF PageInv, OwnInv
<1>2. \A c \in Conv : /\ Used(c) => Used(c)'
                      /\ SendMessage /\ c = page.active => spent'.turn[c] \in Turn
  BY <1>1, SpentStep
<1>3. \A ch \in Range(page.chains) : ch.conv \in Conv /\ Used(ch.conv)'
  <2>1. page.chains \in Seq(Chain)
    BY <1>1 DEF PageOK, Memory, Chain
  <2>2. Range(page.chains) \subseteq Chain
    BY <2>1, RangeOf
  <2> QED
    BY <1>1, <1>2, <2>2 DEF AwaitsUsed, Chain
<1>4. \A c \in Conv : page.pending[c] # 0 => Used(c)'
  BY <1>1, <1>2 DEF AwaitsUsed
<1>5. CASE /\ \A c \in Conv : page'.pending[c] \in {0, page.pending[c]}
           /\ Range(page'.chains) \subseteq Range(page.chains)
  BY <1>3, <1>4, <1>5 DEF AwaitsUsed
<1>6. CASE /\ SendMessage /\ page.active \in Conv
           /\ \A c \in Conv : page'.pending[c] \in {0, page.pending[c]}
                \/ (c = page.active /\ socket.state = "open" /\ page'.pending[c] = spent'.turn[c])
           /\ \A ch \in Range(page'.chains) :
                ch \in Range(page.chains) \/ (ch.conv = page.active /\ ch.turn = spent'.turn[page.active])
  <2>1. spent'.turn[page.active] \in Turn
    BY <1>2, <1>6
  <2>2. spent'.turn[page.active] > 0
    BY <2>1, ChatAssumption DEF Turn
  <2>3. \A c \in Conv : c = page.active => Used(c)'
    BY <2>2 DEF Used
  <2>4. \A c \in Conv : page'.pending[c] # 0 => Used(c)'
    BY <1>4, <1>6, <2>3
  <2>5. \A ch \in Range(page'.chains) : Used(ch.conv)'
    BY <1>3, <1>6, <2>2 DEF Used
  <2> QED
    BY <2>4, <2>5 DEF AwaitsUsed
<1>7. CASE /\ \A c \in Conv : page'.pending[c] \in {0, page.pending[c]}
                \/ \E ch \in Range(page.chains) : ch.conv = c /\ page'.pending[c] = ch.turn
           /\ \A ch \in Range(page'.chains) :
                \E old \in Range(page.chains) : old.conv = ch.conv /\ old.turn = ch.turn
  BY <1>3, <1>4, <1>7 DEF AwaitsUsed
<1> QED
  BY <1>1, <1>5, <1>6, <1>7, AwaitsStep DEF Awaits

LEMMA HostUsedStep ==
  ASSUME PageInv, OwnInv, [ChatNext]_vars
  PROVE  HostUsed'
<1>1. PageOK /\ LinkOK /\ RunTurns /\ HostUsed /\ FramesUsed
  BY DEF PageInv, OwnInv
<1> SUFFICES ASSUME NEW c \in Conv
             PROVE  /\ host'[c].phase = "running" => Used(c)'
                    /\ \A x \in PiecesOf(host'[c].journal) : x.conv = c /\ Used(c)'
  BY DEF HostUsed
<1>2. Used(c) => Used(c)'
  BY <1>1, SpentStep
<1>3. host'[c].phase = "running" => Used(c)'
  <2>1. CASE toHost # <<>> /\ Head(toHost).type = "message" /\ Head(toHost).conv = c
    BY <1>1, <1>2, <2>1, FrameConvs DEF FramesUsed
  <2>2. CASE host'[c].phase = "running" => host[c].phase = "running"
    BY <1>1, <1>2, <2>2 DEF HostUsed
  <2> QED
    BY <1>1, <2>1, <2>2, HostRuns
<1>4. \A x \in PiecesOf(host'[c].journal) : x.conv = c /\ Used(c)'
  BY <1>1, <1>2, JournalStep DEF HostUsed
<1> QED
  BY <1>3, <1>4

LEMMA KeptOpenStep ==
  ASSUME PageInv, OwnInv, [ChatNext]_vars
  PROVE  KeptOpen'
<1>1. PageOK /\ LinkOK /\ KeptOpen
  BY DEF PageInv, OwnInv
<1> SUFFICES ASSUME NEW c \in Conv, Used(c)'
             PROVE  1 \in DOMAIN page'.bubbles[c] /\ page'.bubbles[c][1].status # "running"
  BY DEF KeptOpen
<1> DEFINE bs == page.bubbles[c]
           new == page'.bubbles[c]
<1>2. bs \in Bubbles(Shown)
  BY <1>1 DEF PageOK, Memory, Bubbles, Shown
<1>3. CASE Used(c)
  <2>1. 1 \in DOMAIN bs /\ bs[1].status # "running"
    BY <1>1, <1>3 DEF KeptOpen
  <2>2. CASE Reload
    <3>1. new = stored.bubbles[c] /\ EndsNothing(stored.bubbles[c], bs)
      BY <2>2 DEF Reload, PageInv, Synced
    <3> QED
      BY <2>1, <3>1 DEF EndsNothing
  <2>3. CASE PageMoves
    <3>1. Stands(bs, new, page.recovered[c])
      BY <1>1, <2>3, BubblesStep
    <3>2. bs[1] \in Bubble(Shown)
      BY <1>2, <2>1, ElementOfSeq DEF Bubbles
    <3> HIDE DEF bs, new
    <3>3. 1 \in DOMAIN new /\ (new[1] = bs[1] \/ new[1] = [bs[1] EXCEPT !.text = new[1].text])
      BY <2>1, <3>1 DEF Stands
    <3>4. new[1].status = bs[1].status
      BY <3>2, <3>3 DEF Bubble
    <3> QED
      BY <2>1, <3>3, <3>4 DEF new
  <2> QED
    BY <1>1, <2>2, <2>3, PageStep DEF LinkOK
<1>4. CASE ~ Used(c)
  <2> DEFINE u == User(spent'.turn[c])
             b == Answer(<<>>, "running")
  <2>1. RunningIn(bs) = {} /\ new = Append(Append(bs, u), b) /\ spent'.turn[c] \in Turn
    BY <1>1, <1>4, SpentStep DEF Used
  <2>2. u \in Bubble(Shown) /\ b \in Bubble(Shown) /\ u.status # "running"
    BY <2>1, NewBubbles DEF User
  <2> HIDE DEF u, b, bs
  <2> DEFINE mid == Append(bs, u)
  <2>3. /\ mid \in Seq(Bubble(Shown)) /\ Len(mid) = Len(bs) + 1 /\ mid[Len(bs) + 1] = u
        /\ \A i \in 1..Len(bs) : mid[i] = bs[i]
    BY <1>2, <2>2, AppendProperties DEF Bubbles
  <2>4. Len(bs) \in Nat /\ DOMAIN bs = 1..Len(bs)
    BY <1>2, LenProperties DEF Bubbles
  <2>5. mid[1].status # "running" /\ 1 \in 1..Len(mid)
    <3>1. CASE Len(bs) = 0
      BY <2>2, <2>3, <2>4, <3>1
    <3>2. CASE Len(bs) # 0
      <4>1. 1 \in 1..Len(bs) /\ 1 \in DOMAIN bs /\ 1 \in 1..Len(mid)
        BY <2>3, <2>4, <3>2
      <4> QED
        BY <2>1, <2>3, <4>1 DEF RunningIn
    <3> QED
      BY <3>1, <3>2
  <2> HIDE DEF mid, new
  <2>6. new = Append(mid, b)
    BY <2>1 DEF mid
  <2>7. /\ new \in Seq(Bubble(Shown)) /\ Len(new) = Len(mid) + 1
        /\ \A i \in 1..Len(mid) : new[i] = mid[i]
    BY <2>2, <2>3, <2>6, AppendProperties
  <2>8. DOMAIN new = 1..(Len(mid) + 1) /\ Len(mid) \in Nat
    BY <2>3, <2>7, LenProperties
  <2> QED
    BY <2>5, <2>7, <2>8 DEF new
<1> QED
  BY <1>3, <1>4

LEMMA OwnStep ==
  ASSUME PageInv, OwnInv, [ChatNext]_vars
  PROVE  Own'
<1>1. PageOK /\ LinkOK /\ KeptOpen /\ Own /\ FramesUsed
  BY DEF PageInv, OwnInv
<1>2. \A c \in Conv : Used(c) => Used(c)'
  BY <1>1, SpentStep
\* A conversation that was used and not listed is not listed now.
<1>3. \A d \in Conv : Used(d) /\ ~ Listed(page, d) => ~ Listed(page', d)
  <2>1. \A d \in Conv : Used(d) => page.bubbles[d] # <<>>
    BY <1>1 DEF KeptOpen
  <2> QED
    BY <2>1, ListStep
<1>4. \A x \in Piece : x.conv \in Conv
  BY DEF Piece
<1>5. ASSUME NEW bs, NEW c \in Conv, Owned(bs, c)
      PROVE  \A x \in PiecesOf(bs) : Used(x.conv)' /\ (x.conv = c \/ ~ Listed(page', x.conv))
  BY <1>2, <1>3, <1>4, <1>5 DEF Owned, PiecesOf
<1>6. CASE Reload
  <2>1. page'.bubbles = stored.bubbles /\ stored' = stored
    BY <1>6 DEF Reload
  <2> QED
    BY <1>1, <1>5, <2>1 DEF Own, Owned
<1>7. CASE PageMoves /\ (Save \/ Kept)
  <2>1. ASSUME NEW c \in Conv
        PROVE  \A x \in PiecesOf(page'.bubbles[c]) : Used(x.conv)' /\ (x.conv = c \/ ~ Listed(page', x.conv))
    <3> DEFINE bs == page.bubbles[c]
               new == page'.bubbles[c]
               X == Delivered(c)
               Y == Fetched(c)
               f == Head(toPage)
    <3>1. bs \in Bubbles(Shown) /\ LastRuns(bs)
      BY <1>1 DEF PageOK, Memory, Bubbles, Shown
    <3>2. X \in SUBSET Shown /\ Y \in SUBSET Shown
      BY DEF Delivered, Fetched, Shown
    <3>3. Moves(bs, new, X, Y, page.recovered[c])
      BY <1>7 DEF PageMoves
    <3>4. StatusNote \notin Piece
      BY ChatAssumption DEF StatusNote, Piece
    <3>5. \A x \in X \cap Piece : /\ toPage # <<>> /\ f.type = "delta" /\ To = c /\ x = f.piece
      BY <3>4 DEF Delivered
    <3>6. \A x \in Y : toPage # <<>> /\ f.type = "snapshot" /\ f.conv = c /\ x \in PiecesOf(f.rows)
      BY DEF Fetched
    <3> HIDE DEF X, Y, bs, new
    <3>7. PiecesOf(new) \subseteq PiecesOf(bs) \cup X \cup Y
      BY <3>1, <3>2, <3>3, MovedPieces
    <3>8. toPage # <<>> => f \in Range(toPage)
      BY <1>1, FrameConvs
    <3>9. \A x \in Y : Used(x.conv)' /\ x.conv = c
      BY <1>1, <1>2, <3>6, <3>8 DEF FramesUsed
    <3>10. \A x \in X \cap Piece : Used(x.conv)' /\ (x.conv = c \/ ~ Listed(page', x.conv))
      <4> SUFFICES ASSUME NEW x \in X \cap Piece
                   PROVE  Used(x.conv)' /\ (x.conv = c \/ ~ Listed(page', x.conv))
        OBVIOUS
      <4>1. f.type = "delta" /\ To = c /\ x = f.piece /\ f \in Range(toPage)
        BY <3>5, <3>8
      <4>2. x.conv = f.conv /\ Used(x.conv) /\ x.conv \in Conv
        BY <1>1, <1>4, <4>1 DEF FramesUsed
      <4>3. x.conv = c \/ ~ Listed(page, x.conv)
        BY <4>1, <4>2 DEF To, Target
      <4> QED
        BY <1>2, <1>3, <4>2, <4>3
    <3>11. \A x \in PiecesOf(bs) : Used(x.conv)' /\ (x.conv = c \/ ~ Listed(page', x.conv))
      BY <1>1, <1>5 DEF Own, bs
    <3>12. PiecesOf(new) \subseteq Piece
      BY DEF PiecesOf
    <3> QED
      BY <3>7, <3>9, <3>10, <3>11, <3>12 DEF new
  <2>2. CASE Save
    BY <2>1, <2>2 DEF Save, Own, Owned
  <2>3. CASE Kept
    <3>1. \A c \in Conv : \A x \in PiecesOf(stored.bubbles[c]) :
            Used(x.conv)' /\ (x.conv = c \/ ~ Listed(page', x.conv))
      BY <1>1, <1>5 DEF Own
    <3> QED
      BY <2>1, <2>3, <3>1 DEF Kept, Own, Owned
  <2> QED
    BY <1>7, <2>2, <2>3
<1> QED
  BY <1>1, <1>6, <1>7, PageStep DEF LinkOK

(* What the stream of a listed conversation says is never shown in another: *)
(* a frame goes to its own conversation while that is listed, and one in     *)
(* which something was sent is never listed anew.                            *)
THEOREM StreamsStayApart == ChatSpec => []OwnText
<1>1. ChatInit => OwnInv
  <2> SUFFICES ASSUME ChatInit PROVE OwnInv
    OBVIOUS
  <2>1. \A c \in Conv : ~ Used(c) /\ page.pending[c] = 0 /\ host[c].phase = "idle"
    BY DEF ChatInit, Used
  <2>2. PiecesOf(<<>>) = {}
    BY DEF PiecesOf
  <2>3. /\ page.chains = <<>> /\ toHost = <<>> /\ toPage = <<>>
        /\ \A c \in Conv : page.bubbles[c] = <<>> /\ stored.bubbles[c] = <<>> /\ host[c].journal = <<>>
    BY DEF ChatInit
  <2> QED
    BY <2>1, <2>2, <2>3, EmptyRange DEF OwnInv, FramesUsed, AwaitsUsed, HostUsed, KeptOpen, Own, Owned
<1>2. PageInv /\ OwnInv /\ [ChatNext]_vars => OwnInv'
  BY FramesUsedStep, AwaitsUsedStep, HostUsedStep, KeptOpenStep, OwnStep DEF OwnInv
<1>3. PageInv /\ OwnInv => OwnText
  <2> SUFFICES ASSUME PageInv, OwnInv, NEW c \in Conv, NEW i \in DOMAIN page.bubbles[c],
                      NEW j \in DOMAIN page.bubbles[c][i].text,
                      page.bubbles[c][i].text[j] # StatusNote
               PROVE  LET x == page.bubbles[c][i].text[j] IN x.conv = c \/ ~ Listed(page, x.conv)
    BY DEF OwnText
  <2> DEFINE x == page.bubbles[c][i].text[j]
  <2>1. page.bubbles[c][i] \in Bubble(Shown)
    <3>1. page.bubbles[c] \in Seq(Bubble(Shown))
      BY DEF PageInv, PageOK, Memory, Shown
    <3> QED
      BY <3>1, ElementOfSeq
  <2>2. page.bubbles[c][i].text \in Seq(Shown)
    BY <2>1 DEF Bubble
  <2>3. x \in Piece
    BY <2>2, ElementOfSeq DEF Shown
  <2>4. x \in PiecesOf(page.bubbles[c])
    BY <2>3 DEF PiecesOf
  <2> HIDE DEF x
  <2> QED
    BY <2>4 DEF OwnInv, Own, Owned, x
<1> QED
  BY <1>1, <1>2, <1>3, PageInvHolds, PTL DEF ChatSpec

-------------------------------------------------------------------------------
(* On a socket that never closed nothing is fetched from the journal, and *)
(* before it opened nothing was said.                                     *)

Unbroken == ~ spent.dropped /\ spent.reloads = 0

Silent ==
  /\ toHost = <<>> /\ toPage = <<>>
  /\ \A c \in Conv : host[c].turn = 0 /\ host[c].phase = "idle" /\ page.pending[c] = 0

Calm ==
  /\ socket.timers = 0 /\ socket.resub = {}
  /\ \A c \in Conv : ~ page.recovered[c]
  /\ \A f \in Range(toHost) : f.type # "subscribe"
  /\ \A f \in Range(toPage) : f.type # "snapshot"
  /\ socket.state # "open" => Silent

LEMMA UnbrokenStep ==
  ASSUME LinkOK, [ChatNext]_vars, Unbroken'
  PROVE  Unbroken /\ ~ Reload /\ ~ SocketCloses
<1>1. spent \in Spent
  BY DEF LinkOK
<1>2. ~ SocketCloses
  <2>1. SocketCloses => spent'.dropped
    BY <1>1 DEF SocketCloses, Spent
  <2> QED
    BY <2>1 DEF Unbroken
<1>3. ~ Reload
  <2>1. Reload => spent'.reloads = spent.reloads + 1 /\ spent.reloads \in Nat
    BY <1>1 DEF Reload, Spent
  <2>2. Reload => spent'.reloads # 0
    BY <2>1
  <2> QED
    BY <2>2 DEF Unbroken
<1>4. spent'.dropped = spent.dropped /\ spent'.reloads = spent.reloads
  <2>1. CASE UNCHANGED spent
    BY <2>1
  <2>2. CASE SendMessage \/ StopRun
    BY <1>1, <2>2 DEF SendMessage, StopRun, Spent
  <2>3. CASE \/ NewConversation \/ (\E d \in Conv : SelectConversation(d)) \/ DeleteConversation
             \/ FrameStep \/ TimerStep \/ SocketOpens \/ HandleStep \/ (\E d \in Conv : RunStep(d))
             \/ UNCHANGED vars
    BY <2>1, <2>3 DEF NewConversation, SelectConversation, DeleteConversation, FrameStep, ReceiveCreated,
     ReceiveRefused, ReceiveStarted, ReceiveDelta, ReceiveStatus, ReceiveDone, ReceiveError, ReceiveSnapshot,
     Ignored, TimerStep, WatchdogFires, CreateTimesOut, RetryTimer, SocketOpens, HandleStep, HostCreate,
     HostMessage, HostStop, HostSubscribe, Handle, RunStep, HostDelta, HostEnd, HostClear, vars
  <2> QED
    BY <1>2, <1>3, <2>2, <2>3 DEF ChatNext, UserStep, SystemStep
<1> QED
  BY <1>2, <1>3, <1>4 DEF Unbroken

\* Only an opening opens the socket, and no timer starts but at its close.
LEMMA SocketStep ==
  ASSUME LinkOK, [ChatNext]_vars, ~ Reload, ~ SocketCloses, socket.timers = 0, socket.resub = {}
  PROVE  /\ socket'.timers = 0 /\ socket'.resub = {}
         /\ socket'.state # "open" => socket.state # "open" /\ ~ SocketOpens
         /\ socket.state # "open" /\ socket'.state = "open" => SocketOpens
<1>1. socket \in SocketState /\ ~ RetryTimer
  BY DEF LinkOK, RetryTimer
<1>2. CASE SendMessage
  <2>1. socket' = Connect(socket)
    BY <1>2 DEF SendMessage
  <2>2. SendMessage => ~ SocketOpens \/ socket'.state = "open"
    BY <1>1 DEF SocketOpens, SocketState
  <2> QED
    BY <1>1, <1>2, <2>1, <2>2 DEF Connect, SocketState
<1>3. CASE SocketOpens
  BY <1>1, <1>3 DEF SocketOpens, SocketState
<1>4. CASE FrameStep
  <2>1. socket' = socket \/ socket' = [socket EXCEPT !.attempts = 0]
    BY <1>4 DEF FrameStep, ReceiveCreated, ReceiveRefused, ReceiveStarted, ReceiveDelta, ReceiveStatus,
       ReceiveDone, ReceiveError, ReceiveSnapshot, Receive
  <2>2. socket'.timers = socket.timers /\ socket'.resub = socket.resub /\ socket'.state = socket.state
    BY <1>1, <2>1 DEF SocketState
  <2>3. SocketOpens => socket'.state = "open"
    BY <1>1 DEF SocketOpens, SocketState
  <2> QED
    BY <2>2, <2>3
<1>5. CASE UNCHANGED socket
  <2>1. SocketOpens => socket'.state = "open"
    BY <1>1 DEF SocketOpens, SocketState
  <2> QED
    BY <1>5, <2>1
<1>6. CASE \/ NewConversation \/ (\E d \in Conv : SelectConversation(d)) \/ DeleteConversation \/ StopRun
           \/ WatchdogFires \/ (\E i \in DOMAIN page.chains : CreateTimesOut(page.chains[i]))
           \/ HandleStep \/ (\E d \in Conv : RunStep(d)) \/ UNCHANGED vars
  BY <1>5, <1>6 DEF NewConversation, SelectConversation, DeleteConversation, StopRun, WatchdogFires,
     CreateTimesOut, HandleStep, HostCreate, HostMessage, HostStop, HostSubscribe, Handle,
     RunStep, HostDelta, HostEnd, HostClear, vars
<1> QED
  BY <1>1, <1>2, <1>3, <1>4, <1>6 DEF ChatNext, UserStep, SystemStep, TimerStep

\* While the socket is not open and nothing is on its way, nothing gets on its way.
LEMMA SilentStep ==
  ASSUME PageOK, LinkOK, [ChatNext]_vars, ~ Reload, ~ SocketCloses, ~ SocketOpens,
         socket.timers = 0, socket.state # "open", Silent
  PROVE  Silent'
<1>1. UNCHANGED <<toHost, toPage, host>>
  <2>1. ~ RetryTimer /\ ~ HandleStep /\ ~ FrameStep /\ ~ StopRun
    BY DEF RetryTimer, HandleStep, HostCreate, HostMessage, HostStop, HostSubscribe, Handle, FrameStep,
       ReceiveCreated, ReceiveRefused, ReceiveStarted, ReceiveDelta, ReceiveStatus, ReceiveDone,
       ReceiveError, ReceiveSnapshot, Receive, StopRun, Silent
  <2>2. \A c \in Conv : ~ RunStep(c)
    BY DEF RunStep, HostDelta, HostEnd, HostClear, Silent
  <2>3. CASE \/ NewConversation \/ (\E d \in Conv : SelectConversation(d)) \/ DeleteConversation \/ SendMessage
             \/ WatchdogFires \/ (\E i \in DOMAIN page.chains : CreateTimesOut(page.chains[i])) \/ UNCHANGED vars
    BY <2>3 DEF NewConversation, SelectConversation, DeleteConversation, SendMessage, WatchdogFires,
       CreateTimesOut, vars
  <2> QED
    BY <2>1, <2>2, <2>3 DEF ChatNext, UserStep, SystemStep, TimerStep
<1>2. \A c \in Conv : page'.pending[c] \in {0, page.pending[c]}
  BY AwaitsStep DEF Awaits
<1> QED
  BY <1>1, <1>2 DEF Silent

(* Only a snapshot and a reconnection mark a conversation as restored. *)
HasRecovered(p) == "recovered" \in DOMAIN p

SameRecovered(p, q) == HasRecovered(q) /\ q.recovered = p.recovered

LEMMA OthersRecover ==
  ASSUME NEW p, HasRecovered(p), NEW c
  PROVE  /\ SameRecovered(p, Arm(p, c)) /\ SameRecovered(p, Disarm(p)) /\ SameRecovered(p, Feed(p, c))
         /\ SameRecovered(p, Finish(p, c)) /\ SameRecovered(p, EnsureBubble(p, c))
         /\ SameRecovered(p, AddStatus(p, c))
         /\ \A s : SameRecovered(p, MarkRunning(p, c, s))
         /\ \A x : SameRecovered(p, AddText(p, c, x))
         /\ \A R : SameRecovered(p, GiveUp(p, R))
         /\ \A chs : SameRecovered(p, Unwait(p, chs))
<1>1. SameRecovered(p, p)
  BY DEF SameRecovered
<1>2. \A s : SameRecovered(p, MarkRunning(p, c, s))
  BY DEF MarkRunning, SameRecovered, HasRecovered
<1>3. \A x : SameRecovered(p, AddText(p, c, x))
  BY DEF AddText, SameRecovered, HasRecovered
<1>4. SameRecovered(p, EnsureBubble(p, c))
  BY <1>1 DEF EnsureBubble, SameRecovered, HasRecovered
<1>5. SameRecovered(p, Arm(p, c)) /\ SameRecovered(p, Disarm(p)) /\ SameRecovered(p, Finish(p, c))
  BY DEF Arm, Disarm, Finish, SameRecovered, HasRecovered
<1>6. \A R : SameRecovered(p, GiveUp(p, R))
  BY DEF GiveUp, Disarm, SameRecovered, HasRecovered
<1>7. \A chs : SameRecovered(p, Unwait(p, chs))
  BY DEF Unwait, SameRecovered, HasRecovered
<1> QED
  BY <1>1, <1>2, <1>3, <1>4, <1>5, <1>6, <1>7 DEF Feed, AddStatus

LEMMA RecoveredStep ==
  ASSUME PageOK, LinkOK, [ChatNext]_vars, ~ Reload, ~ SocketCloses, ~ ReceiveSnapshot,
         socket.resub = {}, \A c \in Conv : ~ page.recovered[c]
  PROVE  \A c \in Conv : ~ page'.recovered[c]
<1>1. page \in Memory /\ HasRecovered(page) /\ page.recovered \in [Conv -> BOOLEAN]
  BY DEF PageOK, Memory, HasRecovered
<1>2. \A q : SameRecovered(page, q) => \A c \in Conv : ~ q.recovered[c]
  BY DEF SameRecovered
<1>3. CASE UNCHANGED page
  BY <1>3
<1>4. CASE NewConversation \/ (\E c \in Conv : SelectConversation(c)) \/ DeleteConversation \/ SendMessage
  BY <1>1, <1>4 DEF NewConversation, SelectConversation, DeleteConversation, SendMessage, HasRecovered
<1>5. CASE SocketOpens
  <2> DEFINE subs == ToSubscribe(page, socket.resub)
             C == [i \in DOMAIN page.chains |-> [page.chains[i] EXCEPT !.phase = "ack"]]
             P == page'.pending
             R == [c \in Conv |-> page.recovered[c] \/ ("all" \in socket.resub /\ \E i \in DOMAIN subs : subs[i] = c)]
  <2>1. page'.recovered = R
    BY <1>1, <1>5 DEF SocketOpens, HasRecovered
  <2> QED
    BY <2>1
<1>6. CASE WatchdogFires
  <2> DEFINE c == page.watchdog
             p == Disarm(page)
             m == MarkRunning(p, c, "error")
  <2>1. page' = p \/ page' = Finish(m, c)
    BY <1>6 DEF WatchdogFires
  <2>2. SameRecovered(page, p) /\ HasRecovered(p)
    BY <1>1, OthersRecover DEF SameRecovered
  <2> HIDE DEF p, c
  <2>3. SameRecovered(p, m)
    BY <2>2, OthersRecover
  <2> HIDE DEF m
  <2>4. HasRecovered(m)
    BY <2>3 DEF SameRecovered
  <2>5. SameRecovered(m, Finish(m, c))
    BY <2>4, OthersRecover
  <2>6. SameRecovered(page, page')
    BY <2>1, <2>2, <2>3, <2>5 DEF SameRecovered
  <2> QED
    BY <1>2, <2>6
<1>7. ASSUME NEW ch, CreateTimesOut(ch)
      PROVE  \A c \in Conv : ~ page'.recovered[c]
  <2> DEFINE u == Unwait(page, {ch})
  <2>1. SameRecovered(page, u) /\ HasRecovered(u)
    BY <1>1, OthersRecover DEF SameRecovered
  <2>2. page' = GiveUp(u, {ch.conv})
    BY <1>7 DEF CreateTimesOut
  <2> HIDE DEF u
  <2>3. SameRecovered(u, page')
    BY <2>1, <2>2, OthersRecover
  <2>4. SameRecovered(page, page')
    BY <2>1, <2>3 DEF SameRecovered
  <2> QED
    BY <1>2, <2>4
<1>8. CASE FrameStep
  <2> DEFINE d == Head(toPage).conv
             p == Feed(page, To)
             D == Disarm(page)
  <2>1. \/ page' = page
        \/ page' = Refuse(D, {d})
        \/ page' = EnsureBubble(p, To)
        \/ page' = AddText(EnsureBubble(p, To), To, Head(toPage).piece)
        \/ page' = AddStatus(p, To)
        \/ \E s \in {"done", "error"} : page' = Finish(MarkRunning(D, To, s), To)
        \/ page' = p
        \/ page' = Arm([Unwait(p, {AckChain(p, d)}) EXCEPT !.recovered[d] = FALSE], d)
    BY <1>8 DEF FrameStep, ReceiveCreated, ReceiveRefused, ReceiveStarted, ReceiveDelta, ReceiveStatus,
       ReceiveDone, ReceiveError, Ignored
  <2>2. SameRecovered(page, p) /\ SameRecovered(page, D) /\ HasRecovered(p) /\ HasRecovered(D)
    BY <1>1, OthersRecover DEF SameRecovered
  <2>3. \A q : SameRecovered(p, q) \/ SameRecovered(D, q) => SameRecovered(page, q)
    BY <2>2 DEF SameRecovered
  <2> HIDE DEF p, D, d
  <2>4. CASE page' = Refuse(D, {d})
    <3> DEFINE R == {c \in {d} : D.pending[c] # 0}
               u == Unwait(D, {AckChain(D, c) : c \in R})
    <3>1. page' = D \/ page' = GiveUp(u, R)
      BY <2>4 DEF Refuse
    <3>2. SameRecovered(D, u) /\ HasRecovered(u)
      BY <2>2, OthersRecover DEF SameRecovered
    <3> HIDE DEF u, R
    <3>3. SameRecovered(u, GiveUp(u, R))
      BY <3>2, OthersRecover
    <3>4. SameRecovered(page, page')
      BY <2>2, <3>1, <3>2, <3>3 DEF SameRecovered
    <3> QED
      BY <1>2, <3>4
  <2>5. CASE page' = EnsureBubble(p, To) \/ page' = AddStatus(p, To)
    <3>1. SameRecovered(p, page')
      BY <2>2, <2>5, OthersRecover
    <3> QED
      BY <1>2, <2>3, <3>1
  <2>6. CASE page' = AddText(EnsureBubble(p, To), To, Head(toPage).piece)
    <3> DEFINE e == EnsureBubble(p, To)
    <3>1. SameRecovered(p, e)
      BY <2>2, OthersRecover
    <3>2. page' = AddText(e, To, Head(toPage).piece)
      BY <2>6
    <3> HIDE DEF e
    <3>4. HasRecovered(e)
      BY <3>1 DEF SameRecovered
    <3>5. SameRecovered(e, page')
      BY <3>2, <3>4, OthersRecover
    <3>3. SameRecovered(page, page')
      BY <2>2, <3>1, <3>5 DEF SameRecovered
    <3> QED
      BY <1>2, <3>3
  <2>7. ASSUME NEW s, page' = Finish(MarkRunning(D, To, s), To)
        PROVE  \A c \in Conv : ~ page'.recovered[c]
    <3> DEFINE m == MarkRunning(D, To, s)
    <3>1. SameRecovered(D, m) /\ HasRecovered(m)
      BY <2>2, OthersRecover DEF SameRecovered
    <3> HIDE DEF m
    <3>2. SameRecovered(m, page')
      BY <2>7, <3>1, OthersRecover DEF m
    <3>3. SameRecovered(page, page')
      BY <2>2, <3>1, <3>2 DEF SameRecovered
    <3> QED
      BY <1>2, <3>3
  <2>8. CASE page' = Arm([Unwait(p, {AckChain(p, d)}) EXCEPT !.recovered[d] = FALSE], d)
    <3> DEFINE u == Unwait(p, {AckChain(p, d)})
               v == [u EXCEPT !.recovered[d] = FALSE]
    <3>1. SameRecovered(p, u) /\ HasRecovered(u)
      BY <2>2, OthersRecover DEF SameRecovered
    <3>2. page' = Arm(v, d)
      BY <2>8
    <3> HIDE DEF u
    <3>3. HasRecovered(v) /\ \A c \in Conv : ~ v.recovered[c]
      BY <1>1, <2>2, <3>1 DEF SameRecovered, HasRecovered
    <3> HIDE DEF v
    <3>4. SameRecovered(v, page')
      BY <3>2, <3>3, OthersRecover
    <3> QED
      BY <3>3, <3>4 DEF SameRecovered
  <2>9. CASE page' = p
    BY <1>2, <2>2, <2>9
  <2> QED
    BY <1>3, <2>1, <2>4, <2>5, <2>6, <2>7, <2>8, <2>9
<1>9. CASE StopRun \/ RetryTimer \/ HandleStep \/ (\E c \in Conv : RunStep(c)) \/ UNCHANGED vars
  BY <1>3, <1>9 DEF StopRun, RetryTimer, HandleStep, HostCreate, HostMessage, HostStop, HostSubscribe, Handle,
     RunStep, HostDelta, HostEnd, HostClear, vars
<1> QED
  BY <1>4, <1>5, <1>6, <1>7, <1>8, <1>9 DEF ChatNext, UserStep, SystemStep, TimerStep

LEMMA CalmStep ==
  ASSUME PageInv, Calm, [ChatNext]_vars, ~ Reload, ~ SocketCloses
  PROVE  Calm'
<1>1. PageOK /\ LinkOK /\ RunTurns /\ toHost \in Seq(HostFrame) /\ toPage \in Seq(PageFrame)
  BY DEF PageInv, LinkOK
<1>2. /\ socket'.timers = 0 /\ socket'.resub = {}
      /\ socket'.state # "open" => socket.state # "open" /\ ~ SocketOpens
  BY <1>1, SocketStep DEF Calm
<1>3. \A c \in Conv : ~ page'.recovered[c]
  <2>1. ~ ReceiveSnapshot
    BY <1>1, FrameConvs DEF ReceiveSnapshot, Receive, Calm
  <2> QED
    BY <1>1, <2>1, RecoveredStep DEF Calm
<1>4. \A f \in Range(toHost') : f.type # "subscribe"
  <2>1. \A f \in Range(toHost) : f.type # "subscribe"
    BY DEF Calm
  <2>2. CASE UNCHANGED toHost
    BY <2>1, <2>2
  <2>3. CASE toHost # <<>> /\ toHost' = Tail(toHost)
    BY <1>1, <2>1, <2>3, FrameConvs
  <2>4. ASSUME NEW g \in HostFrame, toHost' = Append(toHost, g), g.type # "subscribe"
        PROVE  \A f \in Range(toHost') : f.type # "subscribe"
    <3>1. Range(toHost') = Range(toHost) \cup {g}
      BY <1>1, <2>4, RangeOf
    <3> QED
      BY <2>1, <2>4, <3>1
  <2>5. ASSUME NEW c \in Conv, page.pending[c] \in Turn,
               toHost' = Append(toHost, MessageFrame(c, page.pending[c]))
        PROVE  \A f \in Range(toHost') : f.type # "subscribe"
    <3> DEFINE g == MessageFrame(c, page.pending[c])
    <3>1. g \in HostFrame /\ g.type # "subscribe" /\ toHost' = Append(toHost, g)
      BY <2>5, FrameTypes DEF MessageFrame
    <3> HIDE DEF g
    <3> QED
      BY <2>4, <3>1
  <2>6. CASE \A f \in Range(toHost') : \/ f \in Range(toHost) \/ f.type = "create"
                                       \/ f.type = "subscribe" /\ (socket.resub # {} \/ socket.timers > 0)
    BY <2>1, <2>6 DEF Calm
  <2>7. \A g : (g.type = "subscribe" => \E c \in Conv : page.recovered[c]) => g.type # "subscribe"
    BY DEF Calm
  <2> QED
    BY <1>1, <2>2, <2>3, <2>4, <2>5, <2>6, <2>7, Sends
<1>5. \A f \in Range(toPage') : f.type # "snapshot"
  <2>1. \A f \in Range(toPage) : f.type # "snapshot"
    BY DEF Calm
  <2>2. CASE UNCHANGED toPage
    BY <2>1, <2>2
  <2>3. CASE toPage # <<>> /\ toPage' = Tail(toPage)
    BY <1>1, <2>1, <2>3, FrameConvs
  <2>4. ASSUME NEW g \in PageFrame, toPage' = Append(toPage, g), g.type # "snapshot"
        PROVE  \A f \in Range(toPage') : f.type # "snapshot"
    <3>1. Range(toPage') = Range(toPage) \cup {g}
      BY <1>1, <2>4, RangeOf
    <3> QED
      BY <2>1, <2>4, <3>1
  <2>5. ~ (Head(toHost) \in Range(toHost) /\ Head(toHost).type = "subscribe")
    BY DEF Calm
  <2> QED
    BY <1>1, <2>2, <2>3, <2>4, <2>5, Arrives
<1>6. socket'.state # "open" => Silent'
  BY <1>1, <1>2, SilentStep DEF Calm
<1> QED
  BY <1>2, <1>3, <1>4, <1>5, <1>6 DEF Calm

-------------------------------------------------------------------------------
(* Sequences any two of whose elements are in a relation, the earlier first. *)

Rising(s, R) == \A i, j \in DOMAIN s : i < j => <<s[i], s[j]>> \in R

LEMMA RisingTail ==
  ASSUME NEW S, NEW s \in Seq(S), s # <<>>, NEW R, Rising(s, R)
  PROVE  Rising(Tail(s), R) /\ \A e \in Range(Tail(s)) : <<Head(s), e>> \in R
<1> DEFINE t == Tail(s)
<1>1. Len(s) \in Nat /\ DOMAIN s = 1..Len(s) /\ Len(s) # 0
  BY LenProperties, EmptySeq
<1>2. /\ Head(s) = s[1] /\ t \in Seq(S) /\ Len(t) = Len(s) - 1
      /\ \A i \in 1..Len(t) : t[i] = s[i + 1]
  BY HeadTailProperties
<1> HIDE DEF t
<1>3. DOMAIN t = 1..(Len(s) - 1)
  BY <1>2, LenProperties
<1>4. \A i \in DOMAIN t : i + 1 \in DOMAIN s /\ t[i] = s[i + 1] /\ 1 < i + 1 /\ i \in Int
  BY <1>1, <1>2, <1>3
<1>5. 1 \in DOMAIN s
  BY <1>1
<1>6. Rising(t, R)
  <2> SUFFICES ASSUME NEW i \in DOMAIN t, NEW j \in DOMAIN t, i < j
               PROVE  <<t[i], t[j]>> \in R
    BY DEF Rising
  <2>1. i + 1 < j + 1
    BY <1>4
  <2> QED
    BY <1>4, <2>1 DEF Rising
<1>7. \A e \in Range(t) : <<Head(s), e>> \in R
  <2> TAKE e \in Range(t)
  <2>1. PICK i \in DOMAIN t : t[i] = e
    BY DEF Range
  <2> QED
    BY <1>2, <1>4, <1>5, <2>1 DEF Rising
<1> QED
  BY <1>6, <1>7 DEF t

LEMMA RisingAppend ==
  ASSUME NEW S, NEW s \in Seq(S), NEW R, Rising(s, R), NEW e \in S, \A x \in Range(s) : <<x, e>> \in R
  PROVE  Rising(Append(s, e), R)
<1> DEFINE t == Append(s, e)
<1>1. Len(s) \in Nat /\ DOMAIN s = 1..Len(s)
  BY LenProperties
<1>2. /\ t \in Seq(S) /\ Len(t) = Len(s) + 1 /\ t[Len(s) + 1] = e
      /\ \A i \in 1..Len(s) : t[i] = s[i]
  BY AppendProperties
<1> HIDE DEF t
<1>3. DOMAIN t = 1..(Len(s) + 1)
  BY <1>2, LenProperties
<1> SUFFICES ASSUME NEW i \in DOMAIN t, NEW j \in DOMAIN t, i < j
             PROVE  <<t[i], t[j]>> \in R
  BY DEF Rising, t
<1>4. i \in DOMAIN s /\ t[i] = s[i]
  BY <1>1, <1>2, <1>3
<1>5. CASE j = Len(s) + 1
  BY <1>2, <1>4, <1>5 DEF Range
<1>6. CASE j # Len(s) + 1
  <2>1. j \in DOMAIN s /\ t[j] = s[j]
    BY <1>1, <1>2, <1>3, <1>6
  <2> QED
    BY <1>4, <2>1 DEF Rising
<1> QED
  BY <1>5, <1>6

LEMMA RisingRange ==
  ASSUME NEW s, NEW R, \A x, y \in Range(s) : <<x, y>> \in R
  PROVE  Rising(s, R)
  BY DEF Rising, Range

-------------------------------------------------------------------------------
(* The turns of a conversation go up on their way to the host: what it runs, *)
(* what is sent, what the page waits to send.                                *)

SentOrder ==
  {x \in HostFrame \X HostFrame :
     x[1].type = "message" /\ x[2].type = "message" /\ x[1].conv = x[2].conv => x[1].turn < x[2].turn}

Turns ==
  /\ \A c \in Conv : /\ host[c].turn <= spent.turn[c] /\ page.pending[c] <= spent.turn[c]
                     /\ page.pending[c] # 0 => host[c].turn < page.pending[c]
  /\ \A f \in Range(toHost) : f.type = "message" =>
       /\ host[f.conv].turn < f.turn /\ f.turn <= spent.turn[f.conv]
       /\ page.pending[f.conv] # 0 => f.turn < page.pending[f.conv]
  /\ \A ch \in Range(page.chains) : ch.turn <= spent.turn[ch.conv]
  /\ Rising(toHost, SentOrder)

LEMMA TurnNumbers ==
  ASSUME PageOK, LinkOK
  PROVE  /\ \A c \in Conv : host[c].turn \in Nat /\ page.pending[c] \in Nat /\ spent.turn[c] \in Nat
         /\ \A f \in Range(toHost) : f.type = "message" => f.turn \in Nat
         /\ \A ch \in Range(page.chains) : ch.conv \in Conv /\ ch.turn \in Nat /\ ch.turn > 0
<1>1. page \in Memory /\ spent \in Spent /\ host \in [Conv -> HostState] /\ MaxTurns \in Nat
  BY ChatAssumption DEF PageOK, LinkOK
<1>2. \A n \in 0..MaxTurns : n \in Nat
  BY <1>1
<1>3. \A n \in Turn : n \in Nat /\ n > 0
  BY <1>1 DEF Turn
<1>4. \A c \in Conv : host[c].turn \in 0..MaxTurns /\ page.pending[c] \in 0..MaxTurns /\ spent.turn[c] \in 0..MaxTurns
  BY <1>1 DEF Memory, Spent, HostState
<1>5. \A f \in Range(toHost) : f.type = "message" => f.turn \in Turn
  <2>1. \A f \in Range(toHost) : f \in HostFrame
    BY FrameConvs
  <2> QED
    BY <2>1 DEF HostFrame
<1>6. \A ch \in Range(page.chains) : ch.conv \in Conv /\ ch.turn \in Turn
  <2>1. page.chains \in Seq(Chain)
    BY <1>1 DEF Memory, Chain
  <2>2. Range(page.chains) \in SUBSET Chain
    BY <2>1, RangeOf
  <2> QED
    BY <2>2 DEF Chain
<1> QED
  BY <1>2, <1>3, <1>4, <1>5, <1>6

\* The message a chain sends is awaited no more.
LEMMA CreatedSettles ==
  ASSUME PageOK, LinkOK, ReceiveCreated, toHost' # toHost
  PROVE  page'.pending[Head(toPage).conv] = 0
<1> DEFINE d == Head(toPage).conv
           p == Feed(page, To)
           u == Unwait(p, {AckChain(p, d)})
           v == [u EXCEPT !.recovered[d] = FALSE]
<1>1. page \in Memory /\ HasAwaits(page) /\ page.chains \in Seq(Chain) /\ d \in Conv
  BY HeadFrame DEF PageOK, LinkOK, Memory, HasAwaits, Chain, ReceiveCreated
<1>2. page' = Arm(v, d)
  BY DEF ReceiveCreated, Ignored
<1>3. SameAwaits(page, p)
  BY <1>1, OthersAwait
<1> HIDE DEF p
<1>4. HasAwaits(p) /\ p.chains \in Seq(Chain)
  BY <1>1, <1>3 DEF SameAwaits
<1>5. \E ch \in {AckChain(p, d)} : ch.conv = d
  BY DEF AckChain
<1>6. Awaits(p, u) /\ u.pending[d] = 0
  BY <1>1, <1>4, <1>5, FewerAwait
<1> HIDE DEF u
<1>7. HasAwaits(v) /\ v.pending = u.pending
  BY <1>6 DEF Awaits, HasAwaits
<1> HIDE DEF v
<1>8. SameAwaits(v, page')
  BY <1>2, <1>7, OthersAwait
<1> QED
  BY <1>6, <1>7, <1>8 DEF SameAwaits

LEMMA TurnsStep ==
  ASSUME PageInv, Calm, Turns, [ChatNext]_vars, ~ Reload, ~ SocketCloses
  PROVE  Turns'
<1>1. PageOK /\ LinkOK /\ RunTurns /\ toHost \in Seq(HostFrame) /\ toPage \in Seq(PageFrame)
  BY DEF PageInv, LinkOK
<1>2. \A f \in Range(toHost) : f \in HostFrame /\ f.conv \in Conv
  BY <1>1, FrameConvs
<1>3. /\ \A c \in Conv : host[c].turn \in Nat /\ page.pending[c] \in Nat /\ spent.turn[c] \in Nat
      /\ \A f \in Range(toHost) : f.type = "message" => f.turn \in Nat
      /\ \A ch \in Range(page.chains) : ch.conv \in Conv /\ ch.turn \in Nat /\ ch.turn > 0
  BY <1>1, TurnNumbers
<1>4. \A c \in Conv : /\ spent'.turn[c] \in Nat /\ spent'.turn[c] >= spent.turn[c]
                      /\ SendMessage /\ c = page.active => spent'.turn[c] = spent.turn[c] + 1
  BY <1>1, SpentStep
<1>5. SocketOpens => /\ toHost = <<>> /\ \A c \in Conv : host[c].turn = 0
                     /\ ~ HandleStep /\ \A f : f \notin Range(toHost)
  <2>1. SocketOpens => Silent /\ ~ HandleStep
    BY DEF SocketOpens, Calm, HandleStep, HostCreate, HostMessage, HostStop, HostSubscribe, Handle
  <2> QED
    BY <2>1, EmptyRange DEF Silent
<1>6. HandleStep => toHost # <<>> /\ toHost' = Tail(toHost)
  BY DEF HandleStep, HostCreate, HostMessage, HostStop, HostSubscribe, Handle
\* What the host runs, and what the page waits to send.
<1>7. \A c \in Conv : \/ host'[c].turn = host[c].turn
                      \/ /\ HandleStep /\ toHost # <<>> /\ Head(toHost) \in Range(toHost)
                         /\ Head(toHost).type = "message" /\ Head(toHost).conv = c
                         /\ host'[c].turn = Head(toHost).turn
  BY <1>1, HostRuns, FrameConvs
<1>8. \A c \in Conv :
        \/ page'.pending[c] \in {0, page.pending[c]}
        \/ SendMessage /\ c = page.active /\ page'.pending[c] = spent'.turn[c]
        \/ SocketOpens /\ \E ch \in Range(page.chains) : ch.conv = c /\ page'.pending[c] = ch.turn
  BY <1>1, AwaitsStep DEF Awaits
<1>9. ASSUME NEW c \in Conv
      PROVE  /\ host'[c].turn <= spent'.turn[c] /\ page'.pending[c] <= spent'.turn[c]
             /\ page'.pending[c] # 0 => host'[c].turn < page'.pending[c]
  <2> DEFINE h == host[c].turn
             h1 == host'[c].turn
             p == page.pending[c]
             p1 == page'.pending[c]
             n == spent.turn[c]
             n1 == spent'.turn[c]
  <2>1. h \in Nat /\ p \in Nat /\ n \in Nat /\ n1 \in Nat /\ n1 >= n
    BY <1>3, <1>4
  <2>2. h <= n /\ p <= n /\ (p # 0 => h < p)
    BY DEF Turns
  <2>3. h1 \in Nat /\ h1 <= n /\ (p # 0 => h1 < p) /\ (SocketOpens => h1 = 0)
    <3>1. CASE h1 = h
      BY <1>5, <2>1, <2>2, <3>1
    <3>2. CASE /\ HandleStep /\ Head(toHost) \in Range(toHost) /\ Head(toHost).type = "message"
               /\ Head(toHost).conv = c /\ h1 = Head(toHost).turn
      <4>1. Head(toHost).turn \in Nat /\ Head(toHost).turn <= n /\ (p # 0 => Head(toHost).turn < p)
        BY <1>3, <3>2 DEF Turns
      <4> QED
        BY <1>5, <3>2, <4>1
    <3> QED
      BY <1>7, <3>1, <3>2
  <2>4. CASE p1 \in {0, p}
    <3> HIDE DEF h, h1, p, p1, n, n1
    <3>1. h1 <= n1 /\ p1 <= n1 /\ (p1 # 0 => h1 < p1)
      BY <2>1, <2>2, <2>3, <2>4
    <3> QED
      BY <3>1 DEF h1, p1, n1
  <2>5. CASE SendMessage /\ c = page.active /\ p1 = n1
    <3>1. n1 = n + 1
      BY <1>4, <2>5
    <3> HIDE DEF h, h1, p, p1, n, n1
    <3>2. h1 <= n1 /\ p1 <= n1 /\ (p1 # 0 => h1 < p1)
      BY <2>1, <2>3, <2>5, <3>1
    <3> QED
      BY <3>2 DEF h1, p1, n1
  <2>6. CASE SocketOpens /\ \E ch \in Range(page.chains) : ch.conv = c /\ p1 = ch.turn
    <3>1. p1 \in Nat /\ p1 > 0 /\ p1 <= n
      BY <1>3, <2>6 DEF Turns
    <3>2. h1 = 0
      BY <2>3, <2>6
    <3> HIDE DEF h, h1, p, p1, n, n1
    <3>3. h1 <= n1 /\ p1 <= n1 /\ (p1 # 0 => h1 < p1)
      BY <2>1, <3>1, <3>2
    <3> QED
      BY <3>3 DEF h1, p1, n1
  <2> QED
    BY <1>8, <2>4, <2>5, <2>6
\* A message that was on its way already, and still is.
<1>10. ASSUME NEW f \in Range(toHost), f.type = "message", HandleStep => f \in Range(Tail(toHost))
       PROVE  /\ host'[f.conv].turn < f.turn /\ f.turn <= spent'.turn[f.conv]
              /\ page'.pending[f.conv] # 0 => f.turn < page'.pending[f.conv]
  <2> DEFINE c == f.conv
             t == f.turn
             h1 == host'[c].turn
             p1 == page'.pending[c]
             n1 == spent'.turn[c]
             n == spent.turn[c]
  <2>1. c \in Conv /\ t \in Nat /\ n \in Nat /\ n1 \in Nat /\ n1 >= n
    BY <1>2, <1>3, <1>4, <1>10
  <2>2. host[c].turn < t /\ t <= n /\ (page.pending[c] # 0 => t < page.pending[c])
    BY <1>10 DEF Turns
  <2>3. h1 < t
    <3>1. CASE h1 = host[c].turn
      BY <2>2, <3>1
    <3>2. CASE /\ HandleStep /\ toHost # <<>> /\ Head(toHost).type = "message"
               /\ Head(toHost).conv = c /\ h1 = Head(toHost).turn
      <4>1. <<Head(toHost), f>> \in SentOrder
        BY <1>1, <1>10, <3>2, RisingTail DEF Turns
      <4> QED
        BY <1>10, <3>2, <4>1 DEF SentOrder
    <3> QED
      BY <1>7, <2>1, <3>1, <3>2
  <2>4. ~ SocketOpens
    BY <1>5
  <2>5. p1 # 0 => t < p1
    <3>1. CASE p1 \in {0, page.pending[c]}
      BY <2>2, <3>1
    <3>2. CASE SendMessage /\ c = page.active /\ p1 = n1
      <4>1. n1 = n + 1
        BY <1>4, <2>1, <3>2
      <4> HIDE DEF c, t, p1, n, n1
      <4> QED
        BY <2>1, <2>2, <3>2, <4>1
    <3> QED
      BY <1>8, <2>1, <2>4, <3>1, <3>2
  <2>6. t <= n1
    <3> HIDE DEF c, t, n, n1
    <3> QED
      BY <2>1, <2>2
  <2> QED
    BY <2>3, <2>5, <2>6
<1> DEFINE Good(f) == f.type = "message" =>
             /\ host'[f.conv].turn < f.turn /\ f.turn <= spent'.turn[f.conv]
             /\ page'.pending[f.conv] # 0 => f.turn < page'.pending[f.conv]
<1>11. ~ HandleStep => \A f \in Range(toHost) : Good(f)
  BY <1>10
<1>12. ASSUME HandleStep
       PROVE  (\A f \in Range(toHost') : Good(f)) /\ Rising(toHost', SentOrder)
  <2>1. toHost # <<>> /\ toHost' = Tail(toHost)
    BY <1>6, <1>12
  <2>2. Range(Tail(toHost)) \subseteq Range(toHost)
    BY <1>1, <2>1, FrameConvs
  <2>3. \A f \in Range(toHost') : Good(f)
    BY <1>10, <2>1, <2>2
  <2>4. Rising(toHost', SentOrder)
    BY <1>1, <2>1, RisingTail DEF Turns
  <2> QED
    BY <2>3, <2>4
<1>13. ASSUME ReceiveCreated, toPage # <<>>, Head(toPage).conv \in Conv, page.pending[Head(toPage).conv] \in Turn,
              toHost' = Append(toHost, MessageFrame(Head(toPage).conv, page.pending[Head(toPage).conv])),
              ~ HandleStep
       PROVE  (\A f \in Range(toHost') : Good(f)) /\ Rising(toHost', SentOrder)
  <2> DEFINE c == Head(toPage).conv
             t == page.pending[c]
             g == MessageFrame(c, t)
  <2>1. g \in HostFrame /\ toHost' = Append(toHost, g) /\ c \in Conv
    BY <1>13, FrameTypes DEF MessageFrame
  <2>2. g.type = "message" /\ g.conv = c /\ g.turn = t
    BY DEF MessageFrame
  <2>3. t # 0
    BY <1>13 DEF Turn
  <2>4. toHost' # toHost
    <3> DEFINE m == Len(toHost)
               k == Len(Append(toHost, g))
    <3>1. m \in Nat /\ k = m + 1
      BY <1>1, <2>1, LenProperties, AppendProperties
    <3> HIDE DEF m, k
    <3>2. m # k
      BY <3>1
    <3> QED
      BY <2>1, <3>2 DEF m, k
  <2>5. page'.pending[c] = 0
    BY <1>1, <1>13, <2>4, CreatedSettles
  <2>6. host'[c].turn = host[c].turn
    BY <1>7, <1>13, <2>1
  <2>7. host[c].turn < t /\ t <= spent.turn[c]
    BY <2>1, <2>3 DEF Turns
  <2>8. t <= spent'.turn[c]
    <3>1. t \in Nat /\ spent.turn[c] \in Nat /\ spent'.turn[c] \in Nat /\ spent'.turn[c] >= spent.turn[c]
      BY <1>3, <1>4, <2>1
    <3> HIDE DEF t
    <3> QED
      BY <2>7, <3>1
  <2>9. Good(g)
    BY <2>2, <2>5, <2>6, <2>7, <2>8
  <2>10. \A x \in Range(toHost) : <<x, g>> \in SentOrder
    <3> TAKE x \in Range(toHost)
    <3>1. x.type = "message" /\ x.conv = c => x.turn < t
      BY <2>3 DEF Turns
    <3> HIDE DEF g, t, c
    <3> QED
      BY <1>2, <2>1, <2>2, <3>1 DEF SentOrder
  <2> HIDE DEF g, Good
  <2>11. Range(toHost') = Range(toHost) \cup {g}
    BY <1>1, <2>1, RangeOf
  <2>12. Rising(toHost', SentOrder)
    BY <1>1, <2>1, <2>10, RisingAppend DEF Turns
  <2> QED
    BY <1>11, <1>13, <2>9, <2>11, <2>12
<1>14. ASSUME NEW g \in HostFrame, toHost' = Append(toHost, g), g.type # "message", ~ HandleStep
       PROVE  (\A f \in Range(toHost') : Good(f)) /\ Rising(toHost', SentOrder)
  <2>1. Range(toHost') = Range(toHost) \cup {g}
    BY <1>1, <1>14, RangeOf
  <2>2. \A x \in Range(toHost) : <<x, g>> \in SentOrder
    BY <1>2, <1>14 DEF SentOrder
  <2>3. Rising(toHost', SentOrder)
    BY <1>1, <1>14, <2>2, RisingAppend DEF Turns
  <2>4. Good(g)
    BY <1>14
  <2> HIDE DEF Good
  <2> QED
    BY <1>11, <1>14, <2>1, <2>3, <2>4
<1>15. ASSUME SocketOpens, \A f \in Range(toHost') : f \in Range(toHost) \/ f.type \in {"create", "subscribe"}
       PROVE  (\A f \in Range(toHost') : Good(f)) /\ Rising(toHost', SentOrder)
  <2>1. \A f \in Range(toHost') : f.type # "message"
    BY <1>5, <1>15
  <2>2. toHost' \in Seq(HostFrame)
    BY PageInvStep DEF PageInv, LinkOK
  <2>3. \A f \in Range(toHost') : f \in HostFrame
    BY <2>2, RangeOf
  <2>4. \A x, y \in Range(toHost') : <<x, y>> \in SentOrder
    BY <2>1, <2>3 DEF SentOrder
  <2> QED
    BY <2>1, <2>4, RisingRange
<1>16. ASSUME UNCHANGED toHost, ~ HandleStep
       PROVE  (\A f \in Range(toHost') : Good(f)) /\ Rising(toHost', SentOrder)
  BY <1>11, <1>16 DEF Turns
<1>17. (\A f \in Range(toHost') : Good(f)) /\ Rising(toHost', SentOrder)
  <2>1. ~ RetryTimer
    BY <1>1 DEF RetryTimer, Calm
  <2>2. ~ Reload /\ ~ SocketCloses
    OBVIOUS
  <2> DEFINE Fine == (\A f \in Range(toHost') : Good(f)) /\ Rising(toHost', SentOrder)
  <2>3. HandleStep => Fine
    BY <1>12
  <2>4. ~ HandleStep /\ UNCHANGED toHost => Fine
    BY <1>16
  <2>5. (/\ ReceiveCreated /\ toPage # <<>> /\ Head(toPage).type = "created"
         /\ Head(toPage).conv \in Conv /\ page.pending[Head(toPage).conv] \in Turn
         /\ toHost' = Append(toHost, MessageFrame(Head(toPage).conv, page.pending[Head(toPage).conv]))
         /\ ~ HandleStep) => Fine
    BY <1>13
  <2>6. ~ HandleStep => \A g \in HostFrame : toHost' = Append(toHost, g) /\ g.type # "message" => Fine
    BY <1>14
  <2>7. SocketOpens /\ (\A f \in Range(toHost') :
                 \/ f \in Range(toHost) \/ f.type = "create"
                 \/ f.type = "subscribe" /\ (socket.resub # {} \/ socket.timers > 0)) => Fine
    BY <1>15
  <2> HIDE DEF Fine, Good
  <2>8. Fine
    BY <1>1, <2>1, <2>2, <2>3, <2>4, <2>5, <2>6, <2>7, Sends
  <2> QED
    BY <2>8 DEF Fine, Good
<1>18. \A ch \in Range(page'.chains) : ch.turn <= spent'.turn[ch.conv]
  <2>1. \A ch \in Range(page.chains) : ch.turn <= spent'.turn[ch.conv]
    <3> TAKE ch \in Range(page.chains)
    <3> DEFINE n == spent.turn[ch.conv]
               n1 == spent'.turn[ch.conv]
    <3>1. ch.turn \in Nat /\ n \in Nat /\ n1 \in Nat /\ n1 >= n /\ ch.turn <= n
      BY <1>3, <1>4 DEF Turns
    <3> HIDE DEF n, n1
    <3>2. ch.turn <= n1
      BY <3>1
    <3> QED
      BY <3>2 DEF n1
  <2>2. SendMessage /\ page.active \in Conv => spent'.turn[page.active] <= spent'.turn[page.active]
    BY <1>4
  <2> QED
    BY <1>1, <2>1, <2>2, AwaitsStep DEF Awaits
<1> QED
  BY <1>9, <1>17, <1>18 DEF Turns

-------------------------------------------------------------------------------
(* What is shown, what is on its way and what the run will yet produce, in *)
(* this order.                                                             *)

Reached(x) == x.turn < host[x.conv].turn \/ (x.turn = host[x.conv].turn /\ x.k <= host[x.conv].sent)

StreamOrder ==
  {x \in PageFrame \X PageFrame :
     x[1].type = "delta" /\ x[2].type = "delta" /\ x[1].piece.conv = x[2].piece.conv
       => Before(x[1].piece, x[2].piece)}

Ahead(x) == \A f \in Range(toPage) : f.type = "delta" /\ f.piece.conv = x.conv => Before(x, f.piece)

Ordered(bs) ==
  \A i, k \in DOMAIN bs : \A j \in DOMAIN bs[i].text, l \in DOMAIN bs[k].text :
    LET x == bs[i].text[j]
        y == bs[k].text[l]
    IN  (i < k \/ (i = k /\ j < l)) /\ x \in Piece /\ y \in Piece /\ x.conv = y.conv => Before(x, y)

Stream ==
  /\ \A f \in Range(toPage) : f.type = "delta" => Reached(f.piece)
  /\ Rising(toPage, StreamOrder)
  /\ \A c \in Conv : Ordered(page.bubbles[c]) /\ \A x \in PiecesOf(page.bubbles[c]) : Reached(x) /\ Ahead(x)

LEMMA GrownOrdered ==
  ASSUME NEW bs \in Bubbles(Shown), NEW new \in Bubbles(Shown), NEW X, Grown(bs, new, X, {}), Ordered(bs),
         \A x \in PiecesOf(bs), y \in X \cap Piece : x.conv = y.conv => Before(x, y)
  PROVE  Ordered(new)
<1> SUFFICES ASSUME NEW i \in DOMAIN new, NEW k \in DOMAIN new, NEW j \in DOMAIN new[i].text,
                    NEW l \in DOMAIN new[k].text, i < k \/ (i = k /\ j < l),
                    new[i].text[j] \in Piece, new[k].text[l] \in Piece,
                    new[i].text[j].conv = new[k].text[l].conv
             PROVE  Before(new[i].text[j], new[k].text[l])
  BY DEF Ordered
<1>1. DOMAIN new = 1..Len(new) /\ Len(new) \in Nat
  BY LenProperties DEF Bubbles
<1>2. \A m \in DOMAIN new : DOMAIN new[m].text = 1..Len(new[m].text) /\ Len(new[m].text) \in Nat
  <2>1. \A m \in DOMAIN new : new[m].text \in Seq(Shown)
    <3>1. \A m \in DOMAIN new : new[m] \in Bubble(Shown)
      BY ElementOfSeq DEF Bubbles
    <3> QED
      BY <3>1 DEF Bubble
  <2> QED
    BY <2>1, LenProperties
<1>3. ~ (i = Len(new) /\ j = Len(new[i].text))
  <2>1. CASE i < k
    BY <1>1, <2>1
  <2>2. CASE i = k /\ j < l
    BY <1>2, <2>2
  <2> QED
    BY <2>1, <2>2
<1>4. i \in DOMAIN bs /\ j \in DOMAIN bs[i].text /\ new[i].text[j] = bs[i].text[j]
  BY <1>3 DEF Grown
<1>5. CASE k \in DOMAIN bs /\ l \in DOMAIN bs[k].text /\ new[k].text[l] = bs[k].text[l]
  BY <1>4, <1>5 DEF Ordered
<1>6. CASE new[k].text[l] \in X
  <2>1. new[i].text[j] \in PiecesOf(bs)
    BY <1>4 DEF PiecesOf
  <2> QED
    BY <1>6, <2>1
<1> QED
  BY <1>5, <1>6 DEF Grown

\* What the host produced it has produced.
LEMMA ReachedStep ==
  ASSUME PageInv, Turns, [ChatNext]_vars, NEW x \in Piece, Reached(x)
  PROVE  x.turn < host'[x.conv].turn \/ (x.turn = host'[x.conv].turn /\ x.k <= host'[x.conv].sent)
<1> DEFINE c == x.conv
           t == x.turn
           k == x.k
           h == host[c]
           h1 == host'[c]
<1>1. c \in Conv /\ t \in Nat /\ k \in Nat
  BY ChatAssumption DEF Piece, Turn
<1>2. PageOK /\ LinkOK /\ RunTurns /\ LinkOK'
  BY PageInvStep DEF PageInv
<1>3. h.turn \in Nat /\ h.sent \in Nat /\ h1.turn \in Nat /\ h1.sent \in Nat
  <2>1. h \in HostState /\ h1 \in HostState
    BY <1>1, <1>2 DEF LinkOK
  <2> HIDE DEF h, h1
  <2> QED
    BY <2>1, ChatAssumption DEF HostState
<1>4. t < h.turn \/ (t = h.turn /\ k <= h.sent)
  BY DEF Reached
<1>5. CASE h1.turn = h.turn /\ h1.sent >= h.sent
  <2> HIDE DEF h, h1, c, t, k
  <2>1. t < h1.turn \/ (t = h1.turn /\ k <= h1.sent)
    BY <1>1, <1>3, <1>4, <1>5
  <2> QED
    BY <2>1 DEF t, k, h1, c
<1>6. CASE /\ HandleStep /\ toHost # <<>> /\ Head(toHost).type = "message" /\ Head(toHost).conv = c
           /\ h1.turn = Head(toHost).turn
  <2>1. h.turn < h1.turn
    BY <1>2, <1>6, FrameConvs DEF Turns
  <2> HIDE DEF h, h1, c, t, k
  <2>2. t < h1.turn
    BY <1>1, <1>3, <1>4, <2>1
  <2> QED
    BY <2>2 DEF t, h1, c
<1> QED
  BY <1>1, <1>2, <1>5, <1>6, HostRuns

LEMMA StreamStep ==
  ASSUME PageInv, Calm, Turns, Stream, [ChatNext]_vars, ~ Reload, ~ SocketCloses
  PROVE  Stream'
<1>1. PageOK /\ LinkOK /\ RunTurns /\ toHost \in Seq(HostFrame) /\ toPage \in Seq(PageFrame)
  BY DEF PageInv, LinkOK
<1>2. \A f \in Range(toPage) : f \in PageFrame /\ (f.type = "delta" => f.piece \in Piece /\ Reached(f.piece))
  BY <1>1, FrameConvs DEF Stream
<1>3. \A x \in Piece : Reached(x) => Reached(x)'
  BY ReachedStep DEF Reached
<1>4. PageMoves /\ \A c \in Conv : /\ page.bubbles[c] \in Bubbles(Shown) /\ LastRuns(page.bubbles[c])
                                   /\ page'.bubbles[c] \in Bubbles(Shown)
  <2>1. PageMoves
    BY <1>1, PageStep
  <2> QED
    BY <1>1, <2>1, BubblesStep DEF PageOK, Memory, Bubbles, Shown
<1>5. \A c \in Conv : Fetched(c) = {} /\ Delivered(c) \in SUBSET Shown
  <2>1. toPage # <<>> => Head(toPage).type # "snapshot"
    BY <1>1, FrameConvs DEF Calm
  <2> QED
    BY <2>1 DEF Fetched, Delivered, Shown
<1>6. \A c \in Conv : Grown(page.bubbles[c], page'.bubbles[c], Delivered(c), {})
  <2> TAKE c \in Conv
  <2> DEFINE bs == page.bubbles[c]
             new == page'.bubbles[c]
             X == Delivered(c)
             r == page.recovered[c]
  <2>1. Moves(bs, new, X, {}, r)
    BY <1>4, <1>5 DEF PageMoves
  <2>2. bs \in Bubbles(Shown) /\ LastRuns(bs) /\ X \in SUBSET Shown /\ {} \in SUBSET Shown
    BY <1>4, <1>5
  <2> HIDE DEF bs, new, X, r
  <2>3. Grown(bs, new, X, {})
    BY <2>1, <2>2, MovedTexts
  <2> QED
    BY <2>3 DEF bs, new, X
<1>7. \A c \in Conv : \A x \in Delivered(c) \cap Piece :
        toPage # <<>> /\ Head(toPage).type = "delta" /\ toPage' = Tail(toPage) /\ x = Head(toPage).piece
  <2>1. StatusNote \notin Piece
    BY ChatAssumption DEF StatusNote, Piece
  <2> QED
    BY <2>1 DEF Delivered
<1>8. \A c \in Conv : Ordered(page.bubbles[c]) /\ \A x \in PiecesOf(page.bubbles[c]) : Reached(x) /\ Ahead(x)
  BY DEF Stream
<1>9. \A c \in Conv : Ordered(page'.bubbles[c])
  <2> TAKE c \in Conv
  <2> DEFINE bs == page.bubbles[c]
             new == page'.bubbles[c]
             X == Delivered(c)
  <2>1. \A x \in PiecesOf(bs), y \in X \cap Piece : x.conv = y.conv => Before(x, y)
    <3> TAKE x \in PiecesOf(bs), y \in X \cap Piece
    <3>1. toPage # <<>> /\ Head(toPage).type = "delta" /\ y = Head(toPage).piece
      BY <1>7
    <3>2. Head(toPage) \in Range(toPage) /\ Ahead(x)
      BY <1>1, <1>8, <3>1, FrameConvs
    <3> QED
      BY <3>1, <3>2 DEF Ahead
  <2>2. bs \in Bubbles(Shown) /\ new \in Bubbles(Shown) /\ Grown(bs, new, X, {}) /\ Ordered(bs)
    BY <1>4, <1>6, <1>8
  <2> HIDE DEF bs, new, X
  <2>3. Ordered(new)
    BY <2>1, <2>2, GrownOrdered
  <2> QED
    BY <2>3 DEF new
<1>10. \A c \in Conv : PiecesOf(page'.bubbles[c]) \subseteq PiecesOf(page.bubbles[c]) \cup (Delivered(c) \cap Piece)
  BY <1>6 DEF Grown, PiecesOf
<1>11. \A c \in Conv : \A x \in PiecesOf(page'.bubbles[c]) : x \in Piece
  BY DEF PiecesOf
<1>12. \A c \in Conv : \A x \in PiecesOf(page'.bubbles[c]) : Reached(x)
  <2>1. toPage # <<>> => Head(toPage) \in Range(toPage)
    BY <1>1, FrameConvs
  <2> QED
    BY <1>2, <1>7, <1>8, <1>10, <2>1
<1>13. \A c \in Conv : \A x \in PiecesOf(page'.bubbles[c]) : Reached(x)'
  BY <1>3, <1>11, <1>12
<1> DEFINE Behind(x, s) == \A f \in Range(s) : f.type = "delta" /\ f.piece.conv = x.conv => Before(x, f.piece)
\* A frame is received.
<1>14. ASSUME toPage # <<>>, toPage' = Tail(toPage)
       PROVE  /\ \A f \in Range(toPage') : f.type = "delta" => Reached(f.piece)'
              /\ Rising(toPage', StreamOrder)
              /\ \A c \in Conv : \A x \in PiecesOf(page'.bubbles[c]) : Behind(x, toPage')
  <2>1. Range(toPage') \subseteq Range(toPage)
    BY <1>1, <1>14, FrameConvs
  <2>2. Rising(toPage', StreamOrder) /\ \A e \in Range(toPage') : <<Head(toPage), e>> \in StreamOrder
    BY <1>1, <1>14, RisingTail DEF Stream
  <2>3. \A f \in Range(toPage') : f.type = "delta" => Reached(f.piece)'
    BY <1>2, <1>3, <2>1
  <2>4. ASSUME NEW c \in Conv, NEW x \in PiecesOf(page'.bubbles[c])
        PROVE  Behind(x, toPage')
    <3>1. CASE x \in PiecesOf(page.bubbles[c])
      BY <1>8, <2>1, <3>1 DEF Ahead
    <3>2. CASE x \in Delivered(c) \cap Piece
      BY <1>7, <2>2, <3>2 DEF StreamOrder
    <3> QED
      BY <1>10, <2>4, <3>1, <3>2
  <2> QED
    BY <2>2, <2>3, <2>4
\* Nothing is received: what is shown stays.
<1>15. ASSUME toPage' # Tail(toPage)
       PROVE  \A c \in Conv : \A x \in PiecesOf(page'.bubbles[c]) : Reached(x) /\ Ahead(x)
  BY <1>7, <1>8, <1>10, <1>15
<1>16. ASSUME NEW S, NEW s \in Seq(S), NEW e \in S, s # <<>>
       PROVE  s # Tail(s) /\ Append(s, e) # Tail(s)
  <2> DEFINE n == Len(s)
             m == Len(Tail(s))
             k == Len(Append(s, e))
  <2>1. n \in Nat /\ m = n - 1 /\ k = n + 1
    BY <1>16, LenProperties, HeadTailProperties, AppendProperties
  <2> HIDE DEF n, m, k
  <2>2. n # m /\ k # m
    BY <2>1
  <2> QED
    BY <2>2 DEF n, m, k
<1>17. ASSUME UNCHANGED toPage, toPage # <<>> => toPage' # Tail(toPage)
       PROVE  /\ \A f \in Range(toPage') : f.type = "delta" => Reached(f.piece)'
              /\ Rising(toPage', StreamOrder)
              /\ \A c \in Conv : \A x \in PiecesOf(page'.bubbles[c]) : Behind(x, toPage')
  <2>1. \A c \in Conv : \A x \in PiecesOf(page'.bubbles[c]) : Ahead(x)
    BY <1>7, <1>8, <1>10, <1>17
  <2> QED
    BY <1>2, <1>3, <1>17, <2>1 DEF Stream, Ahead
\* A frame is sent.
<1>18. ASSUME NEW g \in PageFrame, NEW c \in Conv, toPage' = Append(toPage, g),
              toPage # <<>> => toPage' # Tail(toPage),
              \/ g.type # "delta"
              \/ HostDelta(c) /\ g = DeltaFrame(c, host[c].turn, host[c].sent + 1)
       PROVE  /\ \A f \in Range(toPage') : f.type = "delta" => Reached(f.piece)'
              /\ Rising(toPage', StreamOrder)
              /\ \A d \in Conv : \A x \in PiecesOf(page'.bubbles[d]) : Behind(x, toPage')
  <2>1. \A d \in Conv : \A x \in PiecesOf(page'.bubbles[d]) : Reached(x) /\ Ahead(x)
    BY <1>7, <1>8, <1>10, <1>18
  <2>2. Range(toPage') = Range(toPage) \cup {g}
    BY <1>1, <1>18, RangeOf
  <2>3. g.type = "delta" => Reached(g.piece)'
    <3> SUFFICES ASSUME g.type = "delta" PROVE Reached(g.piece)'
      OBVIOUS
    <3>1. host'[c].turn = host[c].turn /\ host'[c].sent = host[c].sent + 1
      BY <1>1, <1>18, HostRuns
    <3>2. g.piece.conv = c /\ g.piece.turn = host[c].turn /\ g.piece.k = host[c].sent + 1
      BY <1>18 DEF DeltaFrame
    <3>3. host[c].sent + 1 <= host[c].sent + 1
      <4>1. host[c].sent \in Nat
        BY <1>1 DEF LinkOK, HostState
      <4> QED
        BY <4>1
    <3> QED
      BY <3>1, <3>2, <3>3 DEF Reached
  <2>4. ASSUME NEW x \in Piece, Reached(x), g.type = "delta", g.piece.conv = x.conv
        PROVE  Before(x, g.piece)
    <3>1. g.piece.conv = c /\ g.piece.turn = host[c].turn /\ g.piece.k = host[c].sent + 1
      BY <1>18, <2>4 DEF DeltaFrame
    <3>2. host[c].sent \in Nat /\ x.k \in Nat
      BY <1>1, ChatAssumption DEF LinkOK, HostState, Piece
    <3>3. x.k <= host[c].sent => x.k < host[c].sent + 1
      BY <3>2
    <3> QED
      BY <2>4, <3>1, <3>3 DEF Reached, Before
  <2>5. \A x \in Range(toPage) : <<x, g>> \in StreamOrder
    BY <1>2, <2>4 DEF StreamOrder
  <2>6. Rising(toPage', StreamOrder)
    BY <1>1, <1>18, <2>5, RisingAppend DEF Stream
  <2>7. \A f \in Range(toPage') : f.type = "delta" => Reached(f.piece)'
    <3>1. \A f \in Range(toPage) : f.type = "delta" => Reached(f.piece)'
      BY <1>2, <1>3
    <3> HIDE DEF Reached
    <3> QED
      BY <2>2, <2>3, <3>1
  <2>8. ASSUME NEW d \in Conv, NEW x \in PiecesOf(page'.bubbles[d])
        PROVE  Behind(x, toPage')
    BY <1>11, <2>1, <2>2, <2>4, <2>8 DEF Ahead
  <2> QED
    BY <2>6, <2>7, <2>8
<1> DEFINE Fine == /\ \A f \in Range(toPage') : f.type = "delta" => Reached(f.piece)'
                   /\ Rising(toPage', StreamOrder)
                   /\ \A c \in Conv : \A x \in PiecesOf(page'.bubbles[c]) : Behind(x, toPage')
<1>19. Fine
  <2>1. UNCHANGED toPage => Fine
    BY <1>1, <1>16, <1>17
  <2>2. toPage # <<>> /\ toPage' = Tail(toPage) => Fine
    BY <1>14
  <2>3. \A g \in PageFrame, c \in Conv :
          /\ toPage' = Append(toPage, g)
          /\ g.type # "delta" \/ (HostDelta(c) /\ g = DeltaFrame(c, host[c].turn, host[c].sent + 1))
          => Fine
    BY <1>1, <1>16, <1>18
  <2>4. ~ Reload /\ ~ SocketCloses
    OBVIOUS
  <2> HIDE DEF Fine
  <2> QED
    BY <1>1, <2>1, <2>2, <2>3, <2>4, Arrives
<1> QED
  BY <1>9, <1>13, <1>19 DEF Stream, Ahead

(* While the socket holds and the page is not reloaded, the pieces of a      *)
(* conversation are shown in the order they were produced and none twice:    *)
(* what is shown comes before what is on its way, and that before what the   *)
(* run, or a later one, will yet say.                                        *)
THEOREM TextComesInOrder == ChatSpec => []TextInOrder
<1> DEFINE OrderInv == Unbroken => Calm /\ Turns /\ Stream
<1>1. ChatInit => OrderInv
  <2> SUFFICES ASSUME ChatInit PROVE Calm /\ Turns /\ Stream
    OBVIOUS
  <2>1. Range(<<>>) = {} /\ toHost = <<>> /\ toPage = <<>> /\ page.chains = <<>>
    BY EmptyRange DEF ChatInit
  <2>2. \A c \in Conv : host[c].turn = 0 /\ host[c].phase = "idle" /\ page.pending[c] = 0
                        /\ spent.turn[c] = 0 /\ page.bubbles[c] = <<>> /\ ~ page.recovered[c]
    BY DEF ChatInit
  <2>3. Calm
    BY <2>1, <2>2 DEF Calm, Silent, ChatInit
  <2>4. \A R : Rising(<<>>, R)
    BY DEF Rising
  <2>5. Turns
    BY <2>1, <2>2, <2>4 DEF Turns
  <2>6. Ordered(<<>>) /\ PiecesOf(<<>>) = {}
    BY DEF Ordered, PiecesOf
  <2>7. Stream
    BY <2>1, <2>2, <2>4, <2>6 DEF Stream
  <2> QED
    BY <2>3, <2>5, <2>7
<1>2. PageInv /\ OrderInv /\ [ChatNext]_vars => OrderInv'
  <2> SUFFICES ASSUME PageInv, OrderInv, [ChatNext]_vars, Unbroken'
               PROVE  Calm' /\ Turns' /\ Stream'
    OBVIOUS
  <2>1. Unbroken /\ ~ Reload /\ ~ SocketCloses
    BY UnbrokenStep DEF PageInv
  <2> QED
    BY <2>1, CalmStep, TurnsStep, StreamStep
<1>3. PageInv /\ OrderInv => TextInOrder
  <2> SUFFICES ASSUME PageInv, OrderInv, Unbroken, NEW c \in Conv, NEW x \in Places(c), NEW y \in Places(c),
                      LET p == page.bubbles[c][x[1]].text[x[2]]
                          q == page.bubbles[c][y[1]].text[y[2]]
                      IN  /\ x[1] < y[1] \/ (x[1] = y[1] /\ x[2] < y[2])
                          /\ p.conv = q.conv /\ p # StatusNote
               PROVE  Before(page.bubbles[c][x[1]].text[x[2]], page.bubbles[c][y[1]].text[y[2]])
    BY DEF TextInOrder, Unbroken
  <2> DEFINE bs == page.bubbles[c]
             p == bs[x[1]].text[x[2]]
             q == bs[y[1]].text[y[2]]
  <2>1. bs \in Bubbles(Shown) /\ Ordered(bs)
    BY DEF Stream, PageInv, PageOK, Memory, Bubbles, Shown
  <2>2. DOMAIN bs = 1..Len(bs) /\ \A i \in DOMAIN bs : bs[i].text \in Seq(Shown)
    <3>1. \A i \in DOMAIN bs : bs[i] \in Bubble(Shown)
      BY <2>1, ElementOfSeq DEF Bubbles
    <3> QED
      BY <2>1, <3>1, LenProperties DEF Bubbles, Bubble
  <2>3. /\ x[1] \in DOMAIN bs /\ x[2] \in DOMAIN bs[x[1]].text
        /\ y[1] \in DOMAIN bs /\ y[2] \in DOMAIN bs[y[1]].text
    BY <2>2 DEF Places
  <2>4. p \in Shown /\ q \in Shown
    BY <2>2, <2>3, ElementOfSeq
  <2>5. p \in Piece /\ q \in Piece
    <3>1. StatusNote.conv = NoConv /\ \A z \in Piece : z.conv # NoConv
      BY ChatAssumption DEF StatusNote, Piece
    <3> HIDE DEF p, q
    <3>2. p \in Piece
      BY <2>4 DEF Shown, p
    <3> QED
      BY <2>4, <3>1, <3>2 DEF Shown, p, q
  <2> QED
    BY <2>1, <2>3, <2>5 DEF Ordered
<1> HIDE DEF OrderInv
<1> QED
  BY <1>1, <1>2, <1>3, PageInvHolds, PTL DEF ChatSpec
=============================================================================

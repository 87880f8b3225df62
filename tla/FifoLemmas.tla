----------------------------- MODULE FifoLemmas -----------------------------
(***************************************************************************)
(* Lemmas about FIFO queues as sequences, on which the proofs about the    *)
(* senders and the receivers rest: both move the head of one queue to the  *)
(* end of another and append to the one they take from.                    *)
(***************************************************************************)
EXTENDS Sequences, Naturals, SequenceTheorems, TLAPS

\* A queue that is not empty is its head, followed by its tail.
LEMMA HeadThenTail ==
  ASSUME NEW S, NEW q \in Seq(S), q # << >>
  PROVE  /\ Head(q) \in S
         /\ Tail(q) \in Seq(S)
         /\ q = <<Head(q)>> \o Tail(q)
<1>1. /\ Head(q) \in S /\ Tail(q) \in Seq(S) /\ Len(Tail(q)) = Len(q) - 1
      /\ \A i \in 1..Len(Tail(q)) : Tail(q)[i] = q[i + 1]
  BY HeadTailProperties
<1>2. <<Head(q)>> \in Seq(S) /\ Len(<<Head(q)>>) = 1 /\ <<Head(q)>>[1] = q[1]
  BY <1>1
<1>3. /\ <<Head(q)>> \o Tail(q) \in Seq(S)
      /\ Len(<<Head(q)>> \o Tail(q)) = 1 + Len(Tail(q))
      /\ \A i \in 1..1 + Len(Tail(q)) :
           (<<Head(q)>> \o Tail(q))[i] = IF i <= 1 THEN <<Head(q)>>[i] ELSE Tail(q)[i - 1]
  BY <1>1, <1>2, ConcatProperties
<1>4. Len(q) \in Nat
  BY LenProperties
<1>5. \A i \in 1..Len(q) : q[i] = (<<Head(q)>> \o Tail(q))[i]
  BY <1>1, <1>2, <1>3, <1>4
<1>. QED  BY <1>1, <1>3, <1>4, <1>5, SeqEqual

\* Moving the head of a queue to the end of a log keeps what both contain.
LEMMA MoveHead ==
  ASSUME NEW S, NEW log \in Seq(S), NEW q \in Seq(S), q # << >>
  PROVE  Append(log, Head(q)) \o Tail(q) = log \o q
<1>1. Head(q) \in S /\ Tail(q) \in Seq(S) /\ q = <<Head(q)>> \o Tail(q)
  BY HeadThenTail
<1>2. Append(log, Head(q)) = log \o <<Head(q)>>
  BY <1>1, AppendIsConcat
<1>3. (log \o <<Head(q)>>) \o Tail(q) = log \o (<<Head(q)>> \o Tail(q))
  BY <1>1, ConcatAssociative
<1>. QED  BY <1>1, <1>2, <1>3

\* Items added at the end of a queue that is not empty leave its head alone.
LEMMA AddBehindHead ==
  ASSUME NEW S, NEW q \in Seq(S), NEW t \in Seq(S), q # << >>
  PROVE  /\ q \o t \in Seq(S)
         /\ q \o t # << >>
         /\ Head(q \o t) = Head(q)
         /\ Tail(q \o t) = Tail(q) \o t
<1>1. q \o t \in Seq(S) /\ q \o t # << >>
  BY ConcatProperties, ConcatEqualIffEmpty
<1>2. Head(q) \in S /\ Tail(q) \in Seq(S) /\ Len(q) \in Nat /\ Len(q) > 0 /\ Len(t) \in Nat
  BY HeadTailProperties, LenProperties, EmptySeq
<1>3. Len(q \o t) = Len(q) + Len(t)
      /\ \A i \in 1..Len(q) + Len(t) :
           (q \o t)[i] = IF i <= Len(q) THEN q[i] ELSE t[i - Len(q)]
  BY ConcatProperties
<1>4. Head(q \o t) = Head(q)
  BY <1>2, <1>3
<1>5. /\ Tail(q \o t) \in Seq(S)
      /\ Len(Tail(q \o t)) = Len(q) + Len(t) - 1
      /\ \A i \in 1..Len(Tail(q \o t)) : Tail(q \o t)[i] = (q \o t)[i + 1]
  BY <1>1, <1>3, HeadTailProperties
<1>6. /\ Tail(q) \o t \in Seq(S)
      /\ Len(Tail(q) \o t) = Len(q) - 1 + Len(t)
      /\ \A i \in 1..Len(q) - 1 + Len(t) :
           (Tail(q) \o t)[i] = IF i <= Len(q) - 1 THEN Tail(q)[i] ELSE t[i - (Len(q) - 1)]
      /\ \A i \in 1..Len(q) - 1 : Tail(q)[i] = q[i + 1]
  BY <1>2, HeadTailProperties, ConcatProperties
<1>7. ASSUME NEW i \in 1..Len(Tail(q \o t))
      PROVE  Tail(q \o t)[i] = (Tail(q) \o t)[i]
  BY <1>2, <1>3, <1>5, <1>6
<1>8. Tail(q \o t) = Tail(q) \o t
  BY <1>2, <1>5, <1>6, <1>7, SeqEqual
<1>. QED  BY <1>1, <1>4, <1>8

\* Taking the head of a queue in hand keeps what log, hand and queue contain.
LEMMA TakeHead ==
  ASSUME NEW S, NEW log \in Seq(S), NEW q \in Seq(S), q # << >>
  PROVE  (log \o <<Head(q)>>) \o Tail(q) = (log \o << >>) \o q
<1>1. Head(q) \in S
  BY HeadThenTail
<1>2. Append(log, Head(q)) = log \o <<Head(q)>>
  BY <1>1, AppendIsConcat
<1>3. log \o << >> = log
  BY ConcatEmptySeq
<1>. QED  BY <1>2, <1>3, MoveHead

\* So does moving the item in hand to the end of the log.
LEMMA PutDown ==
  ASSUME NEW S, NEW log \in Seq(S), NEW x \in S
  PROVE  /\ Append(log, x) \in Seq(S)
         /\ Append(log, x) \o << >> = log \o <<x>>
<1>1. Append(log, x) \in Seq(S) /\ Append(log, x) = log \o <<x>>
  BY AppendProperties, AppendIsConcat
<1>. QED  BY <1>1, ConcatEmptySeq

\* What is appended to a queue is appended to all that went through it.
LEMMA AppendToBoth ==
  ASSUME NEW S, NEW log \in Seq(S), NEW q \in Seq(S), NEW x \in S
  PROVE  Append(log \o q, x) = log \o Append(q, x)
<1>1. <<x>> \in Seq(S) /\ log \o q \in Seq(S)
  BY ConcatProperties
<1>2. Append(log \o q, x) = (log \o q) \o <<x>> /\ Append(q, x) = q \o <<x>>
  BY <1>1, AppendIsConcat
<1>3. (log \o q) \o <<x>> = log \o (q \o <<x>>)
  BY <1>1, ConcatAssociative
<1>. QED  BY <1>2, <1>3

\* Where the entries of a log that grew by some items come from.
LEMMA PositionsOfConcat ==
  ASSUME NEW S, NEW log \in Seq(S), NEW q \in Seq(S)
  PROVE  /\ \A k \in DOMAIN log : k \in DOMAIN (log \o q) /\ (log \o q)[k] = log[k]
         /\ \A k \in DOMAIN (log \o q) :
              \/ k \in DOMAIN log
              \/ k > Len(log) /\ \E n \in DOMAIN q : (log \o q)[k] = q[n]
         /\ \A k \in DOMAIN (log \o q) : k \in Nat
         /\ \A k \in DOMAIN log : k <= Len(log)
<1>1. /\ log \o q \in Seq(S)
      /\ Len(log \o q) = Len(log) + Len(q)
      /\ \A i \in 1..Len(log) + Len(q) :
           (log \o q)[i] = IF i <= Len(log) THEN log[i] ELSE q[i - Len(log)]
  BY ConcatProperties
<1>2. /\ Len(log) \in Nat /\ Len(q) \in Nat
      /\ DOMAIN log = 1..Len(log) /\ DOMAIN q = 1..Len(q)
      /\ DOMAIN (log \o q) = 1..Len(log) + Len(q)
  BY <1>1, LenProperties
<1>3. ASSUME NEW k \in DOMAIN (log \o q), k \notin DOMAIN log
      PROVE  k > Len(log) /\ \E n \in DOMAIN q : (log \o q)[k] = q[n]
  <2>1. k - Len(log) \in DOMAIN q /\ (log \o q)[k] = q[k - Len(log)] /\ k > Len(log)
    BY <1>1, <1>2, <1>3
  <2>. QED  BY <2>1
<1>. QED  BY <1>1, <1>2, <1>3
=============================================================================

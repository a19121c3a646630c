---------------------------- MODULE ChannelProofs ----------------------------
(***************************************************************************)
(* Facts about channels of capacity one and about sequences that the       *)
(* proofs of the other modules rest on.                                    *)
(***************************************************************************)
EXTENDS Channel, SequenceTheorems, TLAPS

(* Reading a full channel gives the message that was put into it. *)
LEMMA GetSome == \A m : Get(Some(m)) = m
  BY DEF Get, Some

(* A full channel is not an empty one. *)
LEMMA SomeIsNotNone == \A m : Some(m) # None
  BY DEF Some, None

(* Two full channels with the same content hold the same message. *)
LEMMA SomeInjective == \A a, b : Some(a) = Some(b) => a = b
  BY GetSome

(* The empty channel has the type of every channel. *)
LEMMA NoneInOption == \A S : None \in Option(S)
  BY DEF Option

(* A channel that holds a message of the right type is well typed. *)
LEMMA SomeInOption == \A S : \A m \in S : Some(m) \in Option(S)
  BY DEF Option

(* A well typed channel that is not empty holds a message of its type. *)
LEMMA OptionCases ==
    \A S : \A c \in Option(S) : c = None \/ (Get(c) \in S /\ c = Some(Get(c)))
  BY GetSome DEF Option

(* Appending an element of the right type keeps the type of a sequence. *)
LEMMA AppendType ==
    ASSUME NEW S, NEW q \in Seq(S), NEW e \in S
    PROVE  Append(q, e) \in Seq(S)
  OBVIOUS

(* An element taken from the front of one sequence and put at the end of the *)
(* one before it leaves the two, put together, as they are.                  *)
LEMMA HeadMoves ==
    ASSUME NEW S, NEW d \in Seq(S), NEW e \in Seq(S), e # << >>
    PROVE  Append(d, Head(e)) \o Tail(e) = d \o e
<1>1. /\ Head(e) = e[1] /\ Head(e) \in S /\ Tail(e) \in Seq(S)
      /\ Len(Tail(e)) = Len(e) - 1 /\ Len(e) \in Nat \ {0} /\ Len(d) \in Nat
      /\ \A i \in 1 .. Len(e) - 1 : Tail(e)[i] = e[i + 1]
  BY HeadTailProperties, EmptySeq
<1> DEFINE a == Append(d, Head(e))
<1>2. /\ a \in Seq(S) /\ Len(a) = Len(d) + 1
      /\ \A i \in 1 .. Len(d) : a[i] = d[i]
      /\ a[Len(d) + 1] = e[1]
  BY <1>1
<1> HIDE DEF a
<1> DEFINE t == Tail(e)
<1>3. t \in Seq(S) /\ Len(t) = Len(e) - 1 /\ \A i \in 1 .. Len(e) - 1 : t[i] = e[i + 1]
  BY <1>1
<1> HIDE DEF t
<1>4. /\ a \o t \in Seq(S) /\ d \o e \in Seq(S)
      /\ Len(a \o t) = Len(a) + Len(t) /\ Len(d \o e) = Len(d) + Len(e)
      /\ \A i \in 1 .. Len(a) + Len(t) :
            (a \o t)[i] = IF i <= Len(a) THEN a[i] ELSE t[i - Len(a)]
      /\ \A i \in 1 .. Len(d) + Len(e) :
            (d \o e)[i] = IF i <= Len(d) THEN d[i] ELSE e[i - Len(d)]
  BY <1>2, <1>3, ConcatProperties
<1>5. ASSUME NEW i \in 1 .. Len(d) + Len(e) PROVE (a \o t)[i] = (d \o e)[i]
  <2>1. CASE i <= Len(d)
    BY <1>1, <1>2, <1>3, <1>4, <2>1
  <2>2. CASE i = Len(d) + 1
    BY <1>1, <1>2, <1>3, <1>4, <2>2
  <2>3. CASE i > Len(d) + 1
    <3>1. (a \o t)[i] = t[i - (Len(d) + 1)]
      BY <1>1, <1>2, <1>3, <1>4, <2>3
    <3>2. t[i - (Len(d) + 1)] = e[(i - (Len(d) + 1)) + 1]
      BY <1>1, <1>3, <2>3
    <3>3. (i - (Len(d) + 1)) + 1 = i - Len(d)
      BY <1>1
    <3> QED
      BY <1>1, <1>4, <2>3, <3>1, <3>2, <3>3
  <2>4. i <= Len(d) \/ i = Len(d) + 1 \/ i > Len(d) + 1
    BY <1>1
  <2> QED
    BY <2>1, <2>2, <2>3, <2>4, Zenon
<1>6. a \o t = d \o e
  <2>1. Len(a \o t) = Len(d \o e) /\ Len(d \o e) = Len(d) + Len(e)
    BY <1>1, <1>2, <1>3, <1>4
  <2> DEFINE x == a \o t
             y == d \o e
  <2>2. /\ x \in Seq(S) /\ y \in Seq(S) /\ Len(x) = Len(y)
        /\ \A i \in 1 .. Len(x) : x[i] = y[i]
    <3>1. Len(x) = Len(d) + Len(e)
      BY <2>1
    <3> QED
      BY <1>4, <1>5, <2>1, <3>1, Zenon
  <2> HIDE DEF x, y
  <2>3. x = y
    BY <2>2, SeqEqual
  <2> QED
    BY <2>3 DEF x, y
<1> QED
  BY <1>6 DEF a, t
==============================================================================

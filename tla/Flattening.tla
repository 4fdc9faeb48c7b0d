----------------------------- MODULE Flattening -----------------------------
(***************************************************************************)
(* What FlattenSeq makes of a sequence of sequences that grows at its end. *)
(* FlattenSeq is a recursive function, so the proofs go by induction over  *)
(* its length, from the well-foundedness of the natural numbers.           *)
(***************************************************************************)
EXTENDS Naturals, Sequences, SequencesExt, WellFoundedInduction, TLAPS

-----------------------------------------------------------------------------
(* Induction. *)

LEMMA Smallest ==
    ASSUME NEW T, T \subseteq Nat, T # {}
    PROVE  \E n \in T : \A m \in T : n <= m
<1> DEFINE Less == {ss \in Nat \X Nat : ss[1] < ss[2]}
<1>1. IsWellFoundedOn(Less, Nat)
    BY NatLessThanWellFounded DEF OpToRel
<1>2. \A m \in Nat, k \in Nat : m < k => <<m, k>> \in Less
    OBVIOUS
<1> HIDE DEF Less
<1>3. PICK n \in T : \A m \in T : <<m, n>> \notin Less
    BY <1>1, WFMin
<1>4. n \in Nat
    OBVIOUS
<1>5. ASSUME NEW m \in T PROVE n <= m
    <2>1. m \in Nat
        OBVIOUS
    <2>2. ~(m < n)
        BY <1>2, <1>3, <1>4, <2>1
    <2> QED
        BY <1>4, <2>1, <2>2
<1> QED
    BY <1>5

\* A set with 0 and the successors of its numbers has every natural number.
LEMMA AllNumbers ==
    ASSUME NEW P, 0 \in P, \A n \in Nat : n \in P => n + 1 \in P
    PROVE  Nat \subseteq P
<1> DEFINE T == Nat \ P
<1> SUFFICES ASSUME T # {} PROVE FALSE
    OBVIOUS
<1>1. PICK n \in T : \A m \in T : n <= m
    BY Smallest
<1>2. n # 0 /\ n - 1 \in Nat
    BY <1>1
<1>3. n - 1 \in P
    BY <1>1, <1>2
<1> QED
    BY <1>1, <1>2, <1>3

-----------------------------------------------------------------------------
(* The function that FlattenSeq computes. *)

Flattens(f, ss) ==
    f = [i \in 1 .. Len(ss) |-> IF i = 1 THEN ss[i] ELSE f[i - 1] \o ss[i]]

LEMMA FlatteningExists ==
    ASSUME NEW S
    PROVE  \A n \in Nat : \A ss \in Seq(Seq(S)) :
              Len(ss) = n => \E f \in [1 .. n -> Seq(S)] : Flattens(f, ss)
<1> DEFINE P == {n \in Nat : \A ss \in Seq(Seq(S)) :
                    Len(ss) = n => \E f \in [1 .. n -> Seq(S)] : Flattens(f, ss)}
<1>1. 0 \in P
    <2>1. ASSUME NEW ss \in Seq(Seq(S)), Len(ss) = 0
          PROVE  \E f \in [1 .. 0 -> Seq(S)] : Flattens(f, ss)
        <3> DEFINE f == [i \in 1 .. 0 |-> <<>>]
        <3>1. f \in [1 .. 0 -> Seq(S)] /\ Flattens(f, ss)
            BY <2>1 DEF Flattens
        <3> QED
            BY <3>1
    <2> QED
        BY <2>1
<1>2. ASSUME NEW n \in Nat, n \in P PROVE n + 1 \in P
    <2>1. ASSUME NEW ss \in Seq(Seq(S)), Len(ss) = n + 1
          PROVE  \E g \in [1 .. n + 1 -> Seq(S)] : Flattens(g, ss)
        <3> DEFINE front == [i \in 1 .. n |-> ss[i]]
        <3>1. \A i \in 1 .. n + 1 : ss[i] \in Seq(S)
            BY <2>1
        <3>2. front \in Seq(Seq(S)) /\ Len(front) = n
            BY <3>1
        <3>3. PICK f \in [1 .. n -> Seq(S)] : Flattens(f, front)
            BY <1>2, <3>2
        <3> HIDE DEF P
        <3>4. \A i \in 1 .. n : f[i] = IF i = 1 THEN ss[i] ELSE f[i - 1] \o ss[i]
            BY <3>2, <3>3 DEF Flattens
        <3> HIDE DEF front
        <3> DEFINE g == [i \in 1 .. n + 1 |->
                            IF i = 1 THEN ss[1]
                            ELSE IF i = n + 1 THEN f[n] \o ss[i]
                            ELSE f[i]]
        <3>9. ASSUME NEW k \in 1 .. n PROVE g[k] = f[k]
            <4>1. k \in 1 .. n + 1 /\ k # n + 1
                OBVIOUS
            <4>2. f[k] = IF k = 1 THEN ss[k] ELSE f[k - 1] \o ss[k]
                BY <3>4
            <4>3. g[k] = IF k = 1 THEN ss[1] ELSE f[k]
                BY <4>1
            <4> QED
                BY <4>2, <4>3
        <3>5. ASSUME NEW i \in 1 .. n + 1 PROVE g[i] \in Seq(S)
            <4>1. CASE i = 1
                BY <3>1, <4>1
            <4>2. CASE i # 1 /\ i = n + 1
                <5>1. f[n] \in Seq(S) /\ ss[i] \in Seq(S)
                    BY <3>1, <4>2
                <5> QED
                    BY <4>2, <5>1
            <4>3. CASE i # 1 /\ i # n + 1
                BY <4>3
            <4> QED
                BY <4>1, <4>2, <4>3
        <3>6. ASSUME NEW i \in 1 .. n + 1
              PROVE  g[i] = IF i = 1 THEN ss[i] ELSE g[i - 1] \o ss[i]
            <4>1. CASE i = 1
                BY <4>1
            <4>2. CASE i # 1 /\ i = n + 1
                <5>1. i - 1 = n /\ n \in 1 .. n
                    BY <4>2
                <5>2. g[n] = f[n]
                    BY <3>9, <5>1
                <5> QED
                    BY <4>2, <5>1, <5>2
            <4>3. CASE i # 1 /\ i # n + 1
                <5>1. i \in 1 .. n /\ i - 1 \in 1 .. n /\ i - 1 # n + 1
                    BY <4>3
                <5>2. g[i - 1] = f[i - 1]
                    BY <3>9, <5>1
                <5> QED
                    BY <3>4, <4>3, <5>1, <5>2
            <4> QED
                BY <4>1, <4>2, <4>3
        <3>7. g \in [1 .. n + 1 -> Seq(S)]
            BY <3>5
        <3>8. Flattens(g, ss)
            BY <2>1, <3>6 DEF Flattens
        <3> QED
            BY <3>7, <3>8
    <2> QED
        BY <2>1
<1>3. Nat \subseteq P
    BY <1>1, <1>2, AllNumbers
<1> QED
    BY <1>3

\* Two sequences of which one begins with the other flatten alike so far.
Begins(ss, tt) ==
    /\ Len(ss) \in Nat /\ Len(tt) \in Nat /\ Len(ss) <= Len(tt)
    /\ \A i \in 1 .. Len(ss) : ss[i] = tt[i]

LEMMA FlatteningUnique ==
    ASSUME NEW ss, NEW tt, NEW f, NEW g, Begins(ss, tt), Flattens(f, ss), Flattens(g, tt)
    PROVE  \A i \in 1 .. Len(ss) : f[i] = g[i]
<1> USE DEF Begins
<1> DEFINE P == {n \in Nat : n \in 1 .. Len(ss) => f[n] = g[n]}
<1>1. \A i \in 1 .. Len(ss) : f[i] = IF i = 1 THEN ss[i] ELSE f[i - 1] \o ss[i]
    BY DEF Flattens
<1>2. \A i \in 1 .. Len(tt) : g[i] = IF i = 1 THEN tt[i] ELSE g[i - 1] \o tt[i]
    BY DEF Flattens
<1>3. 0 \in P
    OBVIOUS
<1>4. ASSUME NEW n \in Nat, n \in P PROVE n + 1 \in P
    <2>1. ASSUME n + 1 \in 1 .. Len(ss) PROVE f[n + 1] = g[n + 1]
        <3>1. n + 1 \in 1 .. Len(tt) /\ ss[n + 1] = tt[n + 1] /\ (n + 1) - 1 = n
            BY <2>1
        <3>2. CASE n = 0
            BY <1>1, <1>2, <2>1, <3>1, <3>2
        <3>3. CASE n # 0
            <4>1. f[n] = g[n]
                BY <1>4, <2>1, <3>3
            <4>5. n + 1 # 1
                BY <3>3
            <4>2. f[n + 1] = f[n] \o ss[n + 1]
                <5>1. f[n + 1] = f[(n + 1) - 1] \o ss[n + 1]
                    BY <1>1, <2>1, <4>5
                <5> QED
                    BY <3>1, <5>1
            <4>3. g[n + 1] = g[n] \o tt[n + 1]
                <5>1. g[n + 1] = g[(n + 1) - 1] \o tt[n + 1]
                    BY <1>2, <3>1, <4>5
                <5> QED
                    BY <3>1, <5>1
            <4> QED
                BY <3>1, <4>1, <4>2, <4>3
        <3> QED
            BY <3>2, <3>3
    <2> QED
        BY <2>1
<1>5. Nat \subseteq P
    BY <1>3, <1>4, AllNumbers
<1> QED
    BY <1>5

\* FlattenSeq is that function at the end of the sequence.
LEMMA FlattenIs ==
    ASSUME NEW S, NEW ss \in Seq(Seq(S)), Len(ss) # 0
    PROVE  \E f \in [1 .. Len(ss) -> Seq(S)] :
              Flattens(f, ss) /\ FlattenSeq(ss) = f[Len(ss)]
<1>1. PICK h \in [1 .. Len(ss) -> Seq(S)] : Flattens(h, ss)
    BY FlatteningExists
<1> DEFINE f == CHOOSE flatten :
                   flatten = [i \in 1 .. Len(ss) |->
                                IF i = 1 THEN ss[i] ELSE flatten[i - 1] \o ss[i]]
<1>2. Flattens(f, ss)
    BY <1>1 DEF Flattens
<1>3. FlattenSeq(ss) = f[Len(ss)]
    BY DEF FlattenSeq
<1> HIDE DEF f
<1>4. \A i \in 1 .. Len(ss) : f[i] = h[i]
    <2>1. Begins(ss, ss)
        BY DEF Begins
    <2> QED
        BY ONLY <1>1, <1>2, <2>1, FlatteningUnique
<1>5. f \in [1 .. Len(ss) -> Seq(S)]
    BY <1>2, <1>4 DEF Flattens
<1> QED
    BY <1>2, <1>3, <1>5

-----------------------------------------------------------------------------
(* What the proofs cite. *)

LEMMA FlattenNothing == FlattenSeq(<<>>) = <<>>
    BY DEF FlattenSeq

LEMMA FlattenType ==
    ASSUME NEW S, NEW ss \in Seq(Seq(S))
    PROVE  FlattenSeq(ss) \in Seq(S)
<1>1. CASE Len(ss) = 0
    <2>1. ss = <<>>
        BY <1>1
    <2>2. <<>> \in Seq(S)
        OBVIOUS
    <2> QED
        BY <2>1, <2>2, FlattenNothing
<1>2. CASE Len(ss) # 0
    <2>1. PICK f \in [1 .. Len(ss) -> Seq(S)] : FlattenSeq(ss) = f[Len(ss)]
        BY <1>2, FlattenIs
    <2>2. Len(ss) \in 1 .. Len(ss)
        BY <1>2
    <2> QED
        BY <2>1, <2>2
<1> QED
    BY <1>1, <1>2

LEMMA FlattenAppend ==
    ASSUME NEW S, NEW ss \in Seq(Seq(S)), NEW t \in Seq(S)
    PROVE  FlattenSeq(Append(ss, t)) = FlattenSeq(ss) \o t
<1> DEFINE tt == Append(ss, t)
           n  == Len(ss)
<1>1. /\ tt \in Seq(Seq(S)) /\ Len(tt) = n + 1 /\ n \in Nat
      /\ \A i \in 1 .. n : ss[i] = tt[i]
      /\ tt[n + 1] = t
    OBVIOUS
<1> HIDE DEF tt
<1>2. PICK g \in [1 .. n + 1 -> Seq(S)] : Flattens(g, tt) /\ FlattenSeq(tt) = g[n + 1]
    BY <1>1, FlattenIs
<1>3. g[n + 1] = IF n + 1 = 1 THEN t ELSE g[n] \o t
    <2>1. /\ \A i \in 1 .. Len(tt) : g[i] = IF i = 1 THEN tt[i] ELSE g[i - 1] \o tt[i]
          /\ n + 1 \in 1 .. Len(tt) /\ (n + 1) - 1 = n
        <3>1. n + 1 \in 1 .. Len(tt) /\ (n + 1) - 1 = n
            BY <1>1
        <3>2. g = [i \in 1 .. Len(tt) |-> IF i = 1 THEN tt[i] ELSE g[i - 1] \o tt[i]]
            BY <1>2 DEF Flattens
        <3> QED
            BY <3>1, <3>2
    <2>2. g[n + 1] = IF n + 1 = 1 THEN tt[n + 1] ELSE g[(n + 1) - 1] \o tt[n + 1]
        BY <2>1
    <2> QED
        BY <1>1, <2>1, <2>2
<1>4. CASE n = 0
    <2>1. ss = <<>> /\ FlattenSeq(tt) = t
        BY <1>2, <1>3, <1>4
    <2>2. <<>> \o t = t
        OBVIOUS
    <2> QED
        BY <2>1, <2>2, FlattenNothing DEF tt
<1>5. CASE n # 0
    <2>1. PICK f \in [1 .. n -> Seq(S)] : Flattens(f, ss) /\ FlattenSeq(ss) = f[n]
        BY <1>5, FlattenIs
    <2>2. f[n] = g[n]
        <3>1. Begins(ss, tt) /\ n \in 1 .. Len(ss)
            BY <1>1, <1>5 DEF Begins
        <3>2. Flattens(f, ss) /\ Flattens(g, tt)
            BY <1>2, <2>1
        <3>3. \A i \in 1 .. Len(ss) : f[i] = g[i]
            BY ONLY <3>1, <3>2, FlatteningUnique
        <3> QED
            BY <3>1, <3>3
    <2>3. n + 1 # 1
        BY <1>1, <1>5
    <2> QED
        BY <1>2, <1>3, <2>1, <2>2, <2>3 DEF tt
<1> QED
    BY <1>4, <1>5

\* Nothing but empty sequences flattens to the empty one.
LEMMA FlattenEmpty ==
    ASSUME NEW S, NEW ss \in Seq(Seq(S)), \A i \in DOMAIN ss : ss[i] = <<>>
    PROVE  FlattenSeq(ss) = <<>>
<1>1. CASE Len(ss) = 0
    <2>1. ss = <<>>
        BY <1>1
    <2> QED
        BY <2>1, FlattenNothing
<1>2. CASE Len(ss) # 0
    <2>1. PICK f \in [1 .. Len(ss) -> Seq(S)] : Flattens(f, ss) /\ FlattenSeq(ss) = f[Len(ss)]
        BY <1>2, FlattenIs
    <2> DEFINE P == {n \in Nat : n \in 1 .. Len(ss) => f[n] = <<>>}
    <2>2. \A i \in 1 .. Len(ss) : f[i] = IF i = 1 THEN <<>> ELSE f[i - 1] \o <<>>
        <3>1. \A i \in 1 .. Len(ss) : f[i] = IF i = 1 THEN ss[i] ELSE f[i - 1] \o ss[i]
            BY <2>1 DEF Flattens
        <3>2. \A i \in 1 .. Len(ss) : ss[i] = <<>>
            OBVIOUS
        <3> QED
            BY ONLY <3>1, <3>2, Zenon
    <2>3. 0 \in P
        OBVIOUS
    <2>4. ASSUME NEW n \in Nat, n \in P PROVE n + 1 \in P
        <3>1. ASSUME n + 1 \in 1 .. Len(ss) PROVE f[n + 1] = <<>>
            <4>1. CASE n = 0
                BY <2>2, <3>1, <4>1
            <4>2. CASE n # 0
                <5>1. f[n] = <<>> /\ (n + 1) - 1 = n
                    BY <2>4, <3>1, <4>2
                <5>2. f[n + 1] = f[n] \o <<>>
                    BY <2>2, <3>1, <4>2, <5>1
                <5> QED
                    BY <5>1, <5>2
            <4> QED
                BY <4>1, <4>2
        <3> QED
            BY <3>1
    <2>5. Nat \subseteq P
        BY <2>3, <2>4, AllNumbers
    <2>6. Len(ss) \in 1 .. Len(ss) /\ Len(ss) \in Nat
        BY <1>2
    <2>7. f[Len(ss)] = <<>>
        BY <2>5, <2>6
    <2> QED
        BY <2>1, <2>7
<1> QED
    BY <1>1, <1>2
=============================================================================

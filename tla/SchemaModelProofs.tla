------------------------- MODULE SchemaModelProofs -------------------------
(***************************************************************************)
(* Theorems about SchemaModel, for any vocabulary of statements and any    *)
(* history of them.                                                        *)
(***************************************************************************)
EXTENDS SchemaModel, Flattening

-----------------------------------------------------------------------------
(* Sequences, element by element. *)

LEMMA SameSequence ==
    ASSUME NEW T, NEW s \in Seq(T), NEW t \in Seq(T), Len(s) = Len(t),
           \A i \in 1 .. Len(s) : s[i] = t[i]
    PROVE  s = t
    OBVIOUS

LEMMA LastElement ==
    ASSUME NEW T, NEW seq \in Seq(T), seq # <<>>
    PROVE  \E front \in Seq(T), x \in T :
              seq = Append(front, x) /\ Len(seq) = Len(front) + 1
<1> DEFINE n == Len(seq) - 1
           front == [i \in 1 .. n |-> seq[i]]
<1>1. n \in Nat /\ Len(seq) = n + 1
    OBVIOUS
<1>2. \A i \in 1 .. n + 1 : seq[i] \in T
    BY <1>1
<1>3. front \in Seq(T) /\ Len(front) = n /\ \A i \in 1 .. n : front[i] = seq[i]
    BY <1>1, <1>2
<1> HIDE DEF front
<1>5. seq[n + 1] \in T
    BY <1>1, <1>2
<1> HIDE DEF n
<1>8. \A x \in T : /\ Append(front, x) \in Seq(T) /\ Len(Append(front, x)) = n + 1
                   /\ \A i \in 1 .. n : Append(front, x)[i] = front[i]
                   /\ Append(front, x)[n + 1] = x
    BY <1>1, <1>3
<1>9. \A i \in 1 .. n + 1 : i \in 1 .. n \/ i = n + 1
    BY <1>1
<1>4. /\ Append(front, seq[n + 1]) \in Seq(T) /\ Len(Append(front, seq[n + 1])) = n + 1
      /\ \A i \in 1 .. n + 1 : Append(front, seq[n + 1])[i] = seq[i]
    BY <1>3, <1>5, <1>8, <1>9
<1>6. \A s, t \in Seq(T) : Len(s) = Len(t) /\ (\A i \in 1 .. Len(s) : s[i] = t[i]) => s = t
    OBVIOUS
<1>7. seq = Append(front, seq[n + 1])
    BY <1>1, <1>4, <1>6
<1> QED
    BY <1>1, <1>3, <1>5, <1>7

LEMMA ConcatElements ==
    ASSUME NEW T, NEW p \in Seq(T), NEW q \in Seq(T)
    PROVE  ToSet(p \o q) = ToSet(p) \cup ToSet(q)
<1>1. /\ DOMAIN (p \o q) = 1 .. Len(p) + Len(q)
      /\ DOMAIN p = 1 .. Len(p) /\ DOMAIN q = 1 .. Len(q)
      /\ \A i \in 1 .. Len(p) : (p \o q)[i] = p[i]
      /\ \A i \in 1 .. Len(q) : (p \o q)[Len(p) + i] = q[i]
      /\ \A i \in 1 .. Len(p) + Len(q) :
            \/ i \in 1 .. Len(p)
            \/ i - Len(p) \in 1 .. Len(q) /\ Len(p) + (i - Len(p)) = i
      /\ \A i \in 1 .. Len(p) : i \in 1 .. Len(p) + Len(q)
      /\ \A i \in 1 .. Len(q) : Len(p) + i \in 1 .. Len(p) + Len(q)
    OBVIOUS
<1>2. ASSUME NEW y \in ToSet(p \o q) PROVE y \in ToSet(p) \cup ToSet(q)
    BY <1>1 DEF ToSet
<1>3. ASSUME NEW y \in ToSet(p) \cup ToSet(q) PROVE y \in ToSet(p \o q)
    <2>1. CASE y \in ToSet(p)
        BY <1>1, <2>1 DEF ToSet
    <2>2. CASE y \in ToSet(q)
        <3>1. PICK i \in 1 .. Len(q) : q[i] = y
            BY <1>1, <2>2 DEF ToSet
        <3>2. (p \o q)[Len(p) + i] = y /\ Len(p) + i \in DOMAIN (p \o q)
            BY <1>1, <3>1
        <3> QED
            BY <3>2 DEF ToSet
    <2> QED
        BY <2>1, <2>2
<1> QED
    BY <1>2, <1>3

\* The elements of a flattened sequence.
LEMMA FlattenElements ==
    ASSUME NEW T
    PROVE  \A ss \in Seq(Seq(T)) :
              ToSet(FlattenSeq(ss)) = UNION {ToSet(ss[i]) : i \in DOMAIN ss}
<1> DEFINE P == {n \in Nat : \A ss \in Seq(Seq(T)) : Len(ss) = n =>
                    ToSet(FlattenSeq(ss)) = UNION {ToSet(ss[i]) : i \in DOMAIN ss}}
<1>1. 0 \in P
    <2>1. ASSUME NEW ss \in Seq(Seq(T)), Len(ss) = 0
          PROVE  ToSet(FlattenSeq(ss)) = UNION {ToSet(ss[i]) : i \in DOMAIN ss}
        <3>1. ss = <<>>
            BY <2>1
        <3>2. ToSet(<<>>) = {} /\ DOMAIN ss = {}
            BY <3>1 DEF ToSet
        <3> QED
            BY <3>1, <3>2, FlattenNothing
    <2> QED
        BY <2>1
<1>2. ASSUME NEW n \in Nat, n \in P PROVE n + 1 \in P
    <2>1. ASSUME NEW ss \in Seq(Seq(T)), Len(ss) = n + 1
          PROVE  ToSet(FlattenSeq(ss)) = UNION {ToSet(ss[i]) : i \in DOMAIN ss}
        <3>1. PICK front \in Seq(Seq(T)), x \in Seq(T) :
                 ss = Append(front, x) /\ Len(ss) = Len(front) + 1
            <4>1. ss # <<>>
                BY <2>1
            <4> QED
                BY <4>1, LastElement
        <3>2. ToSet(FlattenSeq(front)) = UNION {ToSet(front[i]) : i \in DOMAIN front}
            BY <1>2, <2>1, <3>1
        <3>3. FlattenSeq(ss) = FlattenSeq(front) \o x
            BY <3>1, FlattenAppend
        <3>4. FlattenSeq(front) \in Seq(T)
            BY FlattenType
        <3>5. ToSet(FlattenSeq(ss)) = ToSet(FlattenSeq(front)) \cup ToSet(x)
            BY <3>3, <3>4, ConcatElements
        <3>6. UNION {ToSet(ss[i]) : i \in DOMAIN ss} =
                 (UNION {ToSet(front[i]) : i \in DOMAIN front}) \cup ToSet(x)
            <4>1. /\ DOMAIN ss = 1 .. Len(front) + 1 /\ DOMAIN front = 1 .. Len(front)
                  /\ \A i \in 1 .. Len(front) : ss[i] = front[i]
                  /\ ss[Len(front) + 1] = x
                BY <3>1
            <4>2. /\ \A i \in 1 .. Len(front) + 1 : i \in 1 .. Len(front) \/ i = Len(front) + 1
                  /\ \A i \in 1 .. Len(front) : i \in 1 .. Len(front) + 1
                  /\ Len(front) + 1 \in 1 .. Len(front) + 1
                OBVIOUS
            <4> QED
                BY <4>1, <4>2
        <3> QED
            BY <3>2, <3>5, <3>6
    <2> QED
        BY <2>1
<1>3. Nat \subseteq P
    BY <1>1, <1>2, AllNumbers
<1> QED
    BY <1>3

-----------------------------------------------------------------------------
(* Where. *)

LEMMA WhereParts ==
    ASSUME NEW T, NEW seq \in Seq(T), NEW S
    PROVE  LET parts == [i \in DOMAIN seq |-> IF seq[i] \in S THEN <<seq[i]>> ELSE <<>>]
           IN  parts \in Seq(Seq(T)) /\ Len(parts) = Len(seq)
<1>1. \A x \in T : <<x>> \in Seq(T)
    OBVIOUS
<1>2. <<>> \in Seq(T)
    OBVIOUS
<1>3. \A i \in DOMAIN seq : (IF seq[i] \in S THEN <<seq[i]>> ELSE <<>>) \in Seq(T)
    BY <1>1, <1>2
<1>4. DOMAIN seq = 1 .. Len(seq) /\ Len(seq) \in Nat
    OBVIOUS
<1> QED
    BY <1>3, <1>4

LEMMA WhereType ==
    ASSUME NEW T, NEW seq \in Seq(T), NEW S
    PROVE  Where(seq, S) \in Seq(T)
    BY WhereParts, FlattenType DEF Where

LEMMA WhereNothing ==
    ASSUME NEW S
    PROVE  Where(<<>>, S) = <<>>
<1>1. [i \in DOMAIN <<>> |-> IF <<>>[i] \in S THEN <<<<>>[i]>> ELSE <<>>] = <<>>
    OBVIOUS
<1> QED
    BY <1>1, FlattenNothing DEF Where

LEMMA WhereAppend ==
    ASSUME NEW T, NEW seq \in Seq(T), NEW x \in T, NEW S
    PROVE  Where(Append(seq, x), S) =
              IF x \in S THEN Append(Where(seq, S), x) ELSE Where(seq, S)
<1> DEFINE Parts(q) == [i \in DOMAIN q |-> IF q[i] \in S THEN <<q[i]>> ELSE <<>>]
           one == IF x \in S THEN <<x>> ELSE <<>>
           longer == Append(seq, x)
<1>1. one \in Seq(T)
    OBVIOUS
<1>2. Parts(seq) \in Seq(Seq(T)) /\ Len(Parts(seq)) = Len(seq)
    BY WhereParts
<1>3. longer \in Seq(T) /\ Len(longer) = Len(seq) + 1
    OBVIOUS
<1>4. \A i \in 1 .. Len(seq) : longer[i] = seq[i]
    OBVIOUS
<1>5. longer[Len(seq) + 1] = x
    OBVIOUS
<1> HIDE DEF longer
<1>6. Parts(longer) \in Seq(Seq(T)) /\ Len(Parts(longer)) = Len(seq) + 1
    BY <1>3, WhereParts
<1>7. \A i \in 1 .. Len(seq) + 1 : Parts(longer)[i] = IF longer[i] \in S THEN <<longer[i]>> ELSE <<>>
    BY <1>3
<1>8. \A i \in 1 .. Len(seq) : Parts(seq)[i] = IF seq[i] \in S THEN <<seq[i]>> ELSE <<>>
    OBVIOUS
<1>9. \A i \in 1 .. Len(seq) : i \in 1 .. Len(seq) + 1
    OBVIOUS
<1>10. \A i \in 1 .. Len(seq) : Parts(longer)[i] = Parts(seq)[i]
    BY <1>4, <1>7, <1>8, <1>9, Zenon
<1>11. Parts(longer)[Len(seq) + 1] = one
    <2>1. Len(seq) + 1 \in 1 .. Len(seq) + 1
        OBVIOUS
    <2>2. Parts(longer)[Len(seq) + 1] =
             IF longer[Len(seq) + 1] \in S THEN <<longer[Len(seq) + 1]>> ELSE <<>>
        BY <1>7, <2>1
    <2> QED
        BY <1>5, <2>2, Zenon
<1>12. FlattenSeq(Append(Parts(seq), one)) = FlattenSeq(Parts(seq)) \o one
    BY <1>1, <1>2, FlattenAppend
<1>13. FlattenSeq(Parts(seq)) \in Seq(T)
    BY <1>2, FlattenType
<1>14. Where(longer, S) = FlattenSeq(Parts(longer)) /\ Where(seq, S) = FlattenSeq(Parts(seq))
    BY DEF Where
<1> HIDE DEF Parts
<1>15. Parts(longer) = Append(Parts(seq), one)
    <2>1. /\ Append(Parts(seq), one) \in Seq(Seq(T)) /\ Len(Append(Parts(seq), one)) = Len(seq) + 1
          /\ \A i \in 1 .. Len(seq) : Append(Parts(seq), one)[i] = Parts(seq)[i]
          /\ Append(Parts(seq), one)[Len(seq) + 1] = one
        <3>1. \A ps \in Seq(Seq(T)), p \in Seq(T), n \in Nat : Len(ps) = n =>
                 /\ Append(ps, p) \in Seq(Seq(T)) /\ Len(Append(ps, p)) = n + 1
                 /\ \A i \in 1 .. n : Append(ps, p)[i] = ps[i]
                 /\ Append(ps, p)[n + 1] = p
            OBVIOUS
        <3>2. Len(seq) \in Nat
            OBVIOUS
        <3> HIDE DEF one
        <3> QED
            BY <1>1, <1>2, <3>1, <3>2
    <2>3. \A i \in 1 .. Len(seq) + 1 : i \in 1 .. Len(seq) \/ i = Len(seq) + 1
        OBVIOUS
    <2> HIDE DEF one
    <2> QED
        BY <1>6, <1>10, <1>11, <2>1, <2>3, SameSequence
<1>16. \A q \in Seq(T) : q \o <<>> = q /\ q \o <<x>> = Append(q, x)
    OBVIOUS
<1> QED
    BY <1>12, <1>13, <1>14, <1>15, <1>16 DEF longer

\* Where keeps the elements of S, and no other.
LEMMA WhereElements ==
    ASSUME NEW T, NEW seq \in Seq(T), NEW S
    PROVE  ToSet(Where(seq, S)) = ToSet(seq) \cap S
<1> DEFINE ss == [i \in DOMAIN seq |-> IF seq[i] \in S THEN <<seq[i]>> ELSE <<>>]
<1>1. ss \in Seq(Seq(T)) /\ Where(seq, S) = FlattenSeq(ss)
    BY WhereParts DEF Where
<1>2. ToSet(FlattenSeq(ss)) = UNION {ToSet(ss[i]) : i \in DOMAIN ss}
    BY <1>1, FlattenElements
<1>3. DOMAIN ss = DOMAIN seq /\ \A i \in DOMAIN seq : ss[i] = IF seq[i] \in S THEN <<seq[i]>> ELSE <<>>
    OBVIOUS
<1>4. \A x : ToSet(<<x>>) = {x}
    BY DEF ToSet
<1>5. ToSet(<<>>) = {}
    BY DEF ToSet
<1>6. \A i \in DOMAIN seq : ToSet(ss[i]) = IF seq[i] \in S THEN {seq[i]} ELSE {}
    BY <1>3, <1>4, <1>5
<1> HIDE DEF ss
<1>7. UNION {ToSet(ss[i]) : i \in DOMAIN ss} = ToSet(seq) \cap S
    BY <1>3, <1>6 DEF ToSet
<1> QED
    BY <1>1, <1>2, <1>7

\* Where on two sequences that are in their sets at the same places.
Paired(p, S, q, R) ==
    /\ Len(Where(p, S)) = Len(Where(q, R))
    /\ \A k \in DOMAIN Where(p, S) : \E i \in DOMAIN p :
          Where(p, S)[k] = p[i] /\ Where(q, R)[k] = q[i]

LEMMA WherePaired ==
    ASSUME NEW T, NEW U, NEW S, NEW R
    PROVE  \A p \in Seq(T), q \in Seq(U) :
              Len(p) = Len(q) /\ (\A i \in DOMAIN p : p[i] \in S <=> q[i] \in R)
                 => Paired(p, S, q, R)
<1> DEFINE P == {n \in Nat : \A p \in Seq(T), q \in Seq(U) :
                    /\ Len(p) = n /\ Len(q) = n
                    /\ \A i \in DOMAIN p : p[i] \in S <=> q[i] \in R
                    => Paired(p, S, q, R)}
<1>1. 0 \in P
    <2>1. ASSUME NEW p \in Seq(T), NEW q \in Seq(U), Len(p) = 0, Len(q) = 0
          PROVE  Paired(p, S, q, R)
        <3>1. p = <<>> /\ q = <<>>
            BY <2>1
        <3> QED
            BY <3>1, WhereNothing DEF Paired
    <2> QED
        BY <2>1
<1>2. ASSUME NEW n \in Nat, n \in P PROVE n + 1 \in P
    <2>1. ASSUME NEW p \in Seq(T), NEW q \in Seq(U), Len(p) = n + 1, Len(q) = n + 1,
                 \A i \in DOMAIN p : p[i] \in S <=> q[i] \in R
          PROVE  Paired(p, S, q, R)
        <3>0. p # <<>> /\ q # <<>>
            BY <2>1
        <3>1. PICK f \in Seq(T), x \in T : p = Append(f, x) /\ Len(p) = Len(f) + 1
            BY <3>0, LastElement
        <3>2. PICK g \in Seq(U), y \in U : q = Append(g, y) /\ Len(q) = Len(g) + 1
            BY <3>0, LastElement
        <3>3. /\ Len(f) = n /\ Len(g) = n
              /\ \A i \in 1 .. n : p[i] = f[i] /\ q[i] = g[i]
              /\ p[n + 1] = x /\ q[n + 1] = y
            BY <2>1, <3>1, <3>2
        <3>4. /\ DOMAIN p = 1 .. n + 1 /\ DOMAIN f = 1 .. n
              /\ \A i \in 1 .. n : i \in 1 .. n + 1
              /\ n + 1 \in 1 .. n + 1
            BY <2>1, <3>3
        <3>5. x \in S <=> y \in R
            BY <2>1, <3>3, <3>4
        <3>6. \A i \in DOMAIN f : f[i] \in S <=> g[i] \in R
            BY <2>1, <3>3, <3>4
        <3>7. Paired(f, S, g, R)
            BY <1>2, <3>3, <3>6
        <3>8. /\ Where(p, S) = IF x \in S THEN Append(Where(f, S), x) ELSE Where(f, S)
              /\ Where(q, R) = IF y \in R THEN Append(Where(g, R), y) ELSE Where(g, R)
            BY <3>1, <3>2, WhereAppend
        <3>9. Where(f, S) \in Seq(T) /\ Where(g, R) \in Seq(U)
            BY WhereType
        <3> DEFINE a == Where(f, S)
                   b == Where(g, R)
        <3>10. Len(a) = Len(b) /\ \A k \in DOMAIN a : \E i \in 1 .. n : a[k] = p[i] /\ b[k] = q[i]
            BY <3>3, <3>4, <3>7 DEF Paired
        <3>11. CASE x \notin S
            <4>1. Where(p, S) = a /\ Where(q, R) = b
                BY <3>5, <3>8, <3>11
            <4> QED
                BY <3>4, <3>10, <4>1 DEF Paired
        <3>12. CASE x \in S
            <4>1. Where(p, S) = Append(a, x) /\ Where(q, R) = Append(b, y)
                BY <3>5, <3>8, <3>12
            <4> HIDE DEF a, b
            <4>2. a \in Seq(T) /\ b \in Seq(U)
                BY <3>9 DEF a, b
            <4>3. /\ Len(Append(a, x)) = Len(a) + 1 /\ Len(Append(b, y)) = Len(a) + 1
                  /\ DOMAIN Append(a, x) = 1 .. Len(a) + 1
                  /\ \A k \in 1 .. Len(a) : Append(a, x)[k] = a[k] /\ Append(b, y)[k] = b[k]
                  /\ Append(a, x)[Len(a) + 1] = x /\ Append(b, y)[Len(a) + 1] = y
                BY <3>10, <4>2
            <4>4. \A k \in 1 .. Len(a) + 1 : k \in DOMAIN a \/ k = Len(a) + 1
                BY <4>2
            <4>5. DOMAIN a = 1 .. Len(a)
                BY <4>2
            <4>6. ASSUME NEW k \in 1 .. Len(a) + 1
                  PROVE  \E i \in DOMAIN p : Append(a, x)[k] = p[i] /\ Append(b, y)[k] = q[i]
                <5>1. CASE k \in DOMAIN a
                    BY <3>4, <3>10, <4>3, <4>5, <5>1
                <5>2. CASE k = Len(a) + 1
                    BY <3>3, <3>4, <4>3, <5>2
                <5> QED
                    BY <4>4, <5>1, <5>2
            <4> QED
                BY <4>1, <4>3, <4>6 DEF Paired
        <3> QED
            BY <3>11, <3>12
    <2> QED
        BY <2>1
<1>3. Nat \subseteq P
    BY <1>1, <1>2, AllNumbers
<1>4. \A p \in Seq(T), q \in Seq(U) : Len(p) \in Nat /\ Len(q) \in Nat
    OBVIOUS
<1> QED
    BY <1>3, <1>4

\* Where all is in S, Where changes nothing.
LEMMA WhereAll ==
    ASSUME NEW T, NEW S
    PROVE  \A seq \in Seq(T) : (\A i \in DOMAIN seq : seq[i] \in S) => Where(seq, S) = seq
<1> DEFINE P == {n \in Nat : \A seq \in Seq(T) :
                    Len(seq) = n /\ (\A i \in DOMAIN seq : seq[i] \in S) => Where(seq, S) = seq}
<1>1. 0 \in P
    <2>1. ASSUME NEW seq \in Seq(T), Len(seq) = 0 PROVE Where(seq, S) = seq
        <3>1. seq = <<>>
            BY <2>1
        <3> QED
            BY <3>1, WhereNothing
    <2> QED
        BY <2>1
<1>2. ASSUME NEW n \in Nat, n \in P PROVE n + 1 \in P
    <2>1. ASSUME NEW seq \in Seq(T), Len(seq) = n + 1, \A i \in DOMAIN seq : seq[i] \in S
          PROVE  Where(seq, S) = seq
        <3>0. seq # <<>>
            BY <2>1
        <3>1. PICK f \in Seq(T), x \in T : seq = Append(f, x) /\ Len(seq) = Len(f) + 1
            BY <3>0, LastElement
        <3>2. /\ Len(f) = n /\ DOMAIN f = 1 .. n /\ DOMAIN seq = 1 .. n + 1
              /\ \A i \in 1 .. n : seq[i] = f[i] /\ i \in 1 .. n + 1
              /\ seq[n + 1] = x /\ n + 1 \in 1 .. n + 1
            BY <2>1, <3>1
        <3>3. x \in S /\ \A i \in DOMAIN f : f[i] \in S
            BY <2>1, <3>2
        <3>4. Where(f, S) = f
            BY <1>2, <3>2, <3>3
        <3> QED
            BY <3>1, <3>3, <3>4, WhereAppend
    <2> QED
        BY <2>1
<1>3. Nat \subseteq P
    BY <1>1, <1>2, AllNumbers
<1>4. \A seq \in Seq(T) : Len(seq) \in Nat
    OBVIOUS
<1> QED
    BY <1>3, <1>4

-----------------------------------------------------------------------------
(* Names, keys and references.                                             *)

LEMMA StatementShapes ==
    ASSUME NEW s \in Statements
    PROVE  /\ s.kind = "create" => s \in CreateStmts
           /\ s.kind = "add_column" => s.table \in STRING /\ s.column \in ColumnDefs
           /\ s.kind = "drop_column" => s.table \in STRING /\ s.name \in STRING
           /\ s.kind = "add_foreign_key" => s.table \in STRING /\ s.fk \in ForeignKeys
           /\ s.kind = "drop_table" => s.table \in STRING
           /\ s.kind = "hatch" => s.body \in CreateStmts /\ s.table = s.body.table
    BY SchemaAssumption DEF IsStatement, CreateStmts

\* table_mut finds the first table of the name, if there is one.
LEMMA TableMutFinds ==
    ASSUME NEW m \in Seq(ModelTables), NEW name
    PROVE  /\ TableMut(m, name) \in 0 .. Len(m)
           /\ TableMut(m, name) # 0 => m[TableMut(m, name)].name = name
           /\ TableMut(m, name) = 0 => \A i \in DOMAIN m : m[i].name # name
<1> DEFINE I == {i \in 1 .. Len(m) : m[i].name = name}
<1>1. TableMut(m, name) = IF I # {} THEN Min(I) ELSE 0
    BY DEF TableMut, SelectInSeq
<1>2. DOMAIN m = 1 .. Len(m) /\ Len(m) \in Nat
    OBVIOUS
<1>3. CASE I = {}
    BY <1>1, <1>2, <1>3
<1>4. CASE I # {}
    <2>1. I \subseteq Nat
        BY <1>2
    <2>2. \E n \in I : \A k \in I : n <= k
        BY <1>4, <2>1, Smallest
    <2>3. Min(I) \in I
        BY <2>2 DEF Min
    <2> QED
        BY <1>1, <1>2, <1>4, <2>3
<1> QED
    BY <1>3, <1>4

LEMMA NamesType ==
    ASSUME NEW T, \A c \in T : c.name \in STRING, NEW columns \in Seq(T)
    PROVE  Names(columns) \in Seq(STRING) /\ Len(Names(columns)) = Len(columns)
<1>1. \A i \in DOMAIN columns : columns[i] \in T
    OBVIOUS
<1>2. \A i \in DOMAIN columns : columns[i].name \in STRING
    BY <1>1
<1>3. DOMAIN columns = 1 .. Len(columns) /\ Len(columns) \in Nat
    OBVIOUS
<1> QED
    BY <1>2, <1>3 DEF Names

LEMMA PrimaryNamesType ==
    ASSUME NEW s \in CreateStmts
    PROVE  PrimaryNames(s) \in Seq(STRING)
<1> DEFINE primary == Where(s.columns, {c \in ToSet(s.columns) : c.primary})
<1>1. primary \in Seq(ColumnDefs)
    BY WhereType DEF CreateStmts
<1> HIDE DEF primary
<1>2. Names(primary) \in Seq(STRING)
    BY <1>1, NamesType DEF ColumnDefs
<1> QED
    BY <1>2 DEF PrimaryNames, primary

\* The members of the primary key that the column options spell out.
LEMMA PrimaryNamesElements ==
    ASSUME NEW s \in CreateStmts, NEW x
    PROVE  Contains(PrimaryNames(s), x) <=>
              \E i \in DOMAIN s.columns : s.columns[i].primary /\ s.columns[i].name = x
<1> DEFINE primary == Where(s.columns, {c \in ToSet(s.columns) : c.primary})
<1>1. s.columns \in Seq(ColumnDefs)
    BY DEF CreateStmts
<1>2. primary \in Seq(ColumnDefs)
    BY <1>1, WhereType
<1>3. ToSet(primary) = ToSet(s.columns) \cap {c \in ToSet(s.columns) : c.primary}
    BY <1>1, WhereElements
<1> HIDE DEF primary
<1>4. PrimaryNames(s) = [i \in DOMAIN primary |-> primary[i].name]
    BY DEF PrimaryNames, primary, Names
<1>5. DOMAIN primary = 1 .. Len(primary) /\ Len(PrimaryNames(s)) = Len(primary)
    BY <1>2, <1>4
<1>6. Contains(PrimaryNames(s), x) <=> \E c \in ToSet(primary) : c.name = x
    BY <1>4, <1>5 DEF Contains, ToSet
<1> QED
    BY <1>3, <1>6 DEF ToSet

LEMMA ReferencesType ==
    ASSUME NEW s \in CreateStmts
    PROVE  /\ References(s) \in Seq(ColumnDefs)
           /\ \A i \in DOMAIN References(s) : \E k \in DOMAIN s.columns :
                 References(s)[i] = s.columns[k] /\ s.columns[k].ref # NoTable
<1>1. s.columns \in Seq(ColumnDefs)
    BY DEF CreateStmts
<1>2. References(s) \in Seq(ColumnDefs)
    BY <1>1, WhereType DEF References
<1>3. ToSet(References(s)) = ToSet(s.columns) \cap {c \in ToSet(s.columns) : c.ref # NoTable}
    BY <1>1, WhereElements DEF References
<1> QED
    BY <1>2, <1>3 DEF ToSet

-----------------------------------------------------------------------------
(* Types.                                                                  *)

LEMMA ModelColumnType ==
    ASSUME NEW c \in ColumnDefs, HasMapping(c.type), NEW nullable \in BOOLEAN
    PROVE  ModelColumn(c, nullable) \in ModelColumns
    BY DEF ColumnDefs, HasMapping, ModelColumn, ModelColumns

LEMMA EntriesType ==
    ASSUME NEW fk \in ForeignKeys
    PROVE  /\ Entries(fk) \in Seq(STRING \X STRING)
           /\ \A j \in DOMAIN Entries(fk) :
                 Contains(fk.columns, Entries(fk)[j][1]) /\ Entries(fk)[j][2] = fk.parent
           /\ DOMAIN Entries(fk) # {}
<1>1. fk.columns \in Seq(STRING) /\ fk.columns # <<>> /\ fk.parent \in STRING
    BY DEF ForeignKeys
<1>2. DOMAIN fk.columns = 1 .. Len(fk.columns) /\ Len(fk.columns) \in Nat /\ Len(fk.columns) # 0
    BY <1>1
<1>3. \A j \in DOMAIN fk.columns : <<fk.columns[j], fk.parent>> \in STRING \X STRING
    BY <1>1
<1>4. Entries(fk) \in Seq(STRING \X STRING)
    BY <1>2, <1>3 DEF Entries
<1>5. DOMAIN Entries(fk) = DOMAIN fk.columns
    BY DEF Entries
<1>6. \A j \in DOMAIN fk.columns : Entries(fk)[j] = <<fk.columns[j], fk.parent>>
    BY DEF Entries
<1>7. \A j \in DOMAIN Entries(fk) : Entries(fk)[j][1] = fk.columns[j] /\ Entries(fk)[j][2] = fk.parent
    BY <1>5, <1>6
<1>8. \A j \in DOMAIN Entries(fk) :
         Contains(fk.columns, Entries(fk)[j][1]) /\ Entries(fk)[j][2] = fk.parent
    BY <1>2, <1>5, <1>7 DEF Contains
<1>9. 1 \in DOMAIN fk.columns
    BY <1>2
<1> QED
    BY <1>4, <1>5, <1>8, <1>9

LEMMA OwnEntriesType ==
    ASSUME NEW s \in CreateStmts
    PROVE  OwnEntries(s) \in Seq(STRING \X STRING)
<1>1. References(s) \in Seq(ColumnDefs)
    BY ReferencesType
<1>2. \A i \in DOMAIN References(s) : References(s)[i] \in ColumnDefs
    BY <1>1
<1>3. \A i \in DOMAIN References(s) :
         <<References(s)[i].name, References(s)[i].ref>> \in STRING \X STRING
    BY <1>2 DEF ColumnDefs
<1>4. DOMAIN References(s) = 1 .. Len(References(s)) /\ Len(References(s)) \in Nat
    BY <1>1
<1> QED
    BY <1>3, <1>4 DEF OwnEntries

LEMMA KeyEntriesType ==
    ASSUME NEW s \in CreateStmts
    PROVE  /\ KeyEntries(s) \in Seq(STRING \X STRING)
           /\ ToSet(KeyEntries(s)) = UNION {ToSet(Entries(s.fks[i])) : i \in DOMAIN s.fks}
<1> DEFINE ss == [i \in DOMAIN s.fks |-> Entries(s.fks[i])]
<1>1. s.fks \in Seq(ForeignKeys)
    BY DEF CreateStmts
<1>2. \A i \in DOMAIN s.fks : Entries(s.fks[i]) \in Seq(STRING \X STRING)
    BY <1>1, EntriesType
<1>3. DOMAIN s.fks = 1 .. Len(s.fks) /\ Len(s.fks) \in Nat
    BY <1>1
<1>4. ss \in Seq(Seq(STRING \X STRING))
    BY <1>2, <1>3
<1>5. /\ FlattenSeq(ss) \in Seq(STRING \X STRING)
      /\ ToSet(FlattenSeq(ss)) = UNION {ToSet(ss[i]) : i \in DOMAIN ss}
    BY <1>4, FlattenType, FlattenElements
<1>6. DOMAIN ss = DOMAIN s.fks /\ \A i \in DOMAIN s.fks : ss[i] = Entries(s.fks[i])
    OBVIOUS
<1>7. KeyEntries(s) = FlattenSeq(ss)
    BY DEF KeyEntries
<1> HIDE DEF ss
<1> QED
    BY <1>5, <1>6, <1>7

\* The parts of a table that the model has of a CREATE TABLE.
LEMMA ModelTableIs ==
    ASSUME NEW s \in CreateStmts, \A i \in DOMAIN s.columns : HasMapping(s.columns[i].type)
    PROVE  /\ ModelTable(s) \in ModelTables
           /\ ModelTable(s).name = s.table
           /\ ModelTable(s).primary_key = KeyOf(s)
           /\ ModelTable(s).foreign_keys = OwnEntries(s) \o KeyEntries(s)
           /\ Len(ModelTable(s).columns) = Len(s.columns)
           /\ \A i \in DOMAIN s.columns : ModelTable(s).columns[i] =
                 ModelColumn(s.columns[i], ~s.columns[i].notNull /\ ~s.columns[i].primary)
<1> DEFINE columns == [i \in DOMAIN s.columns |->
                         ModelColumn(s.columns[i], ~s.columns[i].notNull /\ ~s.columns[i].primary)]
<1>1. s.columns \in Seq(ColumnDefs) /\ s.key \in Seq(STRING) /\ s.table \in STRING
    BY DEF CreateStmts
<1>2. DOMAIN s.columns = 1 .. Len(s.columns) /\ Len(s.columns) \in Nat
    BY <1>1
<1>3. \A i \in DOMAIN s.columns : s.columns[i] \in ColumnDefs
    BY <1>1
<1>4. \A i \in DOMAIN s.columns :
         ModelColumn(s.columns[i], ~s.columns[i].notNull /\ ~s.columns[i].primary) \in ModelColumns
    BY <1>3, ModelColumnType
<1>5. columns \in Seq(ModelColumns) /\ Len(columns) = Len(s.columns)
    BY <1>2, <1>4
<1>6. KeyOf(s) \in Seq(STRING)
    BY <1>1, PrimaryNamesType DEF KeyOf
<1>7. OwnEntries(s) \o KeyEntries(s) \in Seq(STRING \X STRING)
    BY OwnEntriesType, KeyEntriesType
<1>8. ModelTable(s) = [name |-> s.table, columns |-> columns, primary_key |-> KeyOf(s),
                       foreign_keys |-> OwnEntries(s) \o KeyEntries(s)]
    BY DEF ModelTable, KeyOf, OwnEntries, KeyEntries, Entries
<1>9. \A i \in DOMAIN s.columns : columns[i] =
         ModelColumn(s.columns[i], ~s.columns[i].notNull /\ ~s.columns[i].primary)
    OBVIOUS
<1> HIDE DEF columns
<1> QED
    BY <1>1, <1>5, <1>6, <1>7, <1>8, <1>9 DEF ModelTables

\* What stands in the catalog of a column.
Kept(c, key, b) ==
    [name    |-> c.name,
     native  |-> IF HasMapping(c.type) THEN NativeType(c.type, b) ELSE c.type,
     notNull |-> c.notNull \/ (b = "postgres" /\ Contains(key, c.name))]

LEMMA CatalogTableIs ==
    ASSUME NEW s \in CreateStmts, NEW b \in {"postgres", "sqlite"}
    PROVE  /\ CatalogTable(s, b) \in CatalogTables
           /\ CatalogTable(s, b).key = KeyOf(s)
           /\ CatalogTable(s, b).fks =
                 {ForeignKey(<<References(s)[i].name>>, References(s)[i].ref)
                     : i \in DOMAIN References(s)} \cup ToSet(s.fks)
           /\ Len(CatalogTable(s, b).columns) = Len(s.columns)
           /\ \A i \in DOMAIN s.columns :
                 CatalogTable(s, b).columns[i] = Kept(s.columns[i], KeyOf(s), b)
<1> DEFINE columns == [i \in DOMAIN s.columns |-> Kept(s.columns[i], KeyOf(s), b)]
           fks == {ForeignKey(<<References(s)[i].name>>, References(s)[i].ref)
                     : i \in DOMAIN References(s)} \cup ToSet(s.fks)
<1>1. s.columns \in Seq(ColumnDefs) /\ s.key \in Seq(STRING) /\ s.fks \in Seq(ForeignKeys)
    BY DEF CreateStmts
<1>2. DOMAIN s.columns = 1 .. Len(s.columns) /\ Len(s.columns) \in Nat
    BY <1>1
<1>3. \A i \in DOMAIN s.columns : s.columns[i] \in ColumnDefs
    BY <1>1
<1>4. \A i \in DOMAIN s.columns : Kept(s.columns[i], KeyOf(s), b) \in CatalogColumns
    BY <1>3 DEF Kept, ColumnDefs, CatalogColumns, NativeTypes, HasMapping
<1>5. columns \in Seq(CatalogColumns) /\ Len(columns) = Len(s.columns)
    BY <1>2, <1>4
<1>6. KeyOf(s) \in Seq(STRING)
    BY <1>1, PrimaryNamesType DEF KeyOf
<1>7. fks \in SUBSET ForeignKeys
    <2>1. \A i \in DOMAIN References(s) : References(s)[i] \in ColumnDefs
        BY ReferencesType
    <2>2. \A x \in STRING : <<x>> \in Seq(STRING) \ {<<>>}
        OBVIOUS
    <2>3. \A i \in DOMAIN References(s) :
             ForeignKey(<<References(s)[i].name>>, References(s)[i].ref) \in ForeignKeys
        BY <2>1, <2>2 DEF ColumnDefs, ForeignKey, ForeignKeys
    <2>4. ToSet(s.fks) \subseteq ForeignKeys
        BY <1>1 DEF ToSet
    <2> QED
        BY <2>3, <2>4
<1>8. CatalogTable(s, b) = [columns |-> columns, key |-> KeyOf(s), fks |-> fks]
    BY DEF CatalogTable, KeyOf, Kept
<1>9. \A i \in DOMAIN s.columns : columns[i] = Kept(s.columns[i], KeyOf(s), b)
    OBVIOUS
<1> HIDE DEF columns, fks
<1>10. /\ CatalogTable(s, b) \in CatalogTables
       /\ CatalogTable(s, b).key = KeyOf(s) /\ CatalogTable(s, b).fks = fks
       /\ CatalogTable(s, b).columns = columns
    BY <1>5, <1>6, <1>7, <1>8 DEF CatalogTables
<1> QED
    BY <1>5, <1>9, <1>10 DEF fks

-----------------------------------------------------------------------------
(* What a statement does to a catalog: the tables it leaves alone, and what *)
(* becomes of its own.                                                     *)

LEMMA CatalogHas ==
    ASSUME NEW cat, IsCatalog(cat), NEW x \in DOMAIN cat
    PROVE  /\ x \in STRING
           /\ cat[x].columns \in Seq(CatalogColumns)
           /\ cat[x].key \in Seq(STRING)
           /\ cat[x].fks \in SUBSET ForeignKeys
           /\ cat[x] = [columns |-> cat[x].columns, key |-> cat[x].key, fks |-> cat[x].fks]
<1>1. cat[x] \in CatalogTables
    BY DEF IsCatalog
<1> QED
    BY <1>1 DEF IsCatalog, CatalogTables

\* Every table of c but x is the same in d.
Elsewhere(c, d, x) == \A u \in DOMAIN c \ {x} : u \in DOMAIN d /\ d[u] = c[u]

LEMMA CreateChanges ==
    ASSUME NEW cat, IsCatalog(cat), NEW b \in {"postgres", "sqlite"}, NEW s \in CreateStmts
    PROVE  /\ IsCatalog(CreatedIn(cat, b, s))
           /\ DOMAIN CreatedIn(cat, b, s) = DOMAIN cat \cup {s.table}
           /\ CreatedIn(cat, b, s)[s.table] = CatalogTable(s, b)
           /\ Elsewhere(cat, CreatedIn(cat, b, s), s.table)
<1>1. CatalogTable(s, b) \in CatalogTables /\ s.table \in STRING
    BY CatalogTableIs DEF CreateStmts
<1>2. CreatedIn(cat, b, s) = [u \in DOMAIN cat \cup {s.table} |->
                                 IF u = s.table THEN CatalogTable(s, b) ELSE cat[u]]
    BY DEF CreatedIn, WithTable
<1>3. \A u \in DOMAIN cat : cat[u] \in CatalogTables
    BY DEF IsCatalog
<1> QED
    BY <1>1, <1>2, <1>3 DEF IsCatalog, Elsewhere

OneColumn(s) == CreateStmt(s.table, <<s.column>>, <<>>, <<>>)

LEMMA OneColumnIs ==
    ASSUME NEW s, s.table \in STRING, s.column \in ColumnDefs
    PROVE  /\ OneColumn(s) \in CreateStmts /\ OneColumn(s).columns = <<s.column>>
           /\ ~s.column.primary => KeyOf(OneColumn(s)) = <<>>
           /\ \A i \in DOMAIN References(OneColumn(s)) :
                 References(OneColumn(s))[i] = s.column /\ s.column.ref # NoTable
           /\ OneColumn(s).fks = <<>>
<1>1. /\ OneColumn(s).columns = <<s.column>> /\ OneColumn(s).key = <<>>
      /\ OneColumn(s).fks = <<>>
    BY DEF OneColumn, CreateStmt
<1>2. OneColumn(s) \in CreateStmts
    <2>1. <<s.column>> \in Seq(ColumnDefs)
        OBVIOUS
    <2>2. <<>> \in Seq(STRING) /\ <<>> \in Seq(ForeignKeys)
        OBVIOUS
    <2> QED
        BY <2>1, <2>2 DEF OneColumn, CreateStmt, CreateStmts
<1>3. ASSUME ~s.column.primary PROVE KeyOf(OneColumn(s)) = <<>>
    <2>1. \A x : ~Contains(PrimaryNames(OneColumn(s)), x)
        BY <1>1, <1>2, <1>3, PrimaryNamesElements
    <2>2. PrimaryNames(OneColumn(s)) \in Seq(STRING)
        BY <1>2, PrimaryNamesType
    <2>3. ASSUME NEW q \in Seq(STRING), \A x : ~Contains(q, x) PROVE q = <<>>
        <3>1. \A i \in 1 .. Len(q) : Contains(q, q[i])
            BY DEF Contains
        <3> QED
            BY <2>3, <3>1
    <2> QED
        BY <1>1, <2>1, <2>2, <2>3 DEF KeyOf
<1>4. \A i \in DOMAIN References(OneColumn(s)) :
         References(OneColumn(s))[i] = s.column /\ s.column.ref # NoTable
    <2>1. \A k \in DOMAIN <<s.column>> : <<s.column>>[k] = s.column
        OBVIOUS
    <2> QED
        BY <1>1, <1>2, <2>1, ReferencesType
<1> QED
    BY <1>1, <1>2, <1>3, <1>4

\* What ALTER TABLE makes of the table u.
CatalogGains(u, u2, c, b) ==
    /\ \E key : /\ ~c.primary => key = <<>>
                /\ u2.columns = Append(u.columns, Kept(c, key, b))
    /\ ~c.primary => u2.key = u.key
    /\ \A fk \in u2.fks : fk \in u.fks \/ (c.ref # NoTable /\ fk.parent = c.ref)

CatalogLoses(u, u2, name) ==
    /\ u2.columns = Without(u.columns, name)
    /\ u2.key = IF Contains(u.key, name) THEN <<>> ELSE u.key
    /\ u2.fks \subseteq u.fks

CatalogLinks(u, u2, fk) ==
    u2.columns = u.columns /\ u2.key = u.key /\ u2.fks = u.fks \cup {fk}

LEMMA AddChanges ==
    ASSUME NEW cat, IsCatalog(cat), NEW b \in {"postgres", "sqlite"},
           NEW s, s.table \in DOMAIN cat, s.column \in ColumnDefs
    PROVE  /\ IsCatalog(AddedIn(cat, b, s))
           /\ DOMAIN AddedIn(cat, b, s) = DOMAIN cat
           /\ Elsewhere(cat, AddedIn(cat, b, s), s.table)
           /\ CatalogGains(cat[s.table], AddedIn(cat, b, s)[s.table], s.column, b)
<1> DEFINE d == AddedIn(cat, b, s)
           x == s.table
           one == CatalogTable(OneColumn(s), b)
           new == [columns |-> cat[x].columns \o one.columns, key |-> cat[x].key \o one.key,
                   fks |-> cat[x].fks \cup one.fks]
<1>1. /\ cat[x].columns \in Seq(CatalogColumns) /\ cat[x].key \in Seq(STRING)
      /\ cat[x].fks \in SUBSET ForeignKeys /\ x \in STRING
    BY CatalogHas
<1>2. /\ OneColumn(s) \in CreateStmts /\ OneColumn(s).columns = <<s.column>>
      /\ ~s.column.primary => KeyOf(OneColumn(s)) = <<>>
      /\ \A i \in DOMAIN References(OneColumn(s)) :
            References(OneColumn(s))[i] = s.column /\ s.column.ref # NoTable
      /\ OneColumn(s).fks = <<>>
    BY <1>1, OneColumnIs
<1>3. /\ one \in CatalogTables /\ one.key = KeyOf(OneColumn(s))
      /\ one.fks = {ForeignKey(<<References(OneColumn(s))[i].name>>, References(OneColumn(s))[i].ref)
                       : i \in DOMAIN References(OneColumn(s))} \cup ToSet(<<>>)
      /\ Len(one.columns) = 1
      /\ one.columns[1] = Kept(s.column, KeyOf(OneColumn(s)), b)
    <2>1. Len(<<s.column>>) = 1 /\ 1 \in DOMAIN <<s.column>> /\ <<s.column>>[1] = s.column
        OBVIOUS
    <2>2. /\ one \in CatalogTables /\ one.key = KeyOf(OneColumn(s))
          /\ one.fks = {ForeignKey(<<References(OneColumn(s))[i].name>>, References(OneColumn(s))[i].ref)
                           : i \in DOMAIN References(OneColumn(s))} \cup ToSet(OneColumn(s).fks)
          /\ Len(one.columns) = Len(OneColumn(s).columns)
          /\ \A i \in DOMAIN OneColumn(s).columns :
                one.columns[i] = Kept(OneColumn(s).columns[i], KeyOf(OneColumn(s)), b)
        BY ONLY <1>2, CatalogTableIs, b \in {"postgres", "sqlite"}
    <2> HIDE DEF one
    <2>3. Len(one.columns) = 1 /\ one.columns[1] = Kept(s.column, KeyOf(OneColumn(s)), b)
        BY <1>2, <2>1, <2>2
    <2>4. ToSet(OneColumn(s).fks) = ToSet(<<>>)
        BY <1>2
    <2> QED
        BY <2>2, <2>3, <2>4
<1>4. d = [cat EXCEPT ![x] = new]
    BY DEF AddedIn, OneColumn
<1> HIDE DEF one
<1>5. one.columns \in Seq(CatalogColumns) /\ one.key \in Seq(STRING) /\ one.fks \in SUBSET ForeignKeys
    BY <1>3 DEF CatalogTables
<1>6. new \in CatalogTables
    BY <1>1, <1>5 DEF CatalogTables
<1>7. one.columns = <<Kept(s.column, KeyOf(OneColumn(s)), b)>>
    BY <1>3, <1>5
<1>8. new.columns = Append(cat[x].columns, Kept(s.column, KeyOf(OneColumn(s)), b))
    <2>1. \A q \in Seq(CatalogColumns) : \A y : q \o <<y>> = Append(q, y)
        OBVIOUS
    <2> QED
        BY <1>1, <1>7, <2>1
<1>9. ASSUME ~s.column.primary PROVE new.key = cat[x].key
    BY <1>1, <1>2, <1>3, <1>9
<1>10. ASSUME NEW fk \in new.fks
       PROVE  fk \in cat[x].fks \/ (s.column.ref # NoTable /\ fk.parent = s.column.ref)
    BY <1>2, <1>3 DEF ToSet, ForeignKey
<1>11. cat = [u \in DOMAIN cat |-> cat[u]] /\ DOMAIN cat \subseteq STRING
       /\ \A u \in DOMAIN cat : cat[u] \in CatalogTables
    BY DEF IsCatalog
<1> HIDE DEF new
<1>12. /\ DOMAIN d = DOMAIN cat /\ d[x] = new
       /\ \A u \in DOMAIN cat : u # x => d[u] = cat[u]
       /\ d = [u \in DOMAIN cat |-> d[u]]
    BY <1>4, <1>11
<1>13. IsCatalog(d) /\ Elsewhere(cat, d, x)
    BY <1>6, <1>11, <1>12 DEF IsCatalog, Elsewhere
<1>14. CatalogGains(cat[x], new, s.column, b)
    <2> DEFINE key == KeyOf(OneColumn(s))
    <2>1. ~s.column.primary => key = <<>>
        BY <1>2
    <2>2. new.columns = Append(cat[x].columns, Kept(s.column, key, b))
        BY <1>8
    <2> HIDE DEF key
    <2> QED
        BY <1>9, <1>10, <2>1, <2>2 DEF CatalogGains
<1> HIDE DEF d
<1>15. CatalogGains(cat[x], d[x], s.column, b)
    BY <1>12, <1>14
<1> QED
    BY <1>12, <1>13, <1>15 DEF d

LEMMA DropColumnChanges ==
    ASSUME NEW cat, IsCatalog(cat), NEW s, s.table \in DOMAIN cat
    PROVE  /\ IsCatalog(DroppedIn(cat, s))
           /\ DOMAIN DroppedIn(cat, s) = DOMAIN cat
           /\ Elsewhere(cat, DroppedIn(cat, s), s.table)
           /\ CatalogLoses(cat[s.table], DroppedIn(cat, s)[s.table], s.name)
<1> DEFINE d == DroppedIn(cat, s)
           x == s.table
           new == [columns |-> Without(cat[x].columns, s.name),
                   key     |-> IF Contains(cat[x].key, s.name) THEN <<>> ELSE cat[x].key,
                   fks     |-> {fk \in cat[x].fks : ~Contains(fk.columns, s.name)}]
<1>1. /\ cat[x].columns \in Seq(CatalogColumns) /\ cat[x].key \in Seq(STRING)
      /\ cat[x].fks \in SUBSET ForeignKeys /\ x \in STRING
    BY CatalogHas
<1>2. Without(cat[x].columns, s.name) \in Seq(CatalogColumns)
    BY <1>1, WhereType DEF Without
<1>3. <<>> \in Seq(STRING)
    OBVIOUS
<1>4. new \in CatalogTables
    BY <1>1, <1>2, <1>3 DEF CatalogTables
<1>5. d = [cat EXCEPT ![x] = new]
    BY DEF DroppedIn
<1>6. /\ new.columns = Without(cat[x].columns, s.name) /\ new.fks \subseteq cat[x].fks
      /\ new.key = IF Contains(cat[x].key, s.name) THEN <<>> ELSE cat[x].key
    OBVIOUS
<1>7. cat = [u \in DOMAIN cat |-> cat[u]] /\ DOMAIN cat \subseteq STRING
       /\ \A u \in DOMAIN cat : cat[u] \in CatalogTables
    BY DEF IsCatalog
<1> HIDE DEF new
<1>8. /\ DOMAIN d = DOMAIN cat /\ d[x] = new
      /\ \A u \in DOMAIN cat : u # x => d[u] = cat[u]
      /\ d = [u \in DOMAIN cat |-> d[u]]
    BY <1>5, <1>7
<1>9. IsCatalog(d) /\ Elsewhere(cat, d, x)
    BY <1>4, <1>7, <1>8 DEF IsCatalog, Elsewhere
<1>10. CatalogLoses(cat[x], new, s.name)
    BY <1>6 DEF CatalogLoses
<1> HIDE DEF d
<1>11. CatalogLoses(cat[x], d[x], s.name)
    BY <1>8, <1>10
<1> QED
    BY <1>8, <1>9, <1>11 DEF d

AddedKeyIn(cat, s) == [cat EXCEPT ![s.table].fks = @ \cup {s.fk}]

LEMMA AddForeignKeyChanges ==
    ASSUME NEW cat, IsCatalog(cat), NEW s, s.table \in DOMAIN cat, s.fk \in ForeignKeys
    PROVE  /\ IsCatalog(AddedKeyIn(cat, s))
           /\ DOMAIN AddedKeyIn(cat, s) = DOMAIN cat
           /\ Elsewhere(cat, AddedKeyIn(cat, s), s.table)
           /\ CatalogLinks(cat[s.table], AddedKeyIn(cat, s)[s.table], s.fk)
<1> DEFINE d == AddedKeyIn(cat, s)
           x == s.table
           new == [columns |-> cat[x].columns, key |-> cat[x].key, fks |-> cat[x].fks \cup {s.fk}]
<1>1. /\ cat[x].columns \in Seq(CatalogColumns) /\ cat[x].key \in Seq(STRING)
      /\ cat[x].fks \in SUBSET ForeignKeys /\ x \in STRING
      /\ cat[x] = [columns |-> cat[x].columns, key |-> cat[x].key, fks |-> cat[x].fks]
    BY CatalogHas
<1>2. new \in CatalogTables
    BY <1>1 DEF CatalogTables
<1>3. [cat[x] EXCEPT !.fks = @ \cup {s.fk}] = new
    <2>1. \A t \in CatalogTables :
             [t EXCEPT !.fks = @ \cup {s.fk}] =
                [columns |-> t.columns, key |-> t.key, fks |-> t.fks \cup {s.fk}]
        <3>1. ASSUME NEW t \in CatalogTables, NEW K
              PROVE  [t EXCEPT !.fks = K] = [columns |-> t.columns, key |-> t.key, fks |-> K]
            BY DEF CatalogTables
        <3> QED
            BY <3>1
    <2>2. cat[x] \in CatalogTables
        BY DEF IsCatalog
    <2> QED
        BY <2>1, <2>2
<1>4. d = [cat EXCEPT ![x] = new]
    BY <1>3 DEF AddedKeyIn
<1>5. cat = [u \in DOMAIN cat |-> cat[u]] /\ DOMAIN cat \subseteq STRING
       /\ \A u \in DOMAIN cat : cat[u] \in CatalogTables
    BY DEF IsCatalog
<1>6. /\ new.columns = cat[x].columns /\ new.key = cat[x].key
      /\ new.fks = cat[x].fks \cup {s.fk}
    OBVIOUS
<1> HIDE DEF new
<1>8. /\ DOMAIN d = DOMAIN cat /\ d[x] = new
      /\ \A u \in DOMAIN cat : u # x => d[u] = cat[u]
      /\ d = [u \in DOMAIN cat |-> d[u]]
    BY <1>4, <1>5
<1>9. IsCatalog(d) /\ Elsewhere(cat, d, x)
    BY <1>2, <1>5, <1>8 DEF IsCatalog, Elsewhere
<1>10. CatalogLinks(cat[x], new, s.fk)
    BY <1>6 DEF CatalogLinks
<1> HIDE DEF d
<1>11. CatalogLinks(cat[x], d[x], s.fk)
    BY <1>8, <1>10
<1> QED
    BY <1>8, <1>9, <1>11 DEF d

LEMMA DropTableChanges ==
    ASSUME NEW cat, IsCatalog(cat), NEW x
    PROVE  /\ IsCatalog(WithoutTable(cat, x)) /\ DOMAIN WithoutTable(cat, x) = DOMAIN cat \ {x}
           /\ Elsewhere(cat, WithoutTable(cat, x), x)
    BY DEF IsCatalog, WithoutTable, Elsewhere

-----------------------------------------------------------------------------
(* What a statement does to the model.                                     *)

LEMMA TableHas ==
    ASSUME NEW m \in Seq(ModelTables), NEW i \in DOMAIN m
    PROVE  /\ m[i] \in ModelTables /\ m[i].name \in STRING
           /\ m[i].columns \in Seq(ModelColumns) /\ m[i].primary_key \in Seq(STRING)
           /\ m[i].foreign_keys \in Seq(STRING \X STRING)
<1>1. m[i] \in ModelTables
    OBVIOUS
<1> QED
    BY <1>1 DEF ModelTables

\* The model n is m but for the columns, or the entries, of table k.
ColumnsBecome(m, n, k, columns) ==
    /\ n \in Seq(ModelTables) /\ DOMAIN n = DOMAIN m
    /\ \A i \in DOMAIN m : n[i].name = m[i].name /\ n[i].primary_key = m[i].primary_key
                           /\ n[i].foreign_keys = m[i].foreign_keys
    /\ \A i \in DOMAIN m : i # k => n[i] = m[i]
    /\ n[k].columns = columns

EntriesBecome(m, n, k, entries) ==
    /\ n \in Seq(ModelTables) /\ DOMAIN n = DOMAIN m
    /\ \A i \in DOMAIN m : n[i].name = m[i].name /\ n[i].primary_key = m[i].primary_key
                           /\ n[i].columns = m[i].columns
    /\ \A i \in DOMAIN m : i # k => n[i] = m[i]
    /\ n[k].foreign_keys = entries

LEMMA Replaced ==
    ASSUME NEW m \in Seq(ModelTables), NEW k \in DOMAIN m, NEW t \in ModelTables
    PROVE  LET n == [m EXCEPT ![k] = t]
           IN  /\ n \in Seq(ModelTables) /\ DOMAIN n = DOMAIN m /\ n[k] = t
               /\ \A i \in DOMAIN m : i # k => n[i] = m[i]
    OBVIOUS

LEMMA ColumnsReplaced ==
    ASSUME NEW m \in Seq(ModelTables), NEW k \in DOMAIN m, NEW q \in Seq(ModelColumns)
    PROVE  ColumnsBecome(m, [m EXCEPT ![k].columns = q], k, q)
<1> DEFINE t == [m[k] EXCEPT !.columns = q]
<1>1. m[k] \in ModelTables
    OBVIOUS
<1>2. /\ t \in ModelTables /\ t.columns = q /\ t.name = m[k].name
      /\ t.primary_key = m[k].primary_key /\ t.foreign_keys = m[k].foreign_keys
    BY <1>1 DEF ModelTables
<1>3. [m EXCEPT ![k].columns = q] = [m EXCEPT ![k] = t]
    OBVIOUS
<1> HIDE DEF t
<1> QED
    BY <1>2, <1>3, Replaced DEF ColumnsBecome

LEMMA EntriesReplaced ==
    ASSUME NEW m \in Seq(ModelTables), NEW k \in DOMAIN m, NEW q \in Seq(STRING \X STRING)
    PROVE  EntriesBecome(m, [m EXCEPT ![k].foreign_keys = q], k, q)
<1> DEFINE t == [m[k] EXCEPT !.foreign_keys = q]
<1>1. m[k] \in ModelTables
    OBVIOUS
<1>2. /\ t \in ModelTables /\ t.foreign_keys = q /\ t.name = m[k].name
      /\ t.primary_key = m[k].primary_key /\ t.columns = m[k].columns
    BY <1>1 DEF ModelTables
<1>3. [m EXCEPT ![k].foreign_keys = q] = [m EXCEPT ![k] = t]
    OBVIOUS
<1> HIDE DEF t
<1> QED
    BY <1>2, <1>3, Replaced DEF EntriesBecome

LEMMA CreateApplies ==
    ASSUME NEW m \in Seq(ModelTables), NEW s \in CreateStmts,
           \A i \in DOMAIN s.columns : HasMapping(s.columns[i].type)
    PROVE  /\ AppliedCreate(m, s) \in Seq(ModelTables)
           /\ DOMAIN AppliedCreate(m, s) = DOMAIN m \cup {Len(m) + 1}
           /\ Len(m) + 1 \notin DOMAIN m
           /\ \A i \in DOMAIN m : AppliedCreate(m, s)[i] = m[i]
           /\ AppliedCreate(m, s)[Len(m) + 1] = ModelTable(s)
<1>1. ModelTable(s) \in ModelTables
    BY ModelTableIs
<1>2. \A t \in ModelTables :
         /\ Append(m, t) \in Seq(ModelTables)
         /\ DOMAIN Append(m, t) = DOMAIN m \cup {Len(m) + 1}
         /\ \A i \in DOMAIN m : Append(m, t)[i] = m[i]
         /\ Append(m, t)[Len(m) + 1] = t
    OBVIOUS
<1>3. Len(m) + 1 \notin DOMAIN m
    OBVIOUS
<1> QED
    BY <1>1, <1>2, <1>3 DEF AppliedCreate

LEMMA AddColumnApplies ==
    ASSUME NEW m \in Seq(ModelTables), NEW s, s.table \in STRING, s.column \in ColumnDefs,
           HasMapping(s.column.type), TableMut(m, s.table) # 0
    PROVE  LET k == TableMut(m, s.table)
           IN  /\ k \in DOMAIN m
               /\ ColumnsBecome(m, AppliedAddColumn(m, s), k,
                     Append(m[k].columns, ModelColumn(s.column, ~s.column.notNull)))
<1> DEFINE k == TableMut(m, s.table)
<1>1. k \in DOMAIN m
    BY TableMutFinds
<1>2. ModelColumn(s.column, ~s.column.notNull) \in ModelColumns
    BY ModelColumnType
<1>3. m[k].columns \in Seq(ModelColumns)
    BY <1>1, TableHas
<1>4. Append(m[k].columns, ModelColumn(s.column, ~s.column.notNull)) \in Seq(ModelColumns)
    BY <1>2, <1>3
<1> QED
    BY <1>1, <1>4, ColumnsReplaced DEF AppliedAddColumn

LEMMA DropColumnApplies ==
    ASSUME NEW m \in Seq(ModelTables), NEW s
    PROVE  LET k == TableMut(m, s.table)
           IN  /\ k = 0 => AppliedDropColumn(m, s) = m
               /\ k # 0 => k \in DOMAIN m /\ ColumnsBecome(m, AppliedDropColumn(m, s), k,
                                                Without(m[k].columns, s.name))
<1> DEFINE k == TableMut(m, s.table)
<1>1. k # 0 => k \in DOMAIN m
    BY TableMutFinds
<1>2. ASSUME k # 0 PROVE Without(m[k].columns, s.name) \in Seq(ModelColumns)
    BY <1>1, <1>2, TableHas, WhereType DEF Without
<1> QED
    BY <1>1, <1>2, ColumnsReplaced DEF AppliedDropColumn

LEMMA AddForeignKeyApplies ==
    ASSUME NEW m \in Seq(ModelTables), NEW s, s.fk \in ForeignKeys
    PROVE  LET k == TableMut(m, s.table)
           IN  /\ k = 0 => AppliedAddForeignKey(m, s) = m
               /\ k # 0 => k \in DOMAIN m /\ EntriesBecome(m, AppliedAddForeignKey(m, s), k,
                                                m[k].foreign_keys \o Entries(s.fk))
<1> DEFINE k == TableMut(m, s.table)
<1>1. k # 0 => k \in DOMAIN m
    BY TableMutFinds
<1>2. ASSUME k # 0 PROVE m[k].foreign_keys \o Entries(s.fk) \in Seq(STRING \X STRING)
    BY <1>1, <1>2, TableHas, EntriesType
<1>3. k # 0 => AppliedAddForeignKey(m, s) =
                  [m EXCEPT ![k].foreign_keys = m[k].foreign_keys \o Entries(s.fk)]
    BY DEF AppliedAddForeignKey, Entries
<1>4. k = 0 => AppliedAddForeignKey(m, s) = m
    BY DEF AppliedAddForeignKey
<1> HIDE DEF k
<1> QED
    BY <1>1, <1>2, <1>3, <1>4, EntriesReplaced DEF k

-----------------------------------------------------------------------------
(* Steps.                                                                  *)

LEMMA ByKind ==
    ASSUME NEW cat, NEW b, NEW s, Accepts(cat, b, s)
    PROVE  /\ s.kind = "create" => Executed(cat, b, s) = CreatedIn(cat, b, s) /\ AcceptsCreate(cat, s)
           /\ s.kind = "hatch" =>
                 Executed(cat, b, s) = CreatedIn(cat, b, s.body) /\ AcceptsCreate(cat, s.body)
           /\ s.kind = "add_column" =>
                 Executed(cat, b, s) = AddedIn(cat, b, s) /\ AcceptsAddColumn(cat, b, s)
           /\ s.kind = "drop_column" =>
                 Executed(cat, b, s) = DroppedIn(cat, s) /\ AcceptsDropColumn(cat, b, s)
           /\ s.kind = "add_foreign_key" =>
                 /\ Executed(cat, b, s) = AddedKeyIn(cat, s)
                 /\ s.table \in DOMAIN cat /\ s.fk.parent \in DOMAIN cat
                 /\ ToSet(s.fk.columns) \subseteq ColumnNames(cat[s.table])
           /\ s.kind = "drop_table" =>
                 /\ Executed(cat, b, s) = WithoutTable(cat, s.table)
                 /\ s.table \in DOMAIN cat /\ ~ReferencedByOthers(cat, s.table)
    BY DEF Accepts, Executed, AddedKeyIn

Kinds == {"create", "hatch", "add_column", "drop_column", "add_foreign_key", "drop_table"}

LEMMA ExecutedIsCatalog ==
    ASSUME NEW s \in Statements, NEW cat, IsCatalog(cat), NEW b \in {"postgres", "sqlite"},
           Accepts(cat, b, s)
    PROVE  IsCatalog(Executed(cat, b, s)) /\ s.kind \in Kinds
<1>0. s.kind \in Kinds
    BY DEF Accepts, Kinds
<1>1. CASE s.kind = "create"
    <2>1. Executed(cat, b, s) = CreatedIn(cat, b, s)
        BY <1>1, ByKind
    <2>2. s \in CreateStmts
        BY <1>1, StatementShapes
    <2> QED
        BY <1>0, <2>1, <2>2, CreateChanges
<1>2. CASE s.kind = "hatch"
    <2>1. Executed(cat, b, s) = CreatedIn(cat, b, s.body)
        BY <1>2, ByKind
    <2>2. s.body \in CreateStmts
        BY <1>2, StatementShapes
    <2> QED
        BY <1>0, <2>1, <2>2, CreateChanges
<1>3. CASE s.kind = "add_column"
    <2>0. Executed(cat, b, s) = AddedIn(cat, b, s) /\ AcceptsAddColumn(cat, b, s)
        BY <1>3, ByKind
    <2>1. Executed(cat, b, s) = AddedIn(cat, b, s) /\ s.table \in DOMAIN cat
        BY <2>0 DEF AcceptsAddColumn
    <2>2. s.column \in ColumnDefs
        BY <1>3, StatementShapes
    <2> QED
        BY <1>0, <2>1, <2>2, AddChanges
<1>4. CASE s.kind = "drop_column"
    <2>1. Executed(cat, b, s) = DroppedIn(cat, s) /\ s.table \in DOMAIN cat
        BY <1>4, ByKind DEF AcceptsDropColumn
    <2>2. s.name \in STRING
        BY <1>4, StatementShapes
    <2> QED
        BY <1>0, <2>1, <2>2, DropColumnChanges
<1>5. CASE s.kind = "add_foreign_key"
    <2>1. Executed(cat, b, s) = AddedKeyIn(cat, s) /\ s.table \in DOMAIN cat
        BY <1>5, ByKind
    <2>2. s.fk \in ForeignKeys
        BY <1>5, StatementShapes
    <2> QED
        BY <1>0, <2>1, <2>2, AddForeignKeyChanges
<1>6. CASE s.kind = "drop_table"
    <2>1. Executed(cat, b, s) = WithoutTable(cat, s.table)
        BY <1>6, ByKind
    <2>2. s.table \in STRING
        BY <1>6, StatementShapes
    <2> QED
        BY <1>0, <2>1, <2>2, DropTableChanges
<1> QED
    BY <1>0, <1>1, <1>2, <1>3, <1>4, <1>5, <1>6 DEF Kinds

\* Each database runs the statement, which it accepts.
LEMMA EachRuns ==
    ASSUME TypeOK, NEW s \in Statements, Run(s)
    PROVE  /\ Backends' = Backends /\ Backends # {}
           /\ \A b \in Backends :
                 /\ b \in {"postgres", "sqlite"}
                 /\ IsCatalog(catalog[b]) /\ Accepts(catalog[b], b, s)
                 /\ catalog'[b] = Executed(catalog[b], b, s) /\ IsCatalog(catalog'[b])
           /\ s.kind \in Kinds
<1>1. Backends' = Backends /\ \A b \in Backends : catalog'[b] = Executed(catalog[b], b, s)
    BY DEF Run, Backends
<1>2. Backends # {} /\ Backends \subseteq {"postgres", "sqlite"}
    BY SchemaAssumption DEF TypeOK
<1>3. \A b \in Backends : IsCatalog(catalog[b]) /\ Accepts(catalog[b], b, s)
    BY DEF TypeOK, Run
<1> QED
    BY <1>1, <1>2, <1>3, ExecutedIsCatalog

LEMMA SchemaStarts == Init => TypeOK
<1> SUFFICES ASSUME Init PROVE TypeOK
    OBVIOUS
<1>1. PICK team \in Teams : catalog = [b \in team |-> EmptyCatalog]
    BY DEF Init
<1>2. IsCatalog(EmptyCatalog)
    BY DEF IsCatalog, EmptyCatalog
<1>3. <<>> \in Seq(ModelTables) /\ <<>> \in Seq(Statements)
    OBVIOUS
<1>4. 0 \in 0 .. MaxStatements
    BY SchemaAssumption
<1> QED
    BY <1>1, <1>2, <1>3, <1>4 DEF Init, TypeOK, Backends

LEMMA SchemaTypesStep == TypeOK /\ [Next]_vars => TypeOK'
<1> SUFFICES ASSUME TypeOK, [Next]_vars PROVE TypeOK'
    OBVIOUS
<1>1. ASSUME NEW s \in Statements, Run(s), model' \in Seq(ModelTables),
             hatch' \subseteq STRING, failed' \in BOOLEAN
      PROVE  TypeOK'
    <2>1. Backends' = Backends /\ \A b \in Backends : IsCatalog(catalog'[b])
        BY <1>1, EachRuns
    <2>2. count' \in 0 .. MaxStatements
        BY <1>1, SchemaAssumption DEF Run, TypeOK
    <2>3. current' \in Seq(Statements)
        BY <1>1 DEF Run, TypeOK
    <2>4. before' = before
        BY <1>1 DEF Run
    <2> QED
        BY <1>1, <2>1, <2>2, <2>3, <2>4 DEF TypeOK
<1>2. ASSUME NEW s \in Statements, CreateTable(s) PROVE TypeOK'
    <2>1. model' \in Seq(ModelTables)
        BY <1>2, StatementShapes, CreateApplies DEF CreateTable, IsRefused, TypeOK
    <2> QED
        BY <1>1, <1>2, <2>1 DEF CreateTable, TypeOK
<1>3. ASSUME NEW s \in Statements, AddColumn(s) PROVE TypeOK'
    <2>1. model' \in Seq(ModelTables)
        BY <1>3, StatementShapes, AddColumnApplies DEF AddColumn, IsRefused, TypeOK, ColumnsBecome
    <2> QED
        BY <1>1, <1>3, <2>1 DEF AddColumn, TypeOK
<1>4. ASSUME NEW s \in Statements, DropColumn(s) PROVE TypeOK'
    <2>1. model' \in Seq(ModelTables)
        BY <1>4, DropColumnApplies DEF DropColumn, TypeOK, ColumnsBecome
    <2> QED
        BY <1>1, <1>4, <2>1 DEF DropColumn, TypeOK
<1>5. ASSUME NEW s \in Statements, AddForeignKey(s) PROVE TypeOK'
    <2>1. model' \in Seq(ModelTables)
        BY <1>5, StatementShapes, AddForeignKeyApplies DEF AddForeignKey, TypeOK, EntriesBecome
    <2> QED
        BY <1>1, <1>5, <2>1 DEF AddForeignKey, TypeOK
<1>6. ASSUME NEW s \in Statements, DropTable(s) \/ Refuse(s) PROVE TypeOK'
    BY <1>1, <1>6 DEF DropTable, Refuse, TypeOK
<1>7. ASSUME NEW s \in Statements, EscapeHatch(s) PROVE TypeOK'
    <2>1. hatch' \subseteq STRING
        BY <1>7, StatementShapes DEF EscapeHatch, TypeOK, CreateStmts
    <2> QED
        BY <1>1, <1>7, <2>1 DEF EscapeHatch, TypeOK
<1>8. CASE NextMigration
    <2>1. /\ model' = model /\ catalog' = catalog /\ before' = catalog /\ hatch' = hatch
          /\ count' = count /\ failed' = failed /\ current' = <<>>
        BY <1>8 DEF NextMigration
    <2>2. <<>> \in Seq(Statements)
        OBVIOUS
    <2> QED
        BY <2>1, <2>2 DEF TypeOK, Backends
<1>9. CASE UNCHANGED vars
    BY <1>9 DEF vars, TypeOK, Backends
<1> QED
    BY <1>2, <1>3, <1>4, <1>5, <1>6, <1>7, <1>8, <1>9 DEF Next

\* Every part of the state has its type, whatever the vocabulary.
THEOREM SchemaTypesHold == Spec => []TypeOK
    BY SchemaStarts, SchemaTypesStep, PTL DEF Spec

-----------------------------------------------------------------------------
(* The derived down.sql. *)

\* The function that RunDown computes, up to its n-th name.
Downs(f, cat, names, n) ==
    f = [k \in 0 .. n |-> IF k = 0 THEN [ok |-> TRUE, cat |-> cat]
                          ELSE DropIfExists(f[k - 1], names[k])]

LEMMA DownsExists ==
    ASSUME NEW cat, NEW names
    PROVE  \A n \in Nat : \E f : Downs(f, cat, names, n)
<1> DEFINE P == {n \in Nat : \E f : Downs(f, cat, names, n)}
<1>1. 0 \in P
    <2> DEFINE f == [k \in 0 .. 0 |-> [ok |-> TRUE, cat |-> cat]]
    <2>1. \A k \in 0 .. 0 : k = 0
        OBVIOUS
    <2>2. Downs(f, cat, names, 0)
        BY <2>1 DEF Downs
    <2> QED
        BY <2>2
<1>2. ASSUME NEW n \in Nat, n \in P PROVE n + 1 \in P
    <2>1. PICK f : Downs(f, cat, names, n)
        BY <1>2
    <2> DEFINE Next1(k) == DropIfExists(f[k - 1], names[k])
               g == [k \in 0 .. n + 1 |-> IF k = n + 1 THEN Next1(k) ELSE f[k]]
    <2>2. \A k \in 0 .. n : f[k] = IF k = 0 THEN [ok |-> TRUE, cat |-> cat] ELSE Next1(k)
        BY <2>1 DEF Downs
    <2>3. \A k \in 0 .. n : k \in 0 .. n + 1 /\ k # n + 1
        OBVIOUS
    <2> HIDE DEF Next1
    <2>4. \A k \in 0 .. n : g[k] = f[k]
        BY <2>3
    <2>5. \A k \in 0 .. n + 1 : k # 0 => k - 1 \in 0 .. n
        OBVIOUS
    <2>6. \A k \in 0 .. n + 1 :
             (IF k = n + 1 THEN Next1(k) ELSE f[k]) =
                IF k = 0 THEN [ok |-> TRUE, cat |-> cat] ELSE DropIfExists(g[k - 1], names[k])
        <3> SUFFICES ASSUME NEW k \in 0 .. n + 1
                     PROVE  (IF k = n + 1 THEN Next1(k) ELSE f[k]) =
                               IF k = 0 THEN [ok |-> TRUE, cat |-> cat]
                               ELSE DropIfExists(g[k - 1], names[k])
            OBVIOUS
        <3> HIDE DEF g
        <3>1. CASE k = 0
            <4>1. k # n + 1 /\ k \in 0 .. n
                BY <3>1
            <4> QED
                BY <2>2, <3>1, <4>1
        <3>2. CASE k # 0
            <4>1. DropIfExists(g[k - 1], names[k]) = Next1(k)
                BY <2>4, <2>5, <3>2 DEF Next1
            <4>2. k # n + 1 => k \in 0 .. n
                OBVIOUS
            <4> QED
                BY <2>2, <3>2, <4>1, <4>2
        <3> QED
            BY <3>1, <3>2
    <2>7. Downs(g, cat, names, n + 1)
        BY <2>6, Zenon DEF Downs
    <2> QED
        BY <2>7
<1>3. Nat \subseteq P
    BY <1>1, <1>2, AllNumbers
<1> QED
    BY <1>3

LEMMA RunDownIs ==
    ASSUME NEW cat, NEW T, NEW names \in Seq(T)
    PROVE  \E f : Downs(f, cat, names, Len(names)) /\ RunDown(cat, names) = f[Len(names)]
<1> DEFINE f == CHOOSE run : run = [k \in 0 .. Len(names) |->
                                      IF k = 0 THEN [ok |-> TRUE, cat |-> cat]
                                      ELSE DropIfExists(run[k - 1], names[k])]
<1>1. \E g : Downs(g, cat, names, Len(names))
    <2>1. Len(names) \in Nat
        OBVIOUS
    <2> QED
        BY <2>1, DownsExists
<1>2. Downs(f, cat, names, Len(names))
    BY <1>1 DEF Downs
<1>3. RunDown(cat, names) = f[Len(names)]
    BY DEF RunDown
<1> QED
    BY <1>2, <1>3

\* With no name it drops nothing.
LEMMA RunDownNothing ==
    ASSUME NEW cat
    PROVE  RunDown(cat, <<>>) = [ok |-> TRUE, cat |-> cat]
<1>1. <<>> \in Seq(STRING) /\ Len(<<>>) = 0
    OBVIOUS
<1>2. PICK f : Downs(f, cat, <<>>, 0) /\ RunDown(cat, <<>>) = f[0]
    BY <1>1, RunDownIs
<1>3. f[0] = [ok |-> TRUE, cat |-> cat]
    BY <1>2 DEF Downs
<1> QED
    BY <1>2, <1>3

LEMMA Prefixed ==
    ASSUME NEW T, NEW x \in T, NEW q \in Seq(T)
    PROVE  /\ <<x>> \o q \in Seq(T) /\ Len(<<x>> \o q) = Len(q) + 1 /\ Len(q) \in Nat
           /\ (<<x>> \o q)[1] = x
           /\ \A k \in 1 .. Len(q) : (<<x>> \o q)[k + 1] = q[k]
<1>1. <<x>> \in Seq(T) /\ Len(<<x>>) = 1 /\ <<x>>[1] = x
    OBVIOUS
<1>2. <<x>> \o q \in Seq(T) /\ Len(<<x>> \o q) = Len(q) + 1 /\ Len(q) \in Nat
    BY <1>1
<1>3. \A i \in 1 .. Len(q) + 1 :
         (<<x>> \o q)[i] = IF i <= 1 THEN <<x>>[i] ELSE q[i - 1]
    BY <1>1, <1>2
<1>4. 1 \in 1 .. Len(q) + 1
    BY <1>2
<1>5. ASSUME NEW k \in 1 .. Len(q) PROVE (<<x>> \o q)[k + 1] = q[k]
    <2>1. k + 1 \in 1 .. Len(q) + 1 /\ ~(k + 1 <= 1) /\ (k + 1) - 1 = k
        BY <1>2
    <2> QED
        BY <1>3, <2>1
<1> QED
    BY <1>1, <1>2, <1>3, <1>4, <1>5

\* A table that no other references goes first, and the rest runs on without it.
LEMMA RunDownFirst ==
    ASSUME NEW cat, NEW T, NEW x \in T, NEW names \in Seq(T),
           x \in DOMAIN cat, ~ReferencedByOthers(cat, x)
    PROVE  RunDown(cat, <<x>> \o names) = RunDown(WithoutTable(cat, x), names)
<1> DEFINE n   == Len(names)
           all == <<x>> \o names
<1>1. /\ all \in Seq(T) /\ Len(all) = n + 1 /\ n \in Nat
      /\ all[1] = x /\ \A k \in 1 .. n : all[k + 1] = names[k]
    BY Prefixed
<1> HIDE DEF all
<1>2. PICK f : Downs(f, cat, all, n + 1) /\ RunDown(cat, all) = f[n + 1]
    BY <1>1, RunDownIs
<1>3. PICK g : Downs(g, WithoutTable(cat, x), names, n)
               /\ RunDown(WithoutTable(cat, x), names) = g[n]
    BY RunDownIs
<1> HIDE DEF n
<1>4. \A k \in 0 .. n + 1 : f[k] = IF k = 0 THEN [ok |-> TRUE, cat |-> cat]
                                   ELSE DropIfExists(f[k - 1], all[k])
    BY <1>2 DEF Downs
<1>5. \A k \in 0 .. n : g[k] = IF k = 0 THEN [ok |-> TRUE, cat |-> WithoutTable(cat, x)]
                               ELSE DropIfExists(g[k - 1], names[k])
    BY <1>3 DEF Downs
<1> DEFINE P == {k \in Nat : k <= n => f[k + 1] = g[k]}
<1>6. 0 \in P
    <2>0. 0 \in 0 .. n + 1 /\ 0 \in 0 .. n
        BY <1>1
    <2>1. f[0] = [ok |-> TRUE, cat |-> cat]
        BY <1>4, <2>0, Zenon
    <2>2. f[1] = DropIfExists(f[0], x)
        <3>1. 1 \in 0 .. n + 1 /\ 1 - 1 = 0
            BY <1>1
        <3> QED
            BY <1>1, <1>4, <3>1
    <2>3. f[0].ok /\ f[0].cat = cat
        BY <2>1
    <2>4. DropIfExists(f[0], x) = [ok |-> ~ReferencedByOthers(cat, x), cat |-> WithoutTable(cat, x)]
        BY <2>3 DEF DropIfExists
    <2>5. (~ReferencedByOthers(cat, x)) = TRUE
        OBVIOUS
    <2>6. g[0] = [ok |-> TRUE, cat |-> WithoutTable(cat, x)]
        BY <1>5, <2>0, Zenon
    <2>7. f[1] = g[0]
        BY <2>2, <2>4, <2>5, <2>6
    <2> QED
        BY <2>7
<1>7. ASSUME NEW k \in Nat, k \in P PROVE k + 1 \in P
    <2> SUFFICES ASSUME k + 1 <= n PROVE f[(k + 1) + 1] = g[k + 1]
        OBVIOUS
    <2>1. /\ (k + 1) + 1 \in 0 .. n + 1 /\ (k + 1) + 1 # 0 /\ ((k + 1) + 1) - 1 = k + 1
          /\ k + 1 \in 0 .. n /\ k + 1 # 0 /\ (k + 1) - 1 = k
          /\ k + 1 \in 1 .. n /\ k <= n
        BY <1>1
    <2>2. f[(k + 1) + 1] = DropIfExists(f[k + 1], all[(k + 1) + 1])
        BY <1>4, <2>1
    <2>3. g[k + 1] = DropIfExists(g[k], names[k + 1])
        BY <1>5, <2>1
    <2>4. f[k + 1] = g[k] /\ all[(k + 1) + 1] = names[k + 1]
        BY <1>1, <1>7, <2>1
    <2> QED
        BY <2>2, <2>3, <2>4
<1>8. n \in P
    BY <1>1, <1>6, <1>7, AllNumbers
<1> QED
    BY <1>1, <1>2, <1>3, <1>8 DEF all

Tables(U) == {u.table : u \in U}

AllCreate(stmts) == \A i \in DOMAIN stmts : stmts[i].kind = "create"

LEMMA DeriveDownIs ==
    ASSUME NEW U, NEW stmts \in Seq(U), AllCreate(stmts)
    PROVE  DeriveDown(stmts) = [i \in 1 .. Len(stmts) |-> stmts[(Len(stmts) - i) + 1].table]
<1>1. Created(stmts) = stmts
    <2>1. \A i \in DOMAIN stmts : stmts[i] \in {s \in ToSet(stmts) : s.kind = "create"}
        BY DEF AllCreate, ToSet
    <2> QED
        BY <2>1, WhereAll DEF Created
<1> DEFINE names == [i \in DOMAIN stmts |-> stmts[i].table]
<1>2. DeriveDown(stmts) = Reverse(names)
    BY <1>1 DEF DeriveDown
<1>3. DOMAIN stmts = 1 .. Len(stmts) /\ Len(stmts) \in Nat
    OBVIOUS
<1>4. Len(names) = Len(stmts)
    BY <1>3
<1>5. \A i \in 1 .. Len(stmts) : (Len(stmts) - i) + 1 \in DOMAIN stmts
    BY <1>3
<1>6. \A i \in 1 .. Len(stmts) : names[(Len(stmts) - i) + 1] = stmts[(Len(stmts) - i) + 1].table
    BY <1>5
<1> HIDE DEF names
<1> QED
    BY <1>2, <1>4, <1>6 DEF Reverse

\* The statement written last comes first in it.
LEMMA DeriveDownAppend ==
    ASSUME NEW U, NEW stmts \in Seq(U), NEW s \in U, AllCreate(Append(stmts, s))
    PROVE  /\ AllCreate(stmts)
           /\ DeriveDown(stmts) \in Seq(Tables(U))
           /\ DeriveDown(Append(stmts, s)) = <<s.table>> \o DeriveDown(stmts)
<1> DEFINE n    == Len(stmts)
           more == Append(stmts, s)
           d    == DeriveDown(stmts)
           e    == DeriveDown(more)
<1>1. /\ more \in Seq(U) /\ Len(more) = n + 1 /\ n \in Nat
      /\ \A i \in 1 .. n : more[i] = stmts[i] /\ i \in DOMAIN more
      /\ more[n + 1] = s /\ DOMAIN stmts = 1 .. n
    OBVIOUS
<1> HIDE DEF more, n
<1>2. AllCreate(stmts) /\ AllCreate(more)
    BY <1>1 DEF AllCreate, more
<1>3. d = [i \in 1 .. n |-> stmts[(n - i) + 1].table]
    BY <1>2, DeriveDownIs DEF n
<1>4. e = [i \in 1 .. n + 1 |-> more[((n + 1) - i) + 1].table]
    <2>1. more \in Seq(U) /\ AllCreate(more) /\ Len(more) = n + 1
        BY <1>1, <1>2
    <2>2. e = [i \in 1 .. Len(more) |-> more[(Len(more) - i) + 1].table]
        BY <2>1, DeriveDownIs
    <2> QED
        BY ONLY <2>1, <2>2, Zenon
<1> HIDE DEF d, e
<1>5. \A i \in 1 .. n : (n - i) + 1 \in 1 .. n
    BY <1>1
<1>6. \A i \in 1 .. n : stmts[i].table \in Tables(U)
    BY <1>1 DEF Tables
<1>7. \A i \in 1 .. n : stmts[(n - i) + 1].table \in Tables(U)
    BY <1>5, <1>6
<1>8. d \in Seq(Tables(U)) /\ Len(d) = n
    BY <1>1, <1>3, <1>7
<1>9. s.table \in Tables(U)
    BY DEF Tables
<1> DEFINE f == <<s.table>> \o d
<1>10. /\ f \in Seq(Tables(U)) /\ Len(f) = n + 1 /\ f[1] = s.table
       /\ \A k \in 1 .. n : f[k + 1] = d[k]
    BY <1>8, <1>9, Prefixed
<1> HIDE DEF f
<1>11. ASSUME NEW i \in 1 .. n + 1 PROVE e[i] = f[i]
    <2>1. CASE i = 1
        <3>1. ((n + 1) - 1) + 1 = n + 1 /\ 1 \in 1 .. n + 1
            BY <1>1
        <3> QED
            BY <1>1, <1>4, <1>10, <2>1, <3>1
    <2>2. CASE i # 1
        <3> DEFINE k == i - 1
        <3>1. /\ k \in 1 .. n /\ k + 1 = i
              /\ ((n + 1) - i) + 1 = (n - k) + 1 /\ (n - k) + 1 \in 1 .. n
            BY <1>1, <2>2
        <3> HIDE DEF k
        <3>2. f[i] = d[k]
            BY <1>10, <3>1
        <3>3. d[k] = stmts[(n - k) + 1].table
            BY <1>3, <3>1
        <3>4. e[i] = more[((n + 1) - i) + 1].table
            BY <1>4
        <3> QED
            BY <1>1, <3>1, <3>2, <3>3, <3>4
    <2> QED
        BY <2>1, <2>2
<1>12. \A i \in 1 .. n + 1 : e[i] \in Tables(U)
    <2>1. \A i \in 1 .. n + 1 : f[i] \in Tables(U)
        BY <1>10
    <2> QED
        BY <1>11, <2>1
<1>13. e \in Seq(Tables(U)) /\ Len(e) = n + 1
    BY <1>1, <1>4, <1>12
<1>14. e = f
    BY <1>10, <1>11, <1>13, SameSequence
<1> QED
    BY <1>2, <1>8, <1>14 DEF d, e, f, more

\* A foreign key's parent is there.
Whole(cat) == \A u \in DOMAIN cat : \A fk \in cat[u].fks : fk.parent \in DOMAIN cat

LEMMA CreatedWhole ==
    ASSUME NEW cat, IsCatalog(cat), Whole(cat), NEW b \in {"postgres", "sqlite"},
           NEW s \in CreateStmts, AcceptsCreate(cat, s)
    PROVE  Whole(CreatedIn(cat, b, s))
<1> DEFINE d == CreatedIn(cat, b, s)
<1>1. /\ DOMAIN d = DOMAIN cat \cup {s.table} /\ d[s.table] = CatalogTable(s, b)
      /\ \A u \in DOMAIN cat \ {s.table} : d[u] = cat[u]
    BY CreateChanges DEF Elsewhere
<1>2. ASSUME NEW fk \in CatalogTable(s, b).fks PROVE fk.parent \in DOMAIN cat \cup {s.table}
    <2>1. \/ \E i \in DOMAIN References(s) :
                fk = ForeignKey(<<References(s)[i].name>>, References(s)[i].ref)
          \/ \E i \in DOMAIN s.fks : fk = s.fks[i]
        BY CatalogTableIs DEF ToSet
    <2> QED
        BY <2>1 DEF AcceptsCreate, ForeignKey
<1> HIDE DEF d
<1> QED
    BY <1>1, <1>2 DEF Whole, d

LEMMA ExecutedWhole ==
    ASSUME NEW s \in Statements, NEW cat, IsCatalog(cat), Whole(cat),
           NEW b \in {"postgres", "sqlite"}, Accepts(cat, b, s)
    PROVE  Whole(Executed(cat, b, s))
<1>0. s.kind \in Kinds
    BY ExecutedIsCatalog
<1>1. CASE s.kind = "create"
    <2>1. Executed(cat, b, s) = CreatedIn(cat, b, s) /\ AcceptsCreate(cat, s)
        BY <1>1, ByKind
    <2>2. s \in CreateStmts
        BY <1>1, StatementShapes
    <2> QED
        BY <2>1, <2>2, CreatedWhole
<1>2. CASE s.kind = "hatch"
    <2>1. Executed(cat, b, s) = CreatedIn(cat, b, s.body) /\ AcceptsCreate(cat, s.body)
        BY <1>2, ByKind
    <2>2. s.body \in CreateStmts
        BY <1>2, StatementShapes
    <2> QED
        BY <2>1, <2>2, CreatedWhole
<1>3. CASE s.kind = "add_column"
    <2>1. Executed(cat, b, s) = AddedIn(cat, b, s) /\ AcceptsAddColumn(cat, b, s)
        BY <1>3, ByKind
    <2>2. s.table \in DOMAIN cat /\ s.column.ref \in DOMAIN cat \cup {NoTable}
        BY <2>1 DEF AcceptsAddColumn
    <2>3. s.column \in ColumnDefs
        BY <1>3, StatementShapes
    <2> DEFINE d == AddedIn(cat, b, s)
    <2>6. /\ DOMAIN d = DOMAIN cat /\ Elsewhere(cat, d, s.table)
          /\ CatalogGains(cat[s.table], d[s.table], s.column, b)
        BY <2>2, <2>3, AddChanges
    <2>4. /\ DOMAIN d = DOMAIN cat /\ \A u \in DOMAIN cat \ {s.table} : d[u] = cat[u]
          /\ \A fk \in d[s.table].fks :
                fk \in cat[s.table].fks \/ (s.column.ref # NoTable /\ fk.parent = s.column.ref)
        BY <2>6 DEF Elsewhere, CatalogGains
    <2> HIDE DEF d
    <2>5. Whole(d)
        BY <2>2, <2>4 DEF Whole
    <2> QED
        BY <2>1, <2>5 DEF d
<1>4. CASE s.kind = "drop_column"
    <2>1. Executed(cat, b, s) = DroppedIn(cat, s) /\ AcceptsDropColumn(cat, b, s)
        BY <1>4, ByKind
    <2>2. s.table \in DOMAIN cat
        BY <2>1 DEF AcceptsDropColumn
    <2> DEFINE d == DroppedIn(cat, s)
    <2>3. /\ DOMAIN d = DOMAIN cat /\ \A u \in DOMAIN cat \ {s.table} : d[u] = cat[u]
          /\ d[s.table].fks \subseteq cat[s.table].fks
        BY <2>2, DropColumnChanges DEF Elsewhere, CatalogLoses
    <2> HIDE DEF d
    <2>4. Whole(d)
        BY <2>2, <2>3 DEF Whole
    <2> QED
        BY <2>1, <2>4 DEF d
<1>5. CASE s.kind = "add_foreign_key"
    <2>1. /\ Executed(cat, b, s) = AddedKeyIn(cat, s)
          /\ s.table \in DOMAIN cat /\ s.fk.parent \in DOMAIN cat
        BY <1>5, ByKind
    <2>2. s.fk \in ForeignKeys
        BY <1>5, StatementShapes
    <2> DEFINE d == AddedKeyIn(cat, s)
    <2>3. /\ DOMAIN d = DOMAIN cat /\ \A u \in DOMAIN cat \ {s.table} : d[u] = cat[u]
          /\ d[s.table].fks = cat[s.table].fks \cup {s.fk}
        BY <2>1, <2>2, AddForeignKeyChanges DEF Elsewhere, CatalogLinks
    <2> HIDE DEF d
    <2>4. Whole(d)
        BY <2>1, <2>3 DEF Whole
    <2> QED
        BY <2>1, <2>4 DEF d
<1>6. CASE s.kind = "drop_table"
    <2>1. /\ Executed(cat, b, s) = WithoutTable(cat, s.table)
          /\ ~ReferencedByOthers(cat, s.table)
        BY <1>6, ByKind
    <2> DEFINE d == WithoutTable(cat, s.table)
    <2>2. DOMAIN d = DOMAIN cat \ {s.table} /\ \A u \in DOMAIN d : d[u] = cat[u]
        BY DEF WithoutTable
    <2> HIDE DEF d
    <2>3. Whole(d)
        BY <2>1, <2>2 DEF Whole, ReferencedByOthers
    <2> QED
        BY <2>1, <2>3 DEF d
<1> QED
    BY <1>0, <1>1, <1>2, <1>3, <1>4, <1>5, <1>6 DEF Kinds

\* The down of a migration and of the CREATE TABLE that follows it.
LEMMA DownUndoesOneMore ==
    ASSUME NEW U, NEW stmts \in Seq(U), NEW s \in U, AllCreate(Append(stmts, s)),
           s \in CreateStmts, NEW b \in {"postgres", "sqlite"},
           NEW cat, IsCatalog(cat), Whole(cat), AcceptsCreate(cat, s)
    PROVE  RunDown(CreatedIn(cat, b, s), DeriveDown(Append(stmts, s))) =
              RunDown(cat, DeriveDown(stmts))
<1> DEFINE d == CreatedIn(cat, b, s)
           x == s.table
           names == DeriveDown(stmts)
<1>1. DeriveDown(Append(stmts, s)) = <<x>> \o names /\ names \in Seq(Tables(U))
    BY DeriveDownAppend
<1>2. x \in Tables(U)
    BY DEF Tables
<1>3. x \notin DOMAIN cat
    BY DEF AcceptsCreate
<1>9. DOMAIN d = DOMAIN cat \cup {x} /\ Elsewhere(cat, d, x)
    BY CreateChanges
<1> HIDE DEF d
<1>4. DOMAIN d = DOMAIN cat \cup {x} /\ \A u \in DOMAIN cat : d[u] = cat[u]
    BY <1>3, <1>9 DEF Elsewhere
<1>5. ~ReferencedByOthers(d, x)
    BY <1>3, <1>4 DEF ReferencedByOthers, Whole
<1>6. WithoutTable(d, x) = cat
    <2>1. WithoutTable(d, x) = [u \in DOMAIN cat |-> d[u]]
        BY <1>3, <1>4 DEF WithoutTable
    <2>2. [u \in DOMAIN cat |-> d[u]] = [u \in DOMAIN cat |-> cat[u]]
        BY <1>4
    <2>3. cat = [u \in DOMAIN cat |-> cat[u]]
        BY DEF IsCatalog
    <2> QED
        BY <2>1, <2>2, <2>3
<1>7. x \in DOMAIN d
    BY <1>4
<1> HIDE DEF x, names
<1>8. RunDown(d, <<x>> \o names) = RunDown(WithoutTable(d, x), names)
    BY ONLY <1>1, <1>2, <1>5, <1>7, RunDownFirst
<1> QED
    BY <1>1, <1>6, <1>8 DEF d, x, names

\* What a migration of CREATE TABLEs has done is undone by its down, and every
\* foreign key has a parent: without the second the first is not inductive.
SchemaInv ==
    /\ TypeOK
    /\ \A b \in Backends : Whole(catalog[b])
    /\ AllCreate(current) => \A b \in Backends :
          RunDown(catalog[b], DeriveDown(current)) = [ok |-> TRUE, cat |-> before[b]]

LEMMA NothingToUndo ==
    ASSUME NEW cat
    PROVE  RunDown(cat, DeriveDown(<<>>)) = [ok |-> TRUE, cat |-> cat]
<1>1. Created(<<>>) = <<>>
    BY WhereNothing DEF Created
<1>2. [i \in DOMAIN <<>> |-> <<>>[i].table] = <<>>
    OBVIOUS
<1>3. DeriveDown(<<>>) = Reverse(<<>>)
    BY <1>1, <1>2 DEF DeriveDown
<1>4. Reverse(<<>>) = <<>>
    BY DEF Reverse
<1> QED
    BY <1>3, <1>4, RunDownNothing

LEMMA RunKeeps ==
    ASSUME SchemaInv, NEW s \in Statements, Run(s), TypeOK'
    PROVE  SchemaInv'
<1>1. /\ Backends' = Backends
      /\ \A b \in Backends :
            /\ b \in {"postgres", "sqlite"}
            /\ IsCatalog(catalog[b]) /\ Accepts(catalog[b], b, s)
            /\ catalog'[b] = Executed(catalog[b], b, s)
    BY EachRuns DEF SchemaInv
<1>2. \A b \in Backends : Whole(catalog[b])
    BY DEF SchemaInv
<1>3. \A b \in Backends : Whole(catalog'[b])
    BY <1>1, <1>2, ExecutedWhole
<1>4. ASSUME AllCreate(current'), NEW b \in Backends
      PROVE  RunDown(catalog'[b], DeriveDown(current')) = [ok |-> TRUE, cat |-> before[b]]
    <2>1. current \in Seq(Statements) /\ current' = Append(current, s)
        BY DEF SchemaInv, TypeOK, Run
    <2>2. AllCreate(current) /\ s.kind = "create"
        <3>1. /\ Len(current') = Len(current) + 1 /\ current'[Len(current) + 1] = s
              /\ Len(current) + 1 \in DOMAIN current'
            BY <2>1
        <3> QED
            BY <1>4, <2>1, <3>1, DeriveDownAppend DEF AllCreate
    <2>3. s \in CreateStmts
        BY <2>2, StatementShapes
    <2>4. catalog'[b] = CreatedIn(catalog[b], b, s) /\ AcceptsCreate(catalog[b], s)
        <3>1. Accepts(catalog[b], b, s) /\ catalog'[b] = Executed(catalog[b], b, s)
            BY <1>1
        <3>2. Executed(catalog[b], b, s) = CreatedIn(catalog[b], b, s) /\ AcceptsCreate(catalog[b], s)
            BY <2>2, <3>1, ByKind
        <3> QED
            BY <3>1, <3>2
    <2>5. RunDown(CreatedIn(catalog[b], b, s), DeriveDown(Append(current, s))) =
             RunDown(catalog[b], DeriveDown(current))
        BY <1>1, <1>2, <1>4, <2>1, <2>3, <2>4, DownUndoesOneMore
    <2>6. RunDown(catalog[b], DeriveDown(current)) = [ok |-> TRUE, cat |-> before[b]]
        BY <2>2 DEF SchemaInv
    <2> QED
        BY <2>1, <2>4, <2>5, <2>6
<1>5. before' = before
    BY DEF Run
<1> QED
    BY <1>1, <1>3, <1>4, <1>5 DEF SchemaInv

\* The invariant, whatever the vocabulary and however long the history.
THEOREM SchemaInvHolds == Spec => []SchemaInv
<1>1. Init => SchemaInv
    <2> SUFFICES ASSUME Init, TypeOK PROVE SchemaInv
        BY SchemaStarts
    <2>1. PICK team \in Teams : catalog = [b \in team |-> EmptyCatalog]
        BY DEF Init
    <2>2. Backends = team /\ before = catalog /\ current = <<>>
        BY <2>1 DEF Init, Backends
    <2>3. \A b \in Backends : catalog[b] = EmptyCatalog
        BY <2>1, <2>2
    <2>4. Whole(EmptyCatalog)
        BY DEF Whole, EmptyCatalog
    <2> QED
        BY <2>2, <2>3, <2>4, NothingToUndo DEF SchemaInv
<1>2. SchemaInv /\ [Next]_vars => SchemaInv'
    <2> SUFFICES ASSUME SchemaInv, [Next]_vars PROVE SchemaInv'
        OBVIOUS
    <2>1. TypeOK'
        BY SchemaTypesStep DEF SchemaInv
    <2>2. CASE \E s \in Statements : Run(s)
        BY <2>1, <2>2, RunKeeps
    <2>3. CASE NextMigration
        <3>1. catalog' = catalog /\ before' = catalog /\ current' = <<>>
            BY <2>3 DEF NextMigration
        <3>2. Backends' = Backends /\ \A b \in Backends : Whole(catalog'[b])
            BY <3>1 DEF SchemaInv, Backends
        <3>3. \A b \in Backends :
                 RunDown(catalog[b], DeriveDown(<<>>)) = [ok |-> TRUE, cat |-> catalog[b]]
            BY NothingToUndo
        <3> QED
            BY <2>1, <3>1, <3>2, <3>3 DEF SchemaInv
    <2>4. CASE UNCHANGED vars
        <3>1. catalog' = catalog /\ before' = before /\ current' = current
            BY <2>4 DEF vars
        <3> QED
            BY <2>1, <3>1 DEF SchemaInv, Backends
    <2>5. [Next]_vars => (\E s \in Statements : Run(s)) \/ NextMigration \/ UNCHANGED vars
        BY DEF Next, CreateTable, AddColumn, DropColumn, AddForeignKey, DropTable, EscapeHatch,
               Refuse
    <2> QED
        BY <2>2, <2>3, <2>4, <2>5
<1> QED
    BY <1>1, <1>2, PTL DEF Spec

\* Whatever foreign keys its tables hold, a migration of shared CREATE TABLEs
\* is undone by the derived down.sql on every database.
THEOREM DownAlwaysUndoesCreates == Spec => []DownUndoesCreates
<1>1. SchemaInv => DownUndoesCreates
    <2> SUFFICES ASSUME SchemaInv, \A i \in DOMAIN current : current[i].kind = "create",
                        NEW b \in Backends
                 PROVE  LET down == RunDown(catalog[b], DeriveDown(current))
                        IN  down.ok /\ down.cat = before[b]
        BY DEF DownUndoesCreates
    <2>1. RunDown(catalog[b], DeriveDown(current)) = [ok |-> TRUE, cat |-> before[b]]
        BY DEF SchemaInv, AllCreate
    <2> QED
        BY <2>1
<1> QED
    BY <1>1, SchemaInvHolds, PTL

-----------------------------------------------------------------------------
(* What a table of the model and the one of the catalogs have in common.   *)

Alike(t, u) ==
    /\ Len(t.columns) = Len(u.columns)
    /\ \A i \in DOMAIN t.columns : t.columns[i].name = u.columns[i].name

\* TableFits, with the key that makes it inductive.
Fits(t, u, b) ==
    /\ t.primary_key = u.key
    /\ \E s \in Statements : s.kind = "create" /\ s.table = t.name /\ u.key = KeyOf(s)
    /\ \A i \in DOMAIN t.columns : ColumnFits(t.columns[i], u.columns[i], b)

Linked(t, u) ==
    \A fk \in u.fks : \E e \in ToSet(t.foreign_keys) : e[2] = fk.parent

Has(t, column) == \E i \in DOMAIN t.columns : t.columns[i].name = column

Joined(t) ==
    \A e \in ToSet(t.foreign_keys) : Has(t, e[1]) /\ RefersFrom(t.name, e[1])

Pair(t, u, b) ==
    /\ Alike(t, u)
    /\ KeysStay /\ KeysNotNull => Fits(t, u, b)
    /\ NoReferenceAdded => Linked(t, u)
    /\ ReferencesStay => Joined(t)

\* The entries of a CREATE TABLE are the foreign keys that the databases take.
LEMMA CreatedEntries ==
    ASSUME NEW s \in CreateStmts
    PROVE  /\ \A e \in ToSet(OwnEntries(s) \o KeyEntries(s)) :
                 \/ \E k \in DOMAIN s.columns :
                       e[1] = s.columns[k].name /\ \E i \in DOMAIN References(s) : e[2] = References(s)[i].ref
                 \/ \E i \in DOMAIN s.fks : Contains(s.fks[i].columns, e[1]) /\ e[2] = s.fks[i].parent
           /\ \A i \in DOMAIN References(s) :
                 \E e \in ToSet(OwnEntries(s) \o KeyEntries(s)) : e[2] = References(s)[i].ref
           /\ \A i \in DOMAIN s.fks :
                 \E e \in ToSet(OwnEntries(s) \o KeyEntries(s)) : e[2] = s.fks[i].parent
<1> DEFINE own == OwnEntries(s)
           key == KeyEntries(s)
<1>1. ToSet(own \o key) = ToSet(own) \cup ToSet(key)
    BY OwnEntriesType, KeyEntriesType, ConcatElements
<1>2. ToSet(key) = UNION {ToSet(Entries(s.fks[i])) : i \in DOMAIN s.fks}
    BY KeyEntriesType
<1>3. s.fks \in Seq(ForeignKeys)
    BY DEF CreateStmts
<1>4. \A i \in DOMAIN s.fks :
         /\ \A e \in ToSet(Entries(s.fks[i])) :
               Contains(s.fks[i].columns, e[1]) /\ e[2] = s.fks[i].parent
         /\ \E e \in ToSet(Entries(s.fks[i])) : e[2] = s.fks[i].parent
    <2>1. ASSUME NEW i \in DOMAIN s.fks
          PROVE  /\ \A e \in ToSet(Entries(s.fks[i])) :
                       Contains(s.fks[i].columns, e[1]) /\ e[2] = s.fks[i].parent
                 /\ \E e \in ToSet(Entries(s.fks[i])) : e[2] = s.fks[i].parent
        <3>1. s.fks[i] \in ForeignKeys
            BY <1>3
        <3>2. /\ \A j \in DOMAIN Entries(s.fks[i]) :
                    /\ Contains(s.fks[i].columns, Entries(s.fks[i])[j][1])
                    /\ Entries(s.fks[i])[j][2] = s.fks[i].parent
              /\ DOMAIN Entries(s.fks[i]) # {}
            BY <3>1, EntriesType
        <3> QED
            BY <3>2 DEF ToSet
    <2> QED
        BY <2>1
<1>5. ToSet(own) = {<<References(s)[i].name, References(s)[i].ref>> : i \in DOMAIN References(s)}
    BY DEF OwnEntries, ToSet
<1> HIDE DEF own, key
<1>6. ASSUME NEW e \in ToSet(own)
      PROVE  \E k \in DOMAIN s.columns :
                e[1] = s.columns[k].name /\ \E i \in DOMAIN References(s) : e[2] = References(s)[i].ref
    <2>1. PICK i \in DOMAIN References(s) : e = <<References(s)[i].name, References(s)[i].ref>>
        BY <1>5
    <2>2. PICK k \in DOMAIN s.columns : References(s)[i] = s.columns[k]
        BY ReferencesType
    <2> QED
        BY <2>1, <2>2
<1>7. ASSUME NEW e \in ToSet(key)
      PROVE  \E i \in DOMAIN s.fks : Contains(s.fks[i].columns, e[1]) /\ e[2] = s.fks[i].parent
    BY <1>2, <1>4
<1>8. ASSUME NEW i \in DOMAIN References(s) PROVE \E e \in ToSet(own) : e[2] = References(s)[i].ref
    <2>1. <<References(s)[i].name, References(s)[i].ref>> \in ToSet(own)
        BY <1>5
    <2>2. \A x, y : <<x, y>>[2] = y
        OBVIOUS
    <2> QED
        BY <2>1, <2>2, Zenon
<1>9. ASSUME NEW i \in DOMAIN s.fks PROVE \E e \in ToSet(key) : e[2] = s.fks[i].parent
    BY <1>2, <1>4
<1> QED
    BY <1>1, <1>6, <1>7, <1>8, <1>9 DEF own, key

LEMMA ColumnParts ==
    ASSUME NEW c, NEW nullable, NEW key, NEW b
    PROVE  /\ ModelColumn(c, nullable).name = c.name
           /\ ModelColumn(c, nullable).marker = MappedTypes[c.type].marker
           /\ ModelColumn(c, nullable).nullable = nullable
           /\ Kept(c, key, b).name = c.name
           /\ HasMapping(c.type) => Kept(c, key, b).native = NativeType(c.type, b)
           /\ Kept(c, key, b).notNull = (c.notNull \/ (b = "postgres" /\ Contains(key, c.name)))
    BY DEF ModelColumn, Kept

LEMMA PairCreated ==
    ASSUME NEW s \in CreateStmts, s \in Statements, NEW cat, AcceptsCreate(cat, s),
           \A i \in DOMAIN s.columns : HasMapping(s.columns[i].type),
           NEW b \in {"postgres", "sqlite"}
    PROVE  Pair(ModelTable(s), CatalogTable(s, b), b)
<1> DEFINE t == ModelTable(s)
           u == CatalogTable(s, b)
           key == KeyOf(s)
<1>1. /\ t.name = s.table /\ t.primary_key = key /\ t.foreign_keys = OwnEntries(s) \o KeyEntries(s)
      /\ t.columns \in Seq(ModelColumns) /\ Len(t.columns) = Len(s.columns)
      /\ \A i \in DOMAIN s.columns :
            t.columns[i] = ModelColumn(s.columns[i], ~s.columns[i].notNull /\ ~s.columns[i].primary)
    BY ModelTableIs DEF ModelTables
<1>2. /\ u.key = key /\ Len(u.columns) = Len(s.columns)
      /\ u.fks = {ForeignKey(<<References(s)[i].name>>, References(s)[i].ref)
                    : i \in DOMAIN References(s)} \cup ToSet(s.fks)
      /\ \A i \in DOMAIN s.columns : u.columns[i] = Kept(s.columns[i], key, b)
    BY CatalogTableIs
<1>3. s.columns \in Seq(ColumnDefs) /\ s.key \in Seq(STRING) /\ s.kind = "create"
    BY DEF CreateStmts
<1> HIDE DEF t, u
<1>4. DOMAIN t.columns = DOMAIN s.columns
    BY <1>1, <1>3
<1>9. \A i \in DOMAIN s.columns :
         t.columns[i].name = s.columns[i].name /\ u.columns[i].name = s.columns[i].name
    BY <1>1, <1>2, ColumnParts
<1>5. Alike(t, u)
    BY <1>1, <1>2, <1>4, <1>9 DEF Alike
<1>6. ASSUME KeysNotNull PROVE Fits(t, u, b)
    <2>1. ASSUME NEW i \in DOMAIN s.columns PROVE ColumnFits(t.columns[i], u.columns[i], b)
        <3> DEFINE c == s.columns[i]
        <3>1. c \in ColumnDefs /\ HasMapping(c.type)
            BY <1>3
        <3>2. /\ t.columns[i].name = c.name /\ u.columns[i].name = c.name
              /\ t.columns[i].marker = MappedTypes[c.type].marker
              /\ u.columns[i].native = NativeType(c.type, b)
              /\ t.columns[i].nullable = (~c.notNull /\ ~c.primary)
              /\ u.columns[i].notNull = (c.notNull \/ (b = "postgres" /\ Contains(key, c.name)))
            <4>1. /\ t.columns[i] = ModelColumn(c, ~c.notNull /\ ~c.primary)
                  /\ u.columns[i] = Kept(c, key, b)
                BY <1>1, <1>2
            <4> HIDE DEF c, key
            <4> QED
                BY <3>1, <4>1, ColumnParts
        <3>3. c.primary => Contains(key, c.name)
            <4>1. c.primary => Contains(PrimaryNames(s), c.name)
                BY PrimaryNamesElements
            <4>2. PrimaryNames(s) \in Seq(STRING)
                BY PrimaryNamesType
            <4>3. Contains(PrimaryNames(s), c.name) => Len(PrimaryNames(s)) \in Nat \ {0}
                BY <4>2 DEF Contains
            <4>4. Contains(PrimaryNames(s), c.name) => s.key = <<>>
                BY <4>3 DEF AcceptsCreate
            <4> QED
                BY <4>1, <4>4 DEF KeyOf
        <3>4. c.notNull \in BOOLEAN /\ c.primary \in BOOLEAN
            BY <3>1 DEF ColumnDefs
        <3>6. c.primary \/ Contains(key, c.name) => c.notNull
            BY <1>3, <1>6 DEF KeysNotNull, ToSet
        <3> HIDE DEF c, key
        <3>5. t.columns[i].nullable = ~u.columns[i].notNull
            BY <3>2, <3>3, <3>4, <3>6
        <3> QED
            BY <3>1, <3>2, <3>5 DEF ColumnFits, HasMapping
    <2> QED
        BY <1>1, <1>2, <1>3, <1>4, <2>1 DEF Fits
<1>7. Linked(t, u)
    <2>1. ASSUME NEW fk \in u.fks
          PROVE  \E e \in ToSet(OwnEntries(s) \o KeyEntries(s)) : e[2] = fk.parent
        <3>1. CASE \E i \in DOMAIN References(s) :
                      fk = ForeignKey(<<References(s)[i].name>>, References(s)[i].ref)
            <4>1. PICK i \in DOMAIN References(s) : fk.parent = References(s)[i].ref
                BY <3>1 DEF ForeignKey
            <4> QED
                BY <4>1, CreatedEntries
        <3>2. CASE fk \in ToSet(s.fks)
            <4>1. PICK i \in DOMAIN s.fks : fk = s.fks[i]
                BY <3>2 DEF ToSet
            <4> QED
                BY <4>1, CreatedEntries
        <3> QED
            BY <1>2, <3>1, <3>2
    <2> QED
        BY <1>1, <2>1 DEF Linked
<1>8. Joined(t)
    <2>1. ASSUME NEW e \in ToSet(OwnEntries(s) \o KeyEntries(s)) PROVE Has(t, e[1])
        <3>1. \/ \E k \in DOMAIN s.columns : e[1] = s.columns[k].name
              \/ \E i \in DOMAIN s.fks : Contains(s.fks[i].columns, e[1])
            BY CreatedEntries
        <3>2. e[1] \in ToSet(Names(s.columns))
            <4>1. CASE \E k \in DOMAIN s.columns : e[1] = s.columns[k].name
                BY <4>1 DEF Names, ToSet
            <4>2. CASE \E i \in DOMAIN s.fks : Contains(s.fks[i].columns, e[1])
                <5>1. PICK i \in DOMAIN s.fks : Contains(s.fks[i].columns, e[1])
                    BY <4>2
                <5>4. s.fks \in Seq(ForeignKeys)
                    BY DEF CreateStmts
                <5>5. s.fks[i] \in ForeignKeys
                    BY <5>4
                <5>2. s.fks[i].columns \in Seq(STRING)
                    BY <5>5 DEF ForeignKeys
                <5>3. e[1] \in ToSet(s.fks[i].columns)
                    BY <5>1, <5>2 DEF Contains, ToSet
                <5> QED
                    BY <5>3 DEF AcceptsCreate
            <4> QED
                BY <3>1, <4>1, <4>2
        <3>3. PICK k \in DOMAIN s.columns : e[1] = s.columns[k].name
            BY <3>2 DEF Names, ToSet
        <3>4. t.columns[k].name = s.columns[k].name
            BY <1>9
        <3> QED
            BY <1>4, <3>3, <3>4 DEF Has
    <2>2. \A e \in ToSet(OwnEntries(s) \o KeyEntries(s)) : RefersFrom(s.table, e[1])
        BY <1>3 DEF RefersFrom
    <2> QED
        BY <1>1, <2>1, <2>2 DEF Joined
<1> QED
    BY <1>5, <1>6, <1>7, <1>8 DEF Pair, t, u

LEMMA AppendParts ==
    ASSUME NEW T, NEW q \in Seq(T), NEW x
    PROVE  /\ Len(q) \in Nat /\ Len(Append(q, x)) = Len(q) + 1
           /\ DOMAIN q = 1 .. Len(q) /\ DOMAIN Append(q, x) = 1 .. Len(q) + 1
           /\ \A i \in 1 .. Len(q) : Append(q, x)[i] = q[i]
           /\ Append(q, x)[Len(q) + 1] = x
<1>1. q \in Seq(T \cup {x}) /\ x \in T \cup {x}
    OBVIOUS
<1>2. \A U, y : \A p \in Seq(U) : y \in U =>
         /\ Len(p) \in Nat /\ Len(Append(p, y)) = Len(p) + 1
         /\ DOMAIN p = 1 .. Len(p) /\ DOMAIN Append(p, y) = 1 .. Len(p) + 1
         /\ \A i \in 1 .. Len(p) : Append(p, y)[i] = p[i]
         /\ Append(p, y)[Len(p) + 1] = y
    OBVIOUS
<1> QED
    BY <1>1, <1>2

LEMMA GrownPaired ==
    ASSUME NEW T, NEW U, NEW p \in Seq(T), NEW q \in Seq(U), Len(p) = Len(q), NEW x, NEW y
    PROVE  /\ Len(Append(p, x)) = Len(Append(q, y))
           /\ \A k \in DOMAIN Append(p, x) :
                 \/ k \in DOMAIN p /\ Append(p, x)[k] = p[k] /\ Append(q, y)[k] = q[k]
                 \/ Append(p, x)[k] = x /\ Append(q, y)[k] = y
           /\ \A k \in DOMAIN p : k \in DOMAIN Append(p, x) /\ Append(p, x)[k] = p[k]
<1> DEFINE n == Len(p)
           r == Append(p, x)
           s == Append(q, y)
<1>1. /\ n \in Nat /\ DOMAIN p = 1 .. n /\ Len(r) = n + 1 /\ DOMAIN r = 1 .. n + 1
      /\ \A i \in 1 .. n : r[i] = p[i]
      /\ r[n + 1] = x
    BY AppendParts
<1>2. /\ Len(s) = n + 1
      /\ \A i \in 1 .. n : s[i] = q[i]
      /\ s[n + 1] = y
    BY AppendParts
<1> HIDE DEF n, r, s
<1>3. \A i \in 1 .. n + 1 : i \in 1 .. n \/ i = n + 1
    BY <1>1
<1>4. \A i \in 1 .. n : i \in 1 .. n + 1
    BY <1>1
<1> QED
    BY <1>1, <1>2, <1>3, <1>4 DEF r, s

\* ALTER TABLE ADD COLUMN, on the table of the model.
ModelGains(t, t2, c) ==
    /\ t2.name = t.name /\ t2.primary_key = t.primary_key /\ t2.foreign_keys = t.foreign_keys
    /\ t2.columns = Append(t.columns, ModelColumn(c, ~c.notNull))

LEMMA PairAdded ==
    ASSUME NEW t \in ModelTables, NEW u \in CatalogTables, NEW b, Pair(t, u, b),
           NEW a \in Statements, a.kind = "add_column",
           a.column \in ColumnDefs, HasMapping(a.column.type),
           NEW t2, ModelGains(t, t2, a.column), NEW u2, CatalogGains(u, u2, a.column, b)
    PROVE  Pair(t2, u2, b)
<1>1. t.columns \in Seq(ModelColumns) /\ u.columns \in Seq(CatalogColumns)
    BY DEF ModelTables, CatalogTables
<1>3. PICK key : /\ ~a.column.primary => key = <<>>
                 /\ u2.columns = Append(u.columns, Kept(a.column, key, b))
    BY DEF CatalogGains
<1> DEFINE c == ModelColumn(a.column, ~a.column.notNull)
           d == Kept(a.column, key, b)
<1>2. /\ c.name = a.column.name /\ d.name = a.column.name
      /\ c.marker = MappedTypes[a.column.type].marker
      /\ d.native = NativeType(a.column.type, b)
      /\ c.nullable = ~a.column.notNull
      /\ d.notNull = (a.column.notNull \/ (b = "postgres" /\ Contains(key, a.column.name)))
    BY ColumnParts
<1> HIDE DEF c, d
<1>4. t2.columns = Append(t.columns, c) /\ u2.columns = Append(u.columns, d)
    BY <1>3 DEF ModelGains, c, d
<1>5. Len(t.columns) = Len(u.columns)
    BY DEF Pair, Alike
<1>6. /\ Len(t2.columns) = Len(u2.columns)
      /\ \A k \in DOMAIN t2.columns :
            \/ /\ k \in DOMAIN t.columns
               /\ t2.columns[k] = t.columns[k] /\ u2.columns[k] = u.columns[k]
            \/ t2.columns[k] = c /\ u2.columns[k] = d
      /\ \A k \in DOMAIN t.columns : k \in DOMAIN t2.columns /\ t2.columns[k] = t.columns[k]
    <2>1. /\ Len(Append(t.columns, c)) = Len(Append(u.columns, d))
          /\ \A k \in DOMAIN Append(t.columns, c) :
                \/ /\ k \in DOMAIN t.columns /\ Append(t.columns, c)[k] = t.columns[k]
                   /\ Append(u.columns, d)[k] = u.columns[k]
                \/ Append(t.columns, c)[k] = c /\ Append(u.columns, d)[k] = d
          /\ \A k \in DOMAIN t.columns : /\ k \in DOMAIN Append(t.columns, c)
                                        /\ Append(t.columns, c)[k] = t.columns[k]
        BY <1>1, <1>5, GrownPaired
    <2> QED
        BY ONLY <1>4, <2>1, Zenon
<1>7. Alike(t2, u2)
    <2>1. \A k \in DOMAIN t.columns : t.columns[k].name = u.columns[k].name
        BY DEF Pair, Alike
    <2> QED
        BY <1>2, <1>6, <2>1 DEF Alike
<1>8. ASSUME KeysStay, KeysNotNull PROVE Fits(t2, u2, b)
    <2>1. ~a.column.primary
        BY <1>8 DEF KeysStay
    <2>2. u2.key = u.key /\ key = <<>>
        BY <1>3, <2>1 DEF CatalogGains
    <2>3. Fits(t, u, b)
        BY <1>8 DEF Pair
    <2>4. \A k \in DOMAIN t.columns : ColumnFits(t.columns[k], u.columns[k], b)
        BY <2>3 DEF Fits
    <2>5. ColumnFits(c, d, b)
        <3>1. ~Contains(<<>>, a.column.name)
            BY DEF Contains
        <3>2. ~Contains(key, a.column.name)
            BY <2>2, <3>1
        <3>3. a.column.notNull \in BOOLEAN
            BY DEF ColumnDefs
        <3>4. c.nullable = ~d.notNull
            BY <1>2, <3>2, <3>3
        <3> QED
            BY <1>2, <3>4 DEF ColumnFits, HasMapping
    <2>6. \A k \in DOMAIN t2.columns : ColumnFits(t2.columns[k], u2.columns[k], b)
        BY <1>6, <2>4, <2>5
    <2> QED
        BY <2>2, <2>3, <2>6 DEF Fits, ModelGains
<1>9. ASSUME NoReferenceAdded PROVE Linked(t2, u2)
    BY <1>9 DEF NoReferenceAdded, Linked, Pair, ModelGains, CatalogGains
<1>10. ASSUME ReferencesStay PROVE Joined(t2)
    <2>1. \A x : Has(t, x) => Has(t2, x)
        BY <1>6 DEF Has
    <2> QED
        BY <1>10, <2>1 DEF Pair, Joined, ModelGains
<1> QED
    BY <1>7, <1>8, <1>9, <1>10 DEF Pair

NamedAlike(p, q) == Len(p) = Len(q) /\ \A i \in DOMAIN p : p[i].name = q[i].name

LosesAlike(p, q, p2, q2, name) ==
    /\ Len(p2) = Len(q2)
    /\ \A k \in DOMAIN p2 : \E i \in DOMAIN p : p2[k] = p[i] /\ q2[k] = q[i]
    /\ \A i \in DOMAIN p : p[i].name # name => \E k \in DOMAIN p2 : p2[k] = p[i]

LEMMA WithoutPaired ==
    ASSUME NEW T, NEW U, NEW p \in Seq(T), NEW q \in Seq(U), NamedAlike(p, q), NEW name
    PROVE  LosesAlike(p, q, Without(p, name), Without(q, name), name)
<1> DEFINE S == {c \in ToSet(p) : c.name # name}
           R == {c \in ToSet(q) : c.name # name}
<1>1. DOMAIN q = DOMAIN p /\ Len(p) = Len(q)
    BY DEF NamedAlike
<1>2. \A i \in DOMAIN p : p[i] \in S <=> q[i] \in R
    BY <1>1 DEF ToSet, NamedAlike
<1>3. Without(p, name) = Where(p, S) /\ Without(q, name) = Where(q, R)
    BY DEF Without
<1>4. ToSet(Where(p, S)) = ToSet(p) \cap S
    BY WhereElements
<1>5. \A i \in DOMAIN p : p[i].name # name => p[i] \in ToSet(Where(p, S))
    BY <1>4 DEF ToSet
<1> HIDE DEF S, R
<1>6. Paired(p, S, q, R)
    BY <1>1, <1>2, WherePaired
<1> QED
    BY <1>3, <1>5, <1>6 DEF Paired, ToSet, LosesAlike

\* ALTER TABLE DROP COLUMN.
ModelLoses(t, t2, name) ==
    /\ t2.name = t.name /\ t2.primary_key = t.primary_key /\ t2.foreign_keys = t.foreign_keys
    /\ t2.columns = Without(t.columns, name)

LEMMA PairDropped ==
    ASSUME NEW t \in ModelTables, NEW u \in CatalogTables, NEW b, Pair(t, u, b),
           NEW d \in Statements, d.kind = "drop_column",
           d.table = t.name,
           NEW t2, ModelLoses(t, t2, d.name), NEW u2, CatalogLoses(u, u2, d.name)
    PROVE  Pair(t2, u2, b)
<1>1. t.columns \in Seq(ModelColumns) /\ u.columns \in Seq(CatalogColumns)
    BY DEF ModelTables, CatalogTables
<1>2. NamedAlike(t.columns, u.columns)
    BY DEF Pair, Alike, NamedAlike
<1>3. LosesAlike(t.columns, u.columns, t2.columns, u2.columns, d.name)
    <2>1. LosesAlike(t.columns, u.columns, Without(t.columns, d.name), Without(u.columns, d.name),
                     d.name)
        BY <1>1, <1>2, WithoutPaired
    <2> QED
        BY <2>1 DEF ModelLoses, CatalogLoses
<1>4. Alike(t2, u2)
    BY <1>2, <1>3 DEF Alike, NamedAlike, LosesAlike
<1>5. ASSUME KeysStay, KeysNotNull PROVE Fits(t2, u2, b)
    <2>1. Fits(t, u, b)
        BY <1>5 DEF Pair
    <2>2. PICK s \in Statements : s.kind = "create" /\ s.table = t.name /\ u.key = KeyOf(s)
        BY <2>1 DEF Fits
    <2>3. ~Contains(u.key, d.name)
        BY <1>5, <2>2 DEF KeysStay
    <2>4. u2.key = u.key
        BY <2>3 DEF CatalogLoses
    <2>5. \A k \in DOMAIN t2.columns : ColumnFits(t2.columns[k], u2.columns[k], b)
        BY <1>3, <2>1 DEF Fits, LosesAlike
    <2> QED
        BY <2>1, <2>2, <2>4, <2>5 DEF Fits, ModelLoses
<1>6. ASSUME NoReferenceAdded PROVE Linked(t2, u2)
    BY <1>6 DEF Linked, Pair, ModelLoses, CatalogLoses
<1>7. ASSUME ReferencesStay PROVE Joined(t2)
    <2>1. ASSUME NEW e \in ToSet(t.foreign_keys) PROVE Has(t2, e[1]) /\ RefersFrom(t.name, e[1])
        <3>1. Has(t, e[1]) /\ RefersFrom(t.name, e[1])
            BY <1>7 DEF Pair, Joined
        <3>2. e[1] # d.name
            BY <1>7, <3>1 DEF ReferencesStay
        <3>3. PICK i \in DOMAIN t.columns : t.columns[i].name = e[1]
            BY <3>1 DEF Has
        <3>4. PICK k \in DOMAIN t2.columns : t2.columns[k] = t.columns[i]
            BY <1>3, <3>2, <3>3 DEF LosesAlike
        <3> QED
            BY <3>1, <3>3, <3>4 DEF Has
    <2> QED
        BY <2>1 DEF Joined, ModelLoses
<1> QED
    BY <1>4, <1>5, <1>6, <1>7 DEF Pair

LEMMA ContainedIs ==
    ASSUME NEW T, NEW q \in Seq(T), NEW x
    PROVE  Contains(q, x) <=> x \in ToSet(q)
    BY DEF Contains, ToSet

\* ALTER TABLE ADD FOREIGN KEY.
ModelLinks(t, t2, fk) ==
    /\ t2.name = t.name /\ t2.primary_key = t.primary_key /\ t2.columns = t.columns
    /\ t2.foreign_keys = t.foreign_keys \o Entries(fk)

LEMMA PairKeyed ==
    ASSUME NEW t \in ModelTables, NEW u \in CatalogTables, NEW b, Pair(t, u, b),
           NEW a \in Statements, a.kind = "add_foreign_key",
           a.table = t.name, a.fk \in ForeignKeys,
           ToSet(a.fk.columns) \subseteq ColumnNames(u),
           NEW t2, ModelLinks(t, t2, a.fk), NEW u2, CatalogLinks(u, u2, a.fk)
    PROVE  Pair(t2, u2, b)
<1>1. /\ t.columns \in Seq(ModelColumns) /\ u.columns \in Seq(CatalogColumns)
      /\ t.foreign_keys \in Seq(STRING \X STRING)
    BY DEF ModelTables, CatalogTables
<1>2. /\ Entries(a.fk) \in Seq(STRING \X STRING)
      /\ \A j \in DOMAIN Entries(a.fk) :
            Contains(a.fk.columns, Entries(a.fk)[j][1]) /\ Entries(a.fk)[j][2] = a.fk.parent
      /\ DOMAIN Entries(a.fk) # {}
    BY EntriesType
<1>3. ToSet(t2.foreign_keys) = ToSet(t.foreign_keys) \cup ToSet(Entries(a.fk))
    <2>1. ToSet(t.foreign_keys \o Entries(a.fk)) = ToSet(t.foreign_keys) \cup ToSet(Entries(a.fk))
        BY <1>1, <1>2, ConcatElements
    <2> QED
        BY <2>1 DEF ModelLinks
<1>4. /\ \A e \in ToSet(Entries(a.fk)) : Contains(a.fk.columns, e[1]) /\ e[2] = a.fk.parent
      /\ \E e \in ToSet(Entries(a.fk)) : e[2] = a.fk.parent
    BY <1>2 DEF ToSet
<1>5. Alike(t2, u2)
    BY DEF Pair, Alike, ModelLinks, CatalogLinks
<1>6. ASSUME KeysStay, KeysNotNull PROVE Fits(t2, u2, b)
    BY <1>6 DEF Pair, Fits, ModelLinks, CatalogLinks
<1>7. ASSUME NoReferenceAdded PROVE Linked(t2, u2)
    <2>1. Linked(t, u)
        BY <1>7 DEF Pair
    <2> QED
        BY <1>3, <1>4, <2>1 DEF Linked, CatalogLinks
<1>8. ASSUME ReferencesStay PROVE Joined(t2)
    <2>1. Joined(t)
        BY <1>8 DEF Pair
    <2>2. ASSUME NEW e \in ToSet(Entries(a.fk)) PROVE Has(t, e[1]) /\ RefersFrom(t.name, e[1])
        <3>1. Contains(a.fk.columns, e[1])
            BY <1>4
        <3>2. e[1] \in ToSet(a.fk.columns)
            <4>1. a.fk.columns \in Seq(STRING)
                BY DEF ForeignKeys
            <4> QED
                BY <3>1, <4>1, ContainedIs
        <3>3. PICK i \in DOMAIN u.columns : u.columns[i].name = e[1]
            BY <3>2 DEF ColumnNames, Names, ToSet
        <3>4. Has(t, e[1])
            <4>1. Len(t.columns) = Len(u.columns)
                     /\ \A j \in DOMAIN t.columns : t.columns[j].name = u.columns[j].name
                BY DEF Pair, Alike
            <4>2. i \in DOMAIN t.columns
                BY ONLY <1>1, <4>1, i \in DOMAIN u.columns
            <4> QED
                BY <3>3, <4>1, <4>2 DEF Has
        <3> QED
            BY <3>1, <3>4 DEF RefersFrom
    <2>3. \A x : Has(t, x) => Has(t2, x)
        BY DEF Has, ModelLinks
    <2> QED
        BY <1>3, <2>1, <2>2, <2>3 DEF Joined, ModelLinks
<1> QED
    BY <1>5, <1>6, <1>7, <1>8 DEF Pair

-----------------------------------------------------------------------------
(* The model follows a catalog. *)

CreateNames == {s.table : s \in {r \in Statements : r.kind = "create"}}

DeclaredBy(m) == {m[i].name : i \in DOMAIN m}

\* What relates the model m, the tables h that tagged blocks made and the
\* catalog of database b.
Follows(m, h, cat, b) ==
    /\ \A i, j \in DOMAIN m : m[i].name = m[j].name => i = j
    /\ DeclaredBy(m) \subseteq CreateNames
    /\ DeclaredBy(m) = DOMAIN cat \ h
    /\ h \cap CreateNames \subseteq DOMAIN cat
    /\ \A i \in DOMAIN m : Pair(m[i], cat[m[i].name], b)
    /\ \A i \in DOMAIN m : \A e \in ToSet(m[i].foreign_keys) : e[2] \in DeclaredBy(m) \cup h

\* The statement changes the table x alone, in both.
ChangesOne(m, n, cat, d, x, b) ==
    /\ DOMAIN n = DOMAIN m /\ DOMAIN d = DOMAIN cat /\ Elsewhere(cat, d, x)
    /\ \A i \in DOMAIN m : n[i].name = m[i].name
    /\ \A i \in DOMAIN m : m[i].name # x => n[i] = m[i]
    /\ \A i \in DOMAIN m : m[i].name = x => Pair(n[i], d[x], b)
    /\ \A i \in DOMAIN m : \A e \in ToSet(n[i].foreign_keys) :
          e \in ToSet(m[i].foreign_keys) \/ e[2] \in DOMAIN cat

LEMMA FollowsChange ==
    ASSUME NEW m, NEW n, NEW h, NEW cat, NEW d, NEW x, NEW b,
           Follows(m, h, cat, b), ChangesOne(m, n, cat, d, x, b)
    PROVE  Follows(n, h, d, b)
<1>1. DOMAIN n = DOMAIN m /\ \A i \in DOMAIN m : n[i].name = m[i].name
    BY DEF ChangesOne
<1>2. DeclaredBy(n) = DeclaredBy(m)
    BY <1>1 DEF DeclaredBy
<1>3. DOMAIN d = DOMAIN cat
    BY DEF ChangesOne
<1>4. ASSUME NEW i \in DOMAIN m PROVE Pair(n[i], d[n[i].name], b)
    <2>1. CASE m[i].name = x
        BY <1>1, <2>1 DEF ChangesOne
    <2>2. CASE m[i].name # x
        <3>1. m[i].name \in DOMAIN cat
            BY DEF Follows, DeclaredBy
        <3>2. d[m[i].name] = cat[m[i].name] /\ n[i] = m[i]
            BY <2>2, <3>1 DEF ChangesOne, Elsewhere
        <3>3. Pair(m[i], cat[m[i].name], b)
            BY DEF Follows
        <3> QED
            BY <3>2, <3>3
    <2> QED
        BY <2>1, <2>2
<1>5. ASSUME NEW i \in DOMAIN m, NEW e \in ToSet(n[i].foreign_keys) PROVE e[2] \in DeclaredBy(m) \cup h
    <2>1. e \in ToSet(m[i].foreign_keys) \/ e[2] \in DOMAIN cat
        BY DEF ChangesOne
    <2> QED
        BY <2>1 DEF Follows
<1>6. \A i, j \in DOMAIN n : n[i].name = n[j].name => i = j
    BY <1>1 DEF Follows
<1>7. /\ DeclaredBy(n) \subseteq CreateNames /\ DeclaredBy(n) = DOMAIN d \ h
      /\ h \cap CreateNames \subseteq DOMAIN d
    BY <1>2, <1>3 DEF Follows
<1> QED
    BY <1>1, <1>2, <1>4, <1>5, <1>6, <1>7 DEF Follows

LEMMA FollowsCreate ==
    ASSUME NEW m \in Seq(ModelTables), NEW h, NEW cat, IsCatalog(cat),
           NEW b \in {"postgres", "sqlite"}, Follows(m, h, cat, b),
           NEW s \in Statements, s \in CreateStmts, AcceptsCreate(cat, s),
           \A i \in DOMAIN s.columns : HasMapping(s.columns[i].type)
    PROVE  Follows(AppliedCreate(m, s), h, CreatedIn(cat, b, s), b)
<1> DEFINE n == AppliedCreate(m, s)
           d == CreatedIn(cat, b, s)
           x == s.table
           l == Len(m) + 1
<1>1. /\ DOMAIN n = DOMAIN m \cup {l} /\ l \notin DOMAIN m
      /\ \A i \in DOMAIN m : n[i] = m[i]
      /\ n[l] = ModelTable(s)
    BY CreateApplies
<1>2. /\ DOMAIN d = DOMAIN cat \cup {x} /\ d[x] = CatalogTable(s, b) /\ Elsewhere(cat, d, x)
    BY CreateChanges
<1>3. x \notin DOMAIN cat /\ x \in CreateNames
    BY DEF AcceptsCreate, CreateNames, CreateStmts
<1>4. ModelTable(s).name = x /\ ModelTable(s).foreign_keys = OwnEntries(s) \o KeyEntries(s)
    BY ModelTableIs
<1>5. Pair(ModelTable(s), CatalogTable(s, b), b)
    BY PairCreated
<1>6. \A e \in ToSet(OwnEntries(s) \o KeyEntries(s)) : e[2] \in DOMAIN cat \cup {x}
    BY CreatedEntries DEF AcceptsCreate
<1> HIDE DEF n, d, l
<1>7. DeclaredBy(n) = DeclaredBy(m) \cup {x}
    BY <1>1, <1>4 DEF DeclaredBy
<1>8. x \notin DeclaredBy(m) /\ x \notin h
    BY <1>3 DEF Follows
<1>9. \A i, j \in DOMAIN n : n[i].name = n[j].name => i = j
    BY <1>1, <1>4, <1>8 DEF Follows, DeclaredBy
<1>10. /\ DeclaredBy(n) \subseteq CreateNames /\ DeclaredBy(n) = DOMAIN d \ h
       /\ h \cap CreateNames \subseteq DOMAIN d
    BY <1>2, <1>3, <1>7, <1>8 DEF Follows
<1>11. \A i \in DOMAIN n : Pair(n[i], d[n[i].name], b)
    <2>1. ASSUME NEW i \in DOMAIN m PROVE Pair(n[i], d[n[i].name], b)
        <3>1. m[i].name \in DOMAIN cat \ {x}
            BY <1>8 DEF Follows, DeclaredBy
        <3>2. d[m[i].name] = cat[m[i].name] /\ n[i] = m[i]
            BY <1>1, <1>2, <3>1 DEF Elsewhere
        <3>3. Pair(m[i], cat[m[i].name], b)
            BY DEF Follows
        <3> QED
            BY <3>2, <3>3
    <2> QED
        BY <1>1, <1>2, <1>4, <1>5, <2>1
<1>12. \A i \in DOMAIN n : \A e \in ToSet(n[i].foreign_keys) : e[2] \in DeclaredBy(n) \cup h
    <2>1. DOMAIN cat \cup {x} \subseteq DeclaredBy(n) \cup h
        BY <1>7 DEF Follows
    <2>2. \A i \in DOMAIN m : \A e \in ToSet(n[i].foreign_keys) : e[2] \in DeclaredBy(n) \cup h
        BY <1>1, <1>7 DEF Follows
    <2>3. \A e \in ToSet(n[l].foreign_keys) : e[2] \in DeclaredBy(n) \cup h
        BY <1>1, <1>4, <1>6, <2>1
    <2> QED
        BY <1>1, <2>2, <2>3
<1> QED
    BY <1>9, <1>10, <1>11, <1>12 DEF Follows, n, d

LEMMA FollowsHatch ==
    ASSUME NEW m, NEW h, NEW cat, IsCatalog(cat), NEW b \in {"postgres", "sqlite"},
           Follows(m, h, cat, b), NEW s \in CreateStmts, AcceptsCreate(cat, s)
    PROVE  Follows(m, h \cup {s.table}, CreatedIn(cat, b, s), b)
<1> DEFINE d == CreatedIn(cat, b, s)
           x == s.table
<1>1. DOMAIN d = DOMAIN cat \cup {x} /\ Elsewhere(cat, d, x)
    BY CreateChanges
<1>2. x \notin DOMAIN cat
    BY DEF AcceptsCreate
<1> HIDE DEF d
<1>3. \A i \in DOMAIN m : m[i].name \in DOMAIN cat /\ d[m[i].name] = cat[m[i].name]
    BY <1>1, <1>2 DEF Follows, DeclaredBy, Elsewhere
<1> HIDE DEF x
<1>4. DeclaredBy(m) = DOMAIN d \ (h \cup {x}) /\ (h \cup {x}) \cap CreateNames \subseteq DOMAIN d
    BY <1>1, <1>2 DEF Follows
<1>5. \A i \in DOMAIN m : Pair(m[i], d[m[i].name], b)
    BY <1>3 DEF Follows
<1>6. Follows(m, h \cup {x}, d, b)
    BY <1>4, <1>5 DEF Follows
<1> QED
    BY <1>6 DEF x, d

LEMMA FollowsDropTable ==
    ASSUME TablesStay, NEW m, NEW h, NEW cat, NEW b, Follows(m, h, cat, b),
           NEW s \in Statements, s.kind = "drop_table"
    PROVE  Follows(m, h, WithoutTable(cat, s.table), b)
<1> DEFINE d == WithoutTable(cat, s.table)
<1>1. s.table \notin CreateNames
    BY DEF TablesStay, CreateNames
<1>2. DOMAIN d = DOMAIN cat \ {s.table} /\ \A u \in DOMAIN d : d[u] = cat[u]
    BY DEF WithoutTable
<1> HIDE DEF d
<1>3. \A i \in DOMAIN m : m[i].name \in DOMAIN d
    BY <1>1, <1>2 DEF Follows, DeclaredBy
<1>4. DeclaredBy(m) = DOMAIN d \ h /\ h \cap CreateNames \subseteq DOMAIN d
    BY <1>1, <1>2 DEF Follows
<1>5. Follows(m, h, d, b)
    BY <1>2, <1>3, <1>4 DEF Follows
<1> QED
    BY <1>5 DEF d

\* ALTER TABLE, on the first table of the name, which is the only one.
LEMMA TheTable ==
    ASSUME NEW m \in Seq(ModelTables), NEW h, NEW cat, NEW b, Follows(m, h, cat, b), NEW x
    PROVE  /\ TableMut(m, x) # 0 => TableMut(m, x) \in DOMAIN m
           /\ \A i \in DOMAIN m : m[i].name = x <=> TableMut(m, x) # 0 /\ i = TableMut(m, x)
           /\ TableMut(m, x) # 0 => Pair(m[TableMut(m, x)], cat[x], b) /\ x \in DOMAIN cat
<1> DEFINE k == TableMut(m, x)
<1>1. /\ k \in 0 .. Len(m) /\ (k # 0 => m[k].name = x)
      /\ k = 0 => \A i \in DOMAIN m : m[i].name # x
    BY TableMutFinds
<1>2. DOMAIN m = 1 .. Len(m) /\ Len(m) \in Nat
    OBVIOUS
<1> HIDE DEF k
<1>3. k # 0 => k \in DOMAIN m
    BY <1>1, <1>2
<1>4. \A i \in DOMAIN m : m[i].name = x <=> k # 0 /\ i = k
    BY <1>1, <1>3 DEF Follows
<1>5. k # 0 => Pair(m[k], cat[x], b) /\ x \in DOMAIN cat
    BY <1>1, <1>3 DEF Follows, DeclaredBy
<1> QED
    BY <1>3, <1>4, <1>5 DEF k

LEMMA FollowsAdd ==
    ASSUME NEW m \in Seq(ModelTables), NEW h, NEW cat, IsCatalog(cat),
           NEW b \in {"postgres", "sqlite"}, Follows(m, h, cat, b),
           NEW s \in Statements, s.kind = "add_column", s.table \in STRING,
           s.column \in ColumnDefs, HasMapping(s.column.type), TableMut(m, s.table) # 0
    PROVE  Follows(AppliedAddColumn(m, s), h, AddedIn(cat, b, s), b)
<1> DEFINE n == AppliedAddColumn(m, s)
           d == AddedIn(cat, b, s)
           x == s.table
           k == TableMut(m, x)
           c == s.column
<1>1. /\ k \in DOMAIN m /\ \A i \in DOMAIN m : m[i].name = x <=> i = k
      /\ Pair(m[k], cat[x], b) /\ x \in DOMAIN cat
    BY TheTable
<1>2. ColumnsBecome(m, n, k, Append(m[k].columns, ModelColumn(c, ~c.notNull)))
    BY AddColumnApplies
<1>3. /\ IsCatalog(d) /\ DOMAIN d = DOMAIN cat /\ Elsewhere(cat, d, x)
      /\ CatalogGains(cat[x], d[x], c, b)
    BY <1>1, AddChanges
<1>5. m[k] \in ModelTables /\ cat[x] \in CatalogTables
    BY <1>1 DEF IsCatalog
<1> HIDE DEF n, d, k
<1>6. ModelGains(m[k], n[k], c)
    BY <1>1, <1>2 DEF ModelGains, ColumnsBecome
<1>8. Pair(n[k], d[x], b)
    BY <1>1, <1>3, <1>5, <1>6, PairAdded
<1>9. ChangesOne(m, n, cat, d, x, b)
    BY <1>1, <1>2, <1>3, <1>8 DEF ChangesOne, ColumnsBecome
<1> QED
    BY <1>9, FollowsChange DEF n, d

LEMMA FollowsDropColumn ==
    ASSUME NEW m \in Seq(ModelTables), NEW h, NEW cat, IsCatalog(cat), NEW b,
           Follows(m, h, cat, b),
           NEW s \in Statements, s.kind = "drop_column", s.table \in DOMAIN cat
    PROVE  Follows(AppliedDropColumn(m, s), h, DroppedIn(cat, s), b)
<1> DEFINE n == AppliedDropColumn(m, s)
           d == DroppedIn(cat, s)
           x == s.table
           k == TableMut(m, x)
<1>1. /\ k # 0 => k \in DOMAIN m /\ Pair(m[k], cat[x], b)
      /\ \A i \in DOMAIN m : m[i].name = x <=> k # 0 /\ i = k
    BY TheTable
<1>2. /\ k = 0 => n = m
      /\ k # 0 => ColumnsBecome(m, n, k, Without(m[k].columns, s.name))
    BY DropColumnApplies
<1>3. /\ DOMAIN d = DOMAIN cat /\ Elsewhere(cat, d, x)
      /\ CatalogLoses(cat[x], d[x], s.name)
    BY DropColumnChanges
<1> HIDE DEF n, d, k
<1>4. CASE k = 0
    <2>1. ChangesOne(m, n, cat, d, x, b)
        BY <1>1, <1>2, <1>3, <1>4 DEF ChangesOne
    <2> QED
        BY <2>1, FollowsChange DEF n, d
<1>5. CASE k # 0
    <2>1. k \in DOMAIN m /\ m[k] \in ModelTables /\ cat[x] \in CatalogTables /\ m[k].name = x
        BY <1>1, <1>5 DEF IsCatalog
    <2>2. ModelLoses(m[k], n[k], s.name)
        BY <1>2, <1>5, <2>1 DEF ModelLoses, ColumnsBecome
    <2>4. Pair(n[k], d[x], b)
        BY <1>1, <1>3, <1>5, <2>1, <2>2, PairDropped
    <2>5. ChangesOne(m, n, cat, d, x, b)
        BY <1>1, <1>2, <1>3, <1>5, <2>1, <2>4 DEF ChangesOne, ColumnsBecome
    <2> QED
        BY <2>5, FollowsChange DEF n, d
<1> QED
    BY <1>4, <1>5

LEMMA FollowsLink ==
    ASSUME NEW m \in Seq(ModelTables), NEW h, NEW cat, IsCatalog(cat), NEW b,
           Follows(m, h, cat, b),
           NEW s \in Statements, s.kind = "add_foreign_key", s.fk \in ForeignKeys,
           s.table \in DOMAIN cat, s.fk.parent \in DOMAIN cat,
           ToSet(s.fk.columns) \subseteq ColumnNames(cat[s.table])
    PROVE  Follows(AppliedAddForeignKey(m, s), h, AddedKeyIn(cat, s), b)
<1> DEFINE n == AppliedAddForeignKey(m, s)
           d == AddedKeyIn(cat, s)
           x == s.table
           k == TableMut(m, x)
<1>1. /\ k # 0 => k \in DOMAIN m /\ Pair(m[k], cat[x], b)
      /\ \A i \in DOMAIN m : m[i].name = x <=> k # 0 /\ i = k
    BY TheTable
<1>2. /\ k = 0 => n = m
      /\ k # 0 => EntriesBecome(m, n, k, m[k].foreign_keys \o Entries(s.fk))
    BY AddForeignKeyApplies
<1>3. /\ DOMAIN d = DOMAIN cat /\ Elsewhere(cat, d, x)
      /\ CatalogLinks(cat[x], d[x], s.fk)
    BY AddForeignKeyChanges
<1> HIDE DEF n, d, k
<1>4. CASE k = 0
    <2>1. ChangesOne(m, n, cat, d, x, b)
        BY <1>1, <1>2, <1>3, <1>4 DEF ChangesOne
    <2> QED
        BY <2>1, FollowsChange DEF n, d
<1>5. CASE k # 0
    <2>1. k \in DOMAIN m /\ m[k] \in ModelTables /\ cat[x] \in CatalogTables /\ m[k].name = x
        BY <1>1, <1>5 DEF IsCatalog
    <2>2. ModelLinks(m[k], n[k], s.fk)
        BY <1>2, <1>5, <2>1 DEF ModelLinks, EntriesBecome
    <2>4. Pair(n[k], d[x], b)
        BY <1>1, <1>3, <1>5, <2>1, <2>2, PairKeyed
    <2>5. ASSUME NEW e \in ToSet(n[k].foreign_keys)
          PROVE  e \in ToSet(m[k].foreign_keys) \/ e[2] \in DOMAIN cat
        <3>1. ToSet(n[k].foreign_keys) = ToSet(m[k].foreign_keys) \cup ToSet(Entries(s.fk))
            <4>1. m[k].foreign_keys \in Seq(STRING \X STRING)
                BY <2>1 DEF ModelTables
            <4>2. Entries(s.fk) \in Seq(STRING \X STRING)
                BY EntriesType
            <4>3. n[k].foreign_keys = m[k].foreign_keys \o Entries(s.fk)
                BY <1>2, <1>5 DEF EntriesBecome
            <4> QED
                BY <4>1, <4>2, <4>3, ConcatElements
        <3>2. \A f \in ToSet(Entries(s.fk)) : f[2] = s.fk.parent
            BY EntriesType DEF ToSet
        <3> QED
            BY <3>1, <3>2
    <2>6. ChangesOne(m, n, cat, d, x, b)
        BY <1>1, <1>2, <1>3, <1>5, <2>1, <2>4, <2>5 DEF ChangesOne, EntriesBecome
    <2> QED
        BY <2>6, FollowsChange DEF n, d
<1> QED
    BY <1>4, <1>5

-----------------------------------------------------------------------------
(* schema.rs through any history.                                          *)

FollowInv ==
    /\ TypeOK
    /\ ~failed => \A b \in Backends : Follows(model, hatch, catalog[b], b)

LEMMA FollowsAtFirst == Init => FollowInv
<1> SUFFICES ASSUME Init, TypeOK, NEW b \in Backends
             PROVE  Follows(model, hatch, catalog[b], b)
    BY SchemaStarts DEF FollowInv
<1>1. PICK team \in Teams : catalog = [c \in team |-> EmptyCatalog]
    BY DEF Init
<1>2. model = <<>> /\ hatch = {} /\ catalog[b] = EmptyCatalog
    BY <1>1 DEF Init, Backends
<1>3. DOMAIN <<>> = {} /\ DOMAIN EmptyCatalog = {}
    BY DEF EmptyCatalog
<1> QED
    BY <1>2, <1>3 DEF Follows, DeclaredBy

\* One statement, in the model and in database b.
LEMMA FollowsRun ==
    ASSUME TablesStay, TypeOK, NEW s \in Statements, Run(s), ~failed',
           CreateTable(s) \/ AddColumn(s) \/ DropColumn(s) \/ AddForeignKey(s)
              \/ DropTable(s) \/ EscapeHatch(s) \/ Refuse(s),
           NEW b \in Backends, Follows(model, hatch, catalog[b], b)
    PROVE  Follows(model', hatch', catalog'[b], b)
<1>1. /\ b \in {"postgres", "sqlite"}
      /\ IsCatalog(catalog[b]) /\ Accepts(catalog[b], b, s)
      /\ catalog'[b] = Executed(catalog[b], b, s)
    BY EachRuns
<1>2. model \in Seq(ModelTables)
    BY DEF TypeOK
<1>3. CASE CreateTable(s)
    <2>1. /\ s.kind = "create" /\ ~IsRefused(model, s)
          /\ model' = AppliedCreate(model, s) /\ hatch' = hatch
        BY <1>3 DEF CreateTable
    <2>2. /\ Executed(catalog[b], b, s) = CreatedIn(catalog[b], b, s)
          /\ AcceptsCreate(catalog[b], s)
        BY <1>1, <2>1, ByKind
    <2>3. s \in CreateStmts /\ \A i \in DOMAIN s.columns : HasMapping(s.columns[i].type)
        BY <2>1, StatementShapes DEF IsRefused
    <2> QED
        BY <1>1, <1>2, <2>1, <2>2, <2>3, FollowsCreate
<1>4. CASE AddColumn(s)
    <2>1. /\ s.kind = "add_column" /\ ~IsRefused(model, s)
          /\ model' = AppliedAddColumn(model, s) /\ hatch' = hatch
        BY <1>4 DEF AddColumn
    <2>2. Executed(catalog[b], b, s) = AddedIn(catalog[b], b, s)
        BY <1>1, <2>1, ByKind
    <2>3. HasMapping(s.column.type) /\ TableMut(model, s.table) # 0
        BY <2>1 DEF IsRefused
    <2>4. s.table \in STRING /\ s.column \in ColumnDefs
        BY <2>1, StatementShapes
    <2> QED
        BY <1>1, <1>2, <2>1, <2>2, <2>3, <2>4, FollowsAdd
<1>5. CASE DropColumn(s)
    <2>1. s.kind = "drop_column" /\ model' = AppliedDropColumn(model, s) /\ hatch' = hatch
        BY <1>5 DEF DropColumn
    <2>2. /\ Executed(catalog[b], b, s) = DroppedIn(catalog[b], s)
          /\ AcceptsDropColumn(catalog[b], b, s)
        BY <1>1, <2>1, ByKind
    <2>3. s.table \in DOMAIN catalog[b]
        BY <2>2 DEF AcceptsDropColumn
    <2> QED
        BY <1>1, <1>2, <2>1, <2>2, <2>3, FollowsDropColumn
<1>6. CASE AddForeignKey(s)
    <2>1. /\ s.kind = "add_foreign_key" /\ hatch' = hatch
          /\ model' = AppliedAddForeignKey(model, s)
        BY <1>6 DEF AddForeignKey
    <2>2. /\ Executed(catalog[b], b, s) = AddedKeyIn(catalog[b], s)
          /\ s.table \in DOMAIN catalog[b] /\ s.fk.parent \in DOMAIN catalog[b]
          /\ ToSet(s.fk.columns) \subseteq ColumnNames(catalog[b][s.table])
        BY <1>1, <2>1, ByKind
    <2>3. s.fk \in ForeignKeys
        BY <2>1, StatementShapes
    <2> QED
        BY <1>1, <1>2, <2>1, <2>2, <2>3, FollowsLink
<1>7. CASE DropTable(s)
    <2>1. s.kind = "drop_table" /\ model' = model /\ hatch' = hatch
        BY <1>7 DEF DropTable
    <2>2. Executed(catalog[b], b, s) = WithoutTable(catalog[b], s.table)
        BY <1>1, <2>1, ByKind
    <2> QED
        BY <1>1, <2>1, <2>2, FollowsDropTable
<1>8. CASE EscapeHatch(s)
    <2>1. s.kind = "hatch" /\ model' = model /\ hatch' = hatch \cup {s.table}
        BY <1>8 DEF EscapeHatch
    <2>2. /\ Executed(catalog[b], b, s) = CreatedIn(catalog[b], b, s.body)
          /\ AcceptsCreate(catalog[b], s.body)
        BY <1>1, <2>1, ByKind
    <2>3. s.body \in CreateStmts /\ s.table = s.body.table
        BY <2>1, StatementShapes
    <2> QED
        BY <1>1, <2>1, <2>2, <2>3, FollowsHatch
<1>9. CASE Refuse(s)
    BY <1>9 DEF Refuse
<1> QED
    BY <1>3, <1>4, <1>5, <1>6, <1>7, <1>8, <1>9

\* The model and each catalog keep what relates them, whatever the vocabulary,
\* as long as it drops no table that the shared statements create.
LEMMA FollowsAlways ==
    ASSUME TablesStay
    PROVE  Spec => []FollowInv
<1>1. FollowInv /\ [Next]_vars => FollowInv'
    <2> SUFFICES ASSUME FollowInv, [Next]_vars PROVE FollowInv'
        OBVIOUS
    <2>1. TypeOK /\ TypeOK'
        BY SchemaTypesStep DEF FollowInv
    <2>2. ASSUME NEW s \in Statements,
                 CreateTable(s) \/ AddColumn(s) \/ DropColumn(s) \/ AddForeignKey(s)
                    \/ DropTable(s) \/ EscapeHatch(s) \/ Refuse(s),
                 ~failed', NEW b \in Backends'
          PROVE  Follows(model', hatch', catalog'[b], b)
        <3>1. Run(s)
            BY <2>2 DEF CreateTable, AddColumn, DropColumn, AddForeignKey, DropTable, EscapeHatch,
                        Refuse
        <3>2. ~failed
            BY <3>1 DEF Run
        <3>3. b \in Backends
            BY <2>1, <2>2, <3>1, EachRuns
        <3>4. Follows(model, hatch, catalog[b], b)
            BY <3>2, <3>3 DEF FollowInv
        <3> QED
            BY <2>1, <2>2, <3>1, <3>3, <3>4, FollowsRun
    <2>3. CASE \E s \in Statements :
                  CreateTable(s) \/ AddColumn(s) \/ DropColumn(s) \/ AddForeignKey(s)
                    \/ DropTable(s) \/ EscapeHatch(s) \/ Refuse(s)
        BY <2>1, <2>2, <2>3 DEF FollowInv
    <2>4. CASE NextMigration \/ UNCHANGED vars
        <3>1. /\ model' = model /\ hatch' = hatch /\ catalog' = catalog /\ failed' = failed
            BY <2>4 DEF NextMigration, vars
        <3> QED
            BY <2>1, <3>1 DEF FollowInv, Backends
    <2> QED
        BY <2>3, <2>4 DEF Next
<1> QED
    BY FollowsAtFirst, <1>1, PTL DEF Spec

\* "They can't drift": through any history of statements that drops no shared
\* table, schema.rs declares each table of each database once and no other.
THEOREM TablesAlwaysFollow ==
    ASSUME TablesStay
    PROVE  Spec => []TablesFollow
<1>1. FollowInv => TablesFollow
    <2> SUFFICES ASSUME FollowInv, ~failed PROVE TablesFollow
        BY DEF TablesFollow
    <2>1. \A b \in Backends : Follows(model, hatch, catalog[b], b)
        BY DEF FollowInv
    <2>2. Backends # {}
        BY SchemaAssumption DEF FollowInv, TypeOK
    <2>3. \A i, j \in DOMAIN model : model[i].name = model[j].name => i = j
        BY <2>1, <2>2 DEF Follows
    <2>4. \A b \in Backends : Declared = DOMAIN catalog[b] \ hatch
        BY <2>1 DEF Follows, Declared, DeclaredBy
    <2> QED
        BY <2>3, <2>4 DEF TablesFollow
<1> QED
    BY <1>1, FollowsAlways, PTL

\* When keys are never changed either and their columns say NOT NULL, every
\* table! fits the table of each database: column by column, in its marker and
\* its nullability, the key's columns included, and in its key.
THEOREM SchemaAlwaysFits ==
    ASSUME TablesStay, KeysStay, KeysNotNull
    PROVE  Spec => []SchemaFits
<1>1. FollowInv => SchemaFits
    <2> SUFFICES ASSUME FollowInv, ~failed, NEW i \in DOMAIN model, NEW b \in Backends
                 PROVE  TableFits(model[i], catalog[b][model[i].name], b)
        BY DEF SchemaFits
    <2> DEFINE t == model[i]
               u == catalog[b][model[i].name]
    <2>1. Pair(t, u, b)
        BY DEF FollowInv, Follows
    <2> HIDE DEF t, u
    <2>2. Alike(t, u) /\ Fits(t, u, b)
        BY <2>1 DEF Pair
    <2>3. u.key # <<>> => PrimaryKeyCols(t) = u.key
        BY <2>2 DEF Fits, PrimaryKeyCols
    <2>4. TableFits(t, u, b)
        BY <2>2, <2>3 DEF TableFits, Alike, Fits
    <2> QED
        BY <2>4 DEF t, u
<1> QED
    BY <1>1, FollowsAlways, PTL

\* The joinable!s that render_schema_rs writes.
Joinable(child, e) == [child |-> child, parent |-> e[2], column |-> e[1]]

Joins == {Joinable(child, e) : child \in STRING, e \in STRING \X STRING}

JoinsOf(t) == [j \in DOMAIN t.foreign_keys |-> Joinable(t.name, t.foreign_keys[j])]

LEMMA JoinablesAre ==
    ASSUME NEW m \in Seq(ModelTables)
    PROVE  /\ \A k \in DOMAIN Joinables(m) : \E i \in DOMAIN m : \E e \in ToSet(m[i].foreign_keys) :
                 Joinables(m)[k] = Joinable(m[i].name, e)
           /\ \A i \in DOMAIN m : \A e \in ToSet(m[i].foreign_keys) : \E k \in DOMAIN Joinables(m) :
                 Joinables(m)[k] = Joinable(m[i].name, e)
<1> DEFINE rows == [i \in DOMAIN m |-> JoinsOf(m[i])]
<1>1. Joinables(m) = FlattenSeq(rows)
    BY DEF Joinables, JoinsOf, Joinable
<1>2. ASSUME NEW i \in DOMAIN m
      PROVE  /\ JoinsOf(m[i]) \in Seq(Joins)
             /\ ToSet(JoinsOf(m[i])) = {Joinable(m[i].name, e) : e \in ToSet(m[i].foreign_keys)}
    <2>1. m[i].name \in STRING /\ m[i].foreign_keys \in Seq(STRING \X STRING)
        BY TableHas
    <2> DEFINE q == m[i].foreign_keys
               c == m[i].name
    <2>2. DOMAIN q = 1 .. Len(q) /\ Len(q) \in Nat /\ \A j \in DOMAIN q : q[j] \in STRING \X STRING
        BY <2>1
    <2>3. JoinsOf(m[i]) = [j \in DOMAIN q |-> Joinable(c, q[j])]
        BY DEF JoinsOf
    <2> HIDE DEF q, c
    <2>4. \A j \in DOMAIN q : Joinable(c, q[j]) \in Joins
        BY <2>1, <2>2 DEF Joins, c
    <2>5. [j \in DOMAIN q |-> Joinable(c, q[j])] \in Seq(Joins)
        BY <2>2, <2>4
    <2>6. ToSet([j \in DOMAIN q |-> Joinable(c, q[j])]) = {Joinable(c, e) : e \in ToSet(q)}
        BY DEF ToSet
    <2> QED
        BY <2>3, <2>5, <2>6 DEF q, c
<1>3. DOMAIN m = 1 .. Len(m) /\ Len(m) \in Nat
    OBVIOUS
<1>4. rows \in Seq(Seq(Joins))
    BY <1>2, <1>3
<1>5. DOMAIN rows = DOMAIN m /\ \A i \in DOMAIN m : rows[i] = JoinsOf(m[i])
    OBVIOUS
<1> HIDE DEF rows
<1>6. ToSet(FlattenSeq(rows)) = UNION {ToSet(rows[i]) : i \in DOMAIN rows}
    BY <1>4, FlattenElements
<1>7. \A x : x \in ToSet(Joinables(m)) <=>
                \E i \in DOMAIN m : \E e \in ToSet(m[i].foreign_keys) : x = Joinable(m[i].name, e)
    <2>1. \A x : x \in ToSet(Joinables(m)) <=> \E i \in DOMAIN m : x \in ToSet(JoinsOf(m[i]))
        BY <1>1, <1>5, <1>6
    <2> DEFINE Of(i, x) == \E e \in ToSet(m[i].foreign_keys) : x = Joinable(m[i].name, e)
    <2>2. ASSUME NEW i \in DOMAIN m, NEW x PROVE x \in ToSet(JoinsOf(m[i])) <=> Of(i, x)
        BY <1>2
    <2> HIDE DEF Of
    <2>3. \A x : x \in ToSet(Joinables(m)) <=> \E i \in DOMAIN m : Of(i, x)
        BY <2>1, <2>2
    <2> QED
        BY <2>3 DEF Of
<1>8. \A x : x \in ToSet(Joinables(m)) <=> \E k \in DOMAIN Joinables(m) : x = Joinables(m)[k]
    BY DEF ToSet
<1> QED
    BY <1>7, <1>8

\* When no column that refers to a table is dropped, every joinable! names a
\* column that its table! has, and a parent.
THEOREM JoinsAlwaysNameColumns ==
    ASSUME TablesStay, ReferencesStay
    PROVE  Spec => []JoinsNameColumns
<1>1. FollowInv => JoinsNameColumns
    <2> SUFFICES ASSUME FollowInv, ~failed, NEW k \in DOMAIN Joinables(model)
                 PROVE  LET j == Joinables(model)[k]
                        IN  /\ \E i \in DOMAIN model :
                                  model[i].name = j.child /\ Contains(Names(model[i].columns), j.column)
                            /\ j.parent \in Declared \cup hatch
        BY DEF JoinsNameColumns
    <2>1. model \in Seq(ModelTables) /\ Backends # {}
        BY SchemaAssumption DEF FollowInv, TypeOK
    <2>2. PICK i \in DOMAIN model : \E e \in ToSet(model[i].foreign_keys) :
                  Joinables(model)[k] = Joinable(model[i].name, e)
        BY <2>1, JoinablesAre
    <2>3. PICK e \in ToSet(model[i].foreign_keys) : Joinables(model)[k] = Joinable(model[i].name, e)
        BY <2>2
    <2>4. PICK b \in Backends : Follows(model, hatch, catalog[b], b)
        BY <2>1 DEF FollowInv
    <2>5. Has(model[i], e[1]) /\ e[2] \in Declared \cup hatch
        BY <2>4 DEF Follows, Pair, Joined, Declared, DeclaredBy
    <2>6. Contains(Names(model[i].columns), e[1])
        <3>1. model[i].columns \in Seq(ModelColumns)
            BY <2>1, TableHas
        <3>2. DOMAIN Names(model[i].columns) = 1 .. Len(Names(model[i].columns))
            BY <3>1 DEF Names
        <3> QED
            BY <2>5, <3>1, <3>2 DEF Has, Contains, Names
    <2>7. /\ Joinables(model)[k].child = model[i].name
          /\ Joinables(model)[k].parent = e[2] /\ Joinables(model)[k].column = e[1]
        BY <2>3 DEF Joinable
    <2> QED
        BY <2>5, <2>6, <2>7
<1> QED
    BY <1>1, FollowsAlways, PTL

\* When ADD COLUMN carries no REFERENCES, every foreign key of the databases
\* has its joinable!.
THEOREM ForeignKeysAlwaysJoin ==
    ASSUME TablesStay, NoReferenceAdded
    PROVE  Spec => []ForeignKeysJoin
<1>1. FollowInv => ForeignKeysJoin
    <2> SUFFICES ASSUME FollowInv, ~failed, NEW b \in Backends,
                        NEW x \in Declared \cap DOMAIN catalog[b], NEW fk \in catalog[b][x].fks
                 PROVE  \E k \in DOMAIN Joinables(model) :
                           Joinables(model)[k].child = x /\ Joinables(model)[k].parent = fk.parent
        BY DEF ForeignKeysJoin
    <2>1. model \in Seq(ModelTables)
        BY DEF FollowInv, TypeOK
    <2>2. PICK i \in DOMAIN model : model[i].name = x
        BY DEF Declared
    <2>3. Linked(model[i], catalog[b][x])
        BY <2>2 DEF FollowInv, Follows, Pair
    <2>4. PICK e \in ToSet(model[i].foreign_keys) : e[2] = fk.parent
        BY <2>3 DEF Linked
    <2>5. PICK k \in DOMAIN Joinables(model) : Joinables(model)[k] = Joinable(model[i].name, e)
        BY <2>1, JoinablesAre
    <2> QED
        BY <2>2, <2>4, <2>5 DEF Joinable
<1> QED
    BY <1>1, FollowsAlways, PTL

=============================================================================

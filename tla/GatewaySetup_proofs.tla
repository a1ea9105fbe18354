------------------------- MODULE GatewaySetup_proofs -------------------------
(***************************************************************************)
(* Proofs about GatewaySetup, for every set of FMUs and environments that  *)
(* satisfies the assumptions, and any number of instances.                 *)
(***************************************************************************)
EXTENDS GatewaySetup, FlattenLemmas, FiniteSetTheorems

(***************************************************************************)
(* Lists.                                                                  *)
(***************************************************************************)
Elems(s) == {s[i] : i \in 1 .. Len(s)}

LEMMA ListSeq ==
  ASSUME NEW s, IsList(s)
  PROVE  /\ Len(s) \in Nat /\ DOMAIN s = 1 .. Len(s)
         /\ s \in Seq(Elems(s)) /\ ToSet(s) = Elems(s)
<1>1. Len(s) \in Nat /\ DOMAIN s = 1 .. Len(s)
  BY DEF IsList
<1>2. s \in [1 .. Len(s) -> Elems(s)]
  BY DEF IsList, Elems
<1>3. s \in Seq(Elems(s))
  BY <1>1, <1>2, SeqDef
<1> QED  BY <1>1, <1>3 DEF ToSet, Elems

LEMMA SeqList ==
  ASSUME NEW X, NEW s \in Seq(X)
  PROVE  IsList(s) /\ \A i \in 1 .. Len(s) : s[i] \in X
BY LenProperties, ElementOfSeq DEF IsList

LEMMA EmptyList == IsList(<< >>) /\ Len(<< >>) = 0 /\ Elems(<< >>) = {}
<1>1. Len(<< >>) = 0 /\ << >> \in Seq({})
  BY EmptySeq
<1>2. IsList(<< >>)
  BY <1>1, SeqList
<1> QED  BY <1>1, <1>2 DEF Elems

LEMMA SingleList ==
  ASSUME NEW x
  PROVE  IsList(<<x>>) /\ Len(<<x>>) = 1 /\ <<x>>[1] = x /\ Elems(<<x>>) = {x}
<1>1. <<x>> \in Seq({x}) /\ Len(<<x>>) = 1 /\ <<x>>[1] = x
  OBVIOUS
<1>2. IsList(<<x>>)
  BY <1>1, SeqList
<1> QED  BY <1>1, <1>2 DEF Elems

LEMMA ConcatList ==
  ASSUME NEW s, NEW t, IsList(s), IsList(t)
  PROVE  /\ IsList(s \o t) /\ Len(s \o t) = Len(s) + Len(t)
         /\ \A i \in 1 .. Len(s) : (s \o t)[i] = s[i]
         /\ \A i \in 1 .. Len(t) : (s \o t)[Len(s) + i] = t[i]
         /\ Elems(s \o t) = Elems(s) \cup Elems(t)
<1> DEFINE X == Elems(s) \cup Elems(t)
           u == s \o t
<1>1. s \in Seq(Elems(s)) /\ t \in Seq(Elems(t)) /\ Len(s) \in Nat /\ Len(t) \in Nat
  BY ListSeq
<1>2. s \in Seq(X) /\ t \in Seq(X)
  BY <1>1
<1> HIDE DEF X
<1>3. /\ u \in Seq(X) /\ Len(u) = Len(s) + Len(t)
      /\ \A i \in 1 .. Len(u) : u[i] = IF i <= Len(s) THEN s[i] ELSE t[i - Len(s)]
  BY <1>2, ConcatProperties
<1>4. IsList(u)
  BY <1>3, SeqList
<1> HIDE DEF u
<1>5. \A i \in 1 .. Len(s) : i \in 1 .. Len(u) /\ u[i] = s[i]
  BY <1>1, <1>3
<1>6. \A i \in 1 .. Len(t) : Len(s) + i \in 1 .. Len(u) /\ u[Len(s) + i] = t[i]
  <2> TAKE i \in 1 .. Len(t)
  <2>1. /\ Len(s) + i \in 1 .. Len(u) /\ ~(Len(s) + i <= Len(s))
        /\ (Len(s) + i) - Len(s) = i
    BY <1>1, <1>3
  <2> QED  BY <1>3, <2>1
<1>7. \A i \in 1 .. Len(u) : u[i] \in Elems(s) \cup Elems(t)
  <2> TAKE i \in 1 .. Len(u)
  <2>1. CASE i <= Len(s)
    BY <1>1, <1>3, <2>1 DEF Elems
  <2>2. CASE ~(i <= Len(s))
    <3>1. i - Len(s) \in 1 .. Len(t)  BY <1>1, <1>3, <2>2
    <3> QED  BY <1>3, <2>2, <3>1 DEF Elems
  <2> QED  BY <2>1, <2>2
<1>8. Elems(u) = Elems(s) \cup Elems(t)
  BY <1>5, <1>6, <1>7 DEF Elems
<1> QED  BY <1>3, <1>4, <1>5, <1>6, <1>8 DEF u

(* The elements of r are those of s at the places at, which are I.         *)
Selects(at, s, I, r) ==
  /\ at \in [1 .. Len(r) -> 1 .. Len(s)]
  /\ \A i \in 1 .. Len(r) : at[i] \in I /\ r[i] = s[at[i]]
  /\ \A i, j \in 1 .. Len(r) : i # j => at[i] # at[j]
  /\ \A n \in 1 .. Len(s) : n \in I => \E i \in 1 .. Len(r) : at[i] = n

LEMMA SelectFacts ==
  ASSUME NEW s, IsList(s), NEW I
  PROVE  /\ IsList(Select(s, I))
         /\ \E at : Selects(at, s, I, Select(s, I))
         /\ Elems(Select(s, I)) = {s[n] : n \in {k \in 1 .. Len(s) : k \in I}}
<1> DEFINE X == Elems(s)
           p == [i \in 1 .. Len(s) |-> IF i \in I THEN <<s[i]>> ELSE << >>]
           r == Select(s, I)
<1>0. Len(s) \in Nat /\ s \in Seq(X) /\ \A i \in 1 .. Len(s) : s[i] \in X
  BY ListSeq DEF Elems
<1> HIDE DEF X
<1>1. \A i \in 1 .. Len(s) : p[i] \in Seq(X)
  <2> TAKE i \in 1 .. Len(s)
  <2>1. <<s[i]>> \in Seq(X) /\ << >> \in Seq(X)  BY <1>0, EmptySeq
  <2> QED  BY <2>1
<1>2. p \in Seq(Seq(X)) /\ Len(p) = Len(s)
  <2>1. p \in [1 .. Len(s) -> Seq(X)]  BY <1>1
  <2> QED  BY <1>0, <2>1, SeqDef, LenProperties
<1>3. \A i \in 1 .. Len(s) :
        /\ i \in I => p[i] = <<s[i]>> /\ Len(p[i]) = 1 /\ p[i][1] = s[i]
        /\ i \notin I => Len(p[i]) = 0
  BY EmptySeq
<1>4. r = FlattenSeq(p)
  BY DEF Select
<1> HIDE DEF p, r
<1>5. r \in Seq(X)
  BY <1>2, <1>4, FlattenType
<1>6. PICK turn, place : Locates(turn, place, p, r)
  BY <1>2, <1>4, FlattenLocates
<1>7. /\ turn \in [1 .. Len(r) -> 1 .. Len(s)]
      /\ \A i \in 1 .. Len(r) : place[i] \in 1 .. Len(p[turn[i]]) /\ r[i] = p[turn[i]][place[i]]
      /\ \A i, j \in 1 .. Len(r) : i < j =>
           turn[i] < turn[j] \/ (turn[i] = turn[j] /\ place[i] < place[j])
      /\ \A m \in 1 .. Len(s) : \A q \in 1 .. Len(p[m]) :
           \E i \in 1 .. Len(r) : turn[i] = m /\ place[i] = q
  BY <1>2, <1>6 DEF Locates
<1>8. ASSUME NEW i \in 1 .. Len(r)
      PROVE  turn[i] \in 1 .. Len(s) /\ turn[i] \in I /\ place[i] = 1 /\ r[i] = s[turn[i]]
  <2>1. turn[i] \in 1 .. Len(s) /\ place[i] \in 1 .. Len(p[turn[i]]) /\ r[i] = p[turn[i]][place[i]]
    BY <1>7
  <2>2. turn[i] \in I
    BY <1>3, <2>1
  <2> QED  BY <1>3, <2>1, <2>2
<1>9. ASSUME NEW i \in 1 .. Len(r), NEW j \in 1 .. Len(r), i # j  PROVE turn[i] # turn[j]
  <2>1. Len(r) \in Nat  BY <1>5, LenProperties
  <2>2. i < j \/ j < i  BY <2>1, <1>9
  <2>3. place[i] = 1 /\ place[j] = 1 /\ turn[i] \in Nat /\ turn[j] \in Nat  BY <1>0, <1>8
  <2> QED  BY <1>7, <2>2, <2>3
<1>10. ASSUME NEW n \in 1 .. Len(s), n \in I  PROVE \E i \in 1 .. Len(r) : turn[i] = n
  <2>1. 1 \in 1 .. Len(p[n])  BY <1>3, <1>10
  <2> QED  BY <1>7, <2>1
<1>11. Selects(turn, s, I, r)
  BY <1>7, <1>8, <1>9, <1>10 DEF Selects
<1>12. Elems(r) = {s[n] : n \in {k \in 1 .. Len(s) : k \in I}}
  BY <1>8, <1>10 DEF Elems
<1>13. IsList(r)
  BY <1>5, SeqList
<1> QED  BY <1>11, <1>12, <1>13 DEF r

(* A function on 1 .. n is a list.                                         *)
LEMMA FunList ==
  ASSUME NEW n \in Nat, NEW f, f = [i \in 1 .. n |-> f[i]]
  PROVE  IsList(f) /\ Len(f) = n
<1> DEFINE X == {f[i] : i \in 1 .. n}
<1>1. f \in [1 .. n -> X]
  OBVIOUS
<1>2. f \in Seq(X) /\ DOMAIN f = 1 .. n
  BY <1>1, SeqDef
<1>3. Len(f) = n
  BY <1>2, LenProperties
<1> QED  BY <1>2, <1>3, SeqList

LEMMA HighestIn ==
  ASSUME NEW n \in Nat, NEW T, T \subseteq 1 .. n, T # {}
  PROVE  Highest(T) \in T
<1>1. T \subseteq 0 .. n
  OBVIOUS
<1>2. PICK u \in T : \A m \in T : m <= u
  BY <1>1, NatMax
<1> QED  BY <1>2 DEF Highest
-----------------------------------------------------------------------------
(***************************************************************************)
(* The parameters.                                                         *)
(***************************************************************************)
ConfInv ==
  /\ platform \in {"unix", "win32"} /\ user \in Environments
  /\ \E f \in Fmus : xml = f.xml /\ stack = f.stack /\ files = f.files /\ chan = f.signals

Described(p) == xml # NULL /\ \E i \in DOMAIN xml.params : p = xml.params[i]

LEMMA DescribedFacts ==
  ASSUME ConfInv, NEW p, NEW q, Described(p), Described(q)
  PROVE  /\ p.name = q.name => p = q
         /\ p.type = q.type /\ p.vref = q.vref /\ p.vref # NULL => p = q
         /\ p.type = "String" => p.start = NULL \/ IsText(p.start)
         /\ p.type = "Real" => p.start = NULL \/ p.start \in Int
BY ParamAssumption DEF ConfInv, Described

LEMMA ParamsFacts ==
  ASSUME ConfInv, NEW use, NEW type
  PROVE  /\ IsList(Params(use, type))
         /\ \A p \in Elems(Params(use, type)) : Described(p) /\ p.use = use /\ p.type = type
<1>1. CASE xml = NULL
  BY <1>1, EmptyList DEF Params
<1>2. CASE xml # NULL
  <2> DEFINE I == {i \in DOMAIN xml.params : xml.params[i].use = use /\ xml.params[i].type = type}
  <2>1. IsList(xml.params)
    BY <1>2, ParamAssumption DEF ConfInv
  <2>2. Params(use, type) = Select(xml.params, I)
    BY <1>2 DEF Params
  <2>3. /\ IsList(Select(xml.params, I))
        /\ Elems(Select(xml.params, I)) = {xml.params[n] : n \in {k \in 1 .. Len(xml.params) : k \in I}}
    BY <2>1, SelectFacts
  <2> QED  BY <1>2, <2>2, <2>3 DEF Described
<1> QED  BY <1>1, <1>2

LEMMA SelectedFrom ==
  ASSUME NEW s, IsList(s), NEW I
  PROVE  /\ IsList(Select(s, I))
         /\ \A x \in Elems(Select(s, I)) : x \in Elems(s) /\ \E n \in I : n \in 1 .. Len(s) /\ x = s[n]
<1>1. IsList(Select(s, I)) /\ Elems(Select(s, I)) = {s[n] : n \in {k \in 1 .. Len(s) : k \in I}}
  BY SelectFacts
<1> QED  BY <1>1 DEF Elems

LEMMA ScriptFacts ==
  ASSUME ConfInv
  PROVE  /\ IsList(ScriptParams)
         /\ \A p \in Elems(ScriptParams) :
              Described(p) /\ p.use = "script" /\ p.type \in {"String", "Real"} /\ p.vref # NULL
<1> DEFINE S == Params("script", "String")
           R == Params("script", "Real")
           s == Select(S, Enumerated(S))
           r == Select(R, Enumerated(R))
<1>1. /\ IsList(S) /\ \A p \in Elems(S) : Described(p) /\ p.use = "script" /\ p.type = "String"
      /\ IsList(R) /\ \A p \in Elems(R) : Described(p) /\ p.use = "script" /\ p.type = "Real"
  BY ParamsFacts
<1>2. ScriptParams = s \o r
  BY DEF ScriptParams
<1> HIDE DEF S, R
<1>3. /\ IsList(s) /\ \A x \in Elems(s) : x \in Elems(S) /\ x.vref # NULL
      /\ IsList(r) /\ \A x \in Elems(r) : x \in Elems(R) /\ x.vref # NULL
  <2>1. ASSUME NEW q, IsList(q), NEW x \in Elems(Select(q, Enumerated(q)))
        PROVE  x \in Elems(q) /\ x.vref # NULL
    <3>1. PICK n \in Enumerated(q) : n \in 1 .. Len(q) /\ x = q[n] /\ x \in Elems(q)
      BY <2>1, SelectedFrom
    <3>2. n \in DOMAIN q /\ ~(n < n)
      BY <2>1, <3>1, ListSeq
    <3> QED  BY <3>1, <3>2 DEF Enumerated
  <2> QED  BY <1>1, <2>1, SelectedFrom
<1> HIDE DEF s, r
<1>4. IsList(s \o r) /\ Elems(s \o r) = Elems(s) \cup Elems(r)
  BY <1>3, ConcatList
<1> QED  BY <1>1, <1>2, <1>3, <1>4

LEMMA RuntimeFacts ==
  ASSUME ConfInv, NEW type
  PROVE  /\ IsList(RuntimeParams(type))
         /\ \A p \in Elems(RuntimeParams(type)) :
              Described(p) /\ p.use = "simer" /\ p.type = type /\ p.vref # NULL
<1>1. CASE xml # NULL /\ xml.runtime = "simer"
  <2> DEFINE s == Params("simer", type)
             I == {i \in DOMAIN s : s[i].vref # NULL}
  <2>1. RuntimeParams(type) = Select(s, I)
    BY <1>1 DEF RuntimeParams
  <2>2. IsList(s) /\ \A p \in Elems(s) : Described(p) /\ p.use = "simer" /\ p.type = type
    BY ParamsFacts
  <2> HIDE DEF s
  <2>3. /\ IsList(Select(s, I))
        /\ \A x \in Elems(Select(s, I)) : x \in Elems(s) /\ \E n \in I : n \in 1 .. Len(s) /\ x = s[n]
    BY <2>2, SelectedFrom
  <2> QED  BY <2>1, <2>2, <2>3
<1>2. CASE ~(xml # NULL /\ xml.runtime = "simer")
  BY <1>2, EmptyList DEF RuntimeParams
<1> QED  BY <1>1, <1>2

LEMMA AllFacts ==
  ASSUME ConfInv
  PROVE  /\ IsList(AllParams)
         /\ Elems(AllParams) = Elems(RuntimeParams("String")) \cup Elems(RuntimeParams("Real"))
                                  \cup Elems(ScriptParams)
<1>1. IsList(RuntimeParams("String")) /\ IsList(RuntimeParams("Real")) /\ IsList(ScriptParams)
  BY RuntimeFacts, ScriptFacts
<1>2. LET s == RuntimeParams("String") \o RuntimeParams("Real")
      IN  IsList(s) /\ Elems(s) = Elems(RuntimeParams("String")) \cup Elems(RuntimeParams("Real"))
  BY <1>1, ConcatList
<1>3. /\ IsList((RuntimeParams("String") \o RuntimeParams("Real")) \o ScriptParams)
      /\ Elems((RuntimeParams("String") \o RuntimeParams("Real")) \o ScriptParams) =
           Elems(RuntimeParams("String") \o RuntimeParams("Real")) \cup Elems(ScriptParams)
  BY <1>1, <1>2, ConcatList
<1> QED  BY <1>2, <1>3 DEF AllParams

LEMMA ParamFacts ==
  ASSUME ConfInv, NEW p \in Elems(AllParams)
  PROVE  /\ Described(p) /\ p.use \in {"script", "simer"} /\ p.type \in {"String", "Real"}
         /\ p.vref # NULL
<1>1. \/ p \in Elems(RuntimeParams("String")) \/ p \in Elems(RuntimeParams("Real"))
      \/ p \in Elems(ScriptParams)
  BY AllFacts
<1> QED  BY <1>1, RuntimeFacts, ScriptFacts

(* The value a parameter is registered with.                               *)
StartValue(p, zero) == IF p.use = "script" THEN Or(p.start, zero) ELSE zero

LEMMA RegisteredFacts ==
  ASSUME ConfInv, NEW type, type \in {"String", "Real"}, NEW zero
  PROVE  /\ Registered(type, zero) = [v \in DOMAIN Registered(type, zero) |-> Registered(type, zero)[v]]
         /\ \A v \in DOMAIN Registered(type, zero) :
              \E p \in Elems(AllParams) : p.type = type /\ p.vref = v
         /\ \A p \in Elems(AllParams) : p.type = type =>
              /\ p.vref \in DOMAIN Registered(type, zero)
              /\ Registered(type, zero)[p.vref] = StartValue(p, zero)
<1> DEFINE P == ScriptParams
           a == RuntimeParams(type)
           I == {i \in DOMAIN P : P[i].type = type}
           b == Select(P, I)
           A == [i \in 1 .. Len(a) |-> <<a[i].vref, zero>>]
           B == [i \in 1 .. Len(b) |-> <<b[i].vref, Or(b[i].start, zero)>>]
           s == A \o B
           R == Registered(type, zero)
<1>1. R = [v \in {s[i][1] : i \in DOMAIN s} |-> s[Highest({i \in DOMAIN s : s[i][1] = v})][2]]
  BY DEF Registered, Map
<1>2. /\ IsList(a) /\ Len(a) \in Nat
      /\ \A p \in Elems(a) : p \in Elems(AllParams) /\ p.use = "simer" /\ p.type = type
  BY RuntimeFacts, AllFacts, ListSeq
<1>3. IsList(P) /\ DOMAIN P = 1 .. Len(P) /\ \A p \in Elems(P) : p \in Elems(AllParams) /\ p.use = "script"
  BY ScriptFacts, AllFacts, ListSeq
<1>4. \A p \in Elems(AllParams) : p.type = type => p \in Elems(a) \/ p \in Elems(P)
  <2> TAKE p \in Elems(AllParams)
  <2>1. \/ p \in Elems(RuntimeParams("String")) \/ p \in Elems(RuntimeParams("Real"))
        \/ p \in Elems(P)
    BY AllFacts
  <2>2. /\ p \in Elems(RuntimeParams("String")) => p.type = "String"
        /\ p \in Elems(RuntimeParams("Real")) => p.type = "Real"
    BY RuntimeFacts
  <2> QED  BY <2>1, <2>2
<1> HIDE DEF P, a, R
<1>5. IsList(b) /\ Len(b) \in Nat /\ Elems(b) = {P[n] : n \in {k \in 1 .. Len(P) : k \in I}}
  BY <1>3, SelectFacts, ListSeq
<1>6. \A p : p \in Elems(b) <=> p \in Elems(P) /\ p.type = type
  BY <1>3, <1>5 DEF Elems
<1> HIDE DEF b, I
<1>7. IsList(A) /\ Len(A) = Len(a) /\ IsList(B) /\ Len(B) = Len(b)
  <2>1. A = [i \in 1 .. Len(a) |-> A[i]] /\ B = [i \in 1 .. Len(b) |-> B[i]]
    OBVIOUS
  <2> HIDE DEF A, B
  <2> QED  BY <1>2, <1>5, <2>1, FunList
<1>8. /\ \A i \in 1 .. Len(a) : A[i] = <<a[i].vref, zero>>
      /\ \A i \in 1 .. Len(b) : B[i] = <<b[i].vref, Or(b[i].start, zero)>>
  OBVIOUS
<1> HIDE DEF A, B
<1>9. /\ IsList(s) /\ Len(s) = Len(a) + Len(b) /\ DOMAIN s = 1 .. Len(s) /\ Len(s) \in Nat
      /\ \A i \in 1 .. Len(a) : s[i] = A[i]
      /\ \A i \in 1 .. Len(b) : s[Len(a) + i] = B[i]
  BY <1>7, ConcatList, ListSeq
<1> HIDE DEF s
<1> DEFINE Entry(p) == <<p.vref, StartValue(p, zero)>>
<1>10. \A p \in Elems(a) : p \in Elems(AllParams) /\ p.type = type /\ Entry(p) = <<p.vref, zero>>
  BY <1>2 DEF StartValue
<1>11. \A p \in Elems(b) : /\ p \in Elems(AllParams) /\ p.type = type
                           /\ Entry(p) = <<p.vref, Or(p.start, zero)>>
  BY <1>3, <1>6 DEF StartValue
<1>12. \A i \in 1 .. Len(a) : a[i] \in Elems(a) /\ s[i] = Entry(a[i])
  BY <1>8, <1>9, <1>10 DEF Elems
<1>13. \A i \in 1 .. Len(b) : b[i] \in Elems(b) /\ s[Len(a) + i] = Entry(b[i])
  BY <1>8, <1>9, <1>11 DEF Elems
<1>14. ASSUME NEW i \in 1 .. Len(s)
       PROVE  \E p \in Elems(AllParams) : p.type = type /\ s[i] = Entry(p)
  <2>1. CASE i <= Len(a)
    <3>1. i \in 1 .. Len(a)  BY <1>2, <2>1
    <3> QED  BY <1>10, <1>12, <3>1
  <2>2. CASE ~(i <= Len(a))
    <3>1. i - Len(a) \in 1 .. Len(b) /\ Len(a) + (i - Len(a)) = i  BY <1>2, <1>5, <1>9, <2>2
    <3> QED  BY <1>11, <1>13, <3>1
  <2> QED  BY <2>1, <2>2
<1>15. ASSUME NEW p \in Elems(AllParams), p.type = type
       PROVE  \E i \in 1 .. Len(s) : s[i] = Entry(p)
  <2>1. CASE p \in Elems(a)
    <3>1. PICK i \in 1 .. Len(a) : p = a[i]  BY <2>1 DEF Elems
    <3>2. i \in 1 .. Len(s)  BY <1>2, <1>5, <1>9
    <3> QED  BY <1>12, <3>1, <3>2
  <2>2. CASE p \in Elems(P)
    <3>1. PICK i \in 1 .. Len(b) : p = b[i]  BY <1>6, <1>15, <2>2 DEF Elems
    <3>2. Len(a) + i \in 1 .. Len(s)  BY <1>2, <1>5, <1>9
    <3> QED  BY <1>13, <3>1, <3>2
  <2> QED  BY <1>4, <1>15, <2>1, <2>2
<1>16. \A p : Entry(p)[1] = p.vref /\ Entry(p)[2] = StartValue(p, zero)
  OBVIOUS
<1> HIDE DEF Entry
<1>17. ASSUME NEW p \in Elems(AllParams), p.type = type
       PROVE  p.vref \in DOMAIN R /\ R[p.vref] = StartValue(p, zero)
  <2> DEFINE T == {i \in DOMAIN s : s[i][1] = p.vref}
             h == Highest(T)
  <2>1. PICK i \in 1 .. Len(s) : s[i] = Entry(p)  BY <1>15, <1>17
  <2>2. T \subseteq 1 .. Len(s) /\ i \in T
    BY <1>9, <1>16, <2>1
  <2>3. p.vref \in DOMAIN R /\ R[p.vref] = s[h][2]
    BY <1>1, <2>2
  <2> HIDE DEF T
  <2>4. h \in T
    BY <1>9, <2>2, HighestIn
  <2>5. h \in 1 .. Len(s) /\ s[h][1] = p.vref
    BY <2>2, <2>4 DEF T
  <2> HIDE DEF h
  <2>6. PICK q \in Elems(AllParams) : q.type = type /\ s[h] = Entry(q)
    BY <1>14, <2>5
  <2>7. q = p
    BY <1>16, <1>17, <2>5, <2>6, ParamFacts, DescribedFacts
  <2> QED  BY <1>16, <2>3, <2>6, <2>7
<1>18. \A v \in DOMAIN R : \E p \in Elems(AllParams) : p.type = type /\ p.vref = v
  BY <1>1, <1>9, <1>14, <1>16
<1>19. R = [v \in DOMAIN R |-> R[v]]
  BY <1>1
<1> QED  BY <1>17, <1>18, <1>19 DEF R
-----------------------------------------------------------------------------
(***************************************************************************)
(* The index: the value references of the signals.                         *)
(***************************************************************************)
Inputs == fmigateway_index_scalar_signals("input")
Networks == fmigateway_index_binary_signals("rx")

ScalarSignals == {chan[i].signal : i \in {j \in DOMAIN chan : ~chan[j].binary}}
BinarySignals == {chan[i].signal : i \in {j \in DOMAIN chan : chan[j].binary}}

IsInput(i, v) == i \in Scalar /\ chan[i].vref = v /\ chan[i].causality = "input"
IsRx(i, v) == i \in Binary /\ v \in chan[i].rx

LEMMA ChanFacts ==
  ASSUME ConfInv
  PROVE  /\ Len(chan) \in Nat /\ DOMAIN chan = 1 .. Len(chan)
         /\ \A i \in DOMAIN chan : chan[i].signal # NULL
         /\ \A i, j, v : IsInput(i, v) /\ IsInput(j, v) => chan[i].signal = chan[j].signal
         /\ \A i, j, v : IsRx(i, v) /\ IsRx(j, v) => chan[i].signal = chan[j].signal
         /\ \A p \in Elems(AllParams) : \A i :
              /\ p.type = "Real" => ~IsInput(i, p.vref)
              /\ p.type = "String" => ~IsRx(i, p.vref)
<1>1. PICK f \in Fmus : xml = f.xml /\ chan = f.signals
  BY DEF ConfInv
<1>2. IsList(chan) /\ \A i \in DOMAIN chan : chan[i].signal # NULL
  BY <1>1, SignalAssumption
<1>3. \A i, j, v : IsInput(i, v) /\ IsInput(j, v) => chan[i].signal = chan[j].signal
  BY <1>1, SignalAssumption DEF IsInput, Scalar
<1>4. \A i, j, v : IsRx(i, v) /\ IsRx(j, v) => chan[i].signal = chan[j].signal
  <2> SUFFICES ASSUME NEW i, NEW j, NEW v, IsRx(i, v), IsRx(j, v)
               PROVE  chan[i].signal = chan[j].signal
    OBVIOUS
  <2>1. v \in chan[i].rx \cap chan[j].rx
    BY DEF IsRx
  <2> QED  BY <1>1, <2>1, SignalAssumption DEF IsRx, Binary
<1>5. ASSUME NEW p \in Elems(AllParams), NEW i
      PROVE  /\ p.type = "Real" => ~IsInput(i, p.vref)
             /\ p.type = "String" => ~IsRx(i, p.vref)
  <2>1. xml # NULL /\ \E k \in DOMAIN xml.params : p = xml.params[k]
    BY ParamFacts DEF Described
  <2>2. PICK k \in DOMAIN xml.params : p = xml.params[k]
    BY <2>1
  <2> QED  BY <1>1, <2>1, <2>2, SignalAssumption DEF IsInput, IsRx, Scalar, Binary
<1> QED  BY <1>2, <1>3, <1>4, <1>5, ListSeq

LEMMA InputFacts ==
  ASSUME ConfInv
  PROVE  /\ \A v : v \in DOMAIN Inputs <=> \E i : IsInput(i, v)
         /\ \A i, v : IsInput(i, v) => Inputs[v] = chan[i].signal
         /\ \A v \in DOMAIN Inputs : Inputs[v] # NULL /\ Inputs[v] \in ScalarSignals
<1>1. \A v : v \in DOMAIN Inputs <=> \E i : IsInput(i, v)
  BY DEF Inputs, fmigateway_index_scalar_signals, IsInput
<1>2. ASSUME NEW i, NEW v, IsInput(i, v)  PROVE Inputs[v] = chan[i].signal
  <2> DEFINE T == {j \in {k \in Scalar : chan[k].causality = "input"} : chan[j].vref = v}
             h == Highest(T)
  <2>1. Inputs[v] = chan[h].signal
    BY <1>2 DEF Inputs, fmigateway_index_scalar_signals, IsInput
  <2>2. i \in T /\ T \subseteq 1 .. Len(chan)
    BY <1>2, ChanFacts DEF IsInput, Scalar
  <2> HIDE DEF T
  <2>3. h \in T
    BY <2>2, ChanFacts, HighestIn
  <2>4. IsInput(h, v)
    BY <2>3 DEF T, IsInput
  <2> QED  BY <1>2, <2>1, <2>4, ChanFacts
<1>3. \A i, v : IsInput(i, v) => chan[i].signal # NULL /\ chan[i].signal \in ScalarSignals
  BY ChanFacts DEF IsInput, Scalar, ScalarSignals
<1> QED  BY <1>1, <1>2, <1>3

LEMMA NetworkFacts ==
  ASSUME ConfInv
  PROVE  /\ \A v : v \in DOMAIN Networks <=> \E i : IsRx(i, v)
         /\ \A i, v : IsRx(i, v) => Networks[v] = chan[i].signal
         /\ \A v \in DOMAIN Networks : Networks[v] \in BinarySignals
<1>1. \A v : v \in DOMAIN Networks <=> \E i : IsRx(i, v)
  BY DEF Networks, fmigateway_index_binary_signals, IsRx
<1>2. ASSUME NEW i, NEW v, IsRx(i, v)  PROVE Networks[v] = chan[i].signal
  <2> DEFINE T == {j \in Binary : v \in chan[j].rx}
             h == Highest(T)
  <2>1. Networks[v] = chan[h].signal
    BY <1>1, <1>2 DEF Networks, fmigateway_index_binary_signals, IsRx
  <2>2. i \in T /\ T \subseteq 1 .. Len(chan)
    BY <1>2, ChanFacts DEF IsRx, Binary
  <2> HIDE DEF T
  <2>3. h \in T
    BY <2>2, ChanFacts, HighestIn
  <2>4. IsRx(h, v)
    BY <2>3 DEF T, IsRx
  <2> QED  BY <1>2, <2>1, <2>4, ChanFacts
<1>3. \A i, v : IsRx(i, v) => chan[i].signal \in BinarySignals
  BY DEF IsRx, Binary, BinarySignals
<1> QED  BY <1>1, <1>2, <1>3

(* What is read of the documents changes with the documents only.          *)
LEMMA Frame ==
  ASSUME UNCHANGED confVars
  PROVE  /\ platform' = platform /\ xml' = xml /\ stack' = stack /\ chan' = chan /\ user' = user
         /\ AllParams' = AllParams /\ ScriptParams' = ScriptParams
         /\ Inputs' = Inputs /\ Networks' = Networks
         /\ ScalarSignals' = ScalarSignals /\ BinarySignals' = BinarySignals
         /\ XmlSettings' = XmlSettings /\ (ConfInv => ConfInv')
<1>1. /\ platform' = platform /\ xml' = xml /\ stack' = stack /\ files' = files
      /\ chan' = chan /\ user' = user
  BY DEF confVars
<1>2. ScriptParams' = ScriptParams
  BY <1>1 DEF ScriptParams, Params
<1>3. AllParams' = AllParams
  BY <1>1, <1>2 DEF AllParams, RuntimeParams, Params
<1>4. Scalar' = Scalar /\ Binary' = Binary
  BY <1>1 DEF Scalar, Binary
<1>5. Inputs' = Inputs /\ Networks' = Networks
  BY <1>1, <1>4 DEF Inputs, Networks, fmigateway_index_scalar_signals, fmigateway_index_binary_signals
<1>6. ScalarSignals' = ScalarSignals /\ BinarySignals' = BinarySignals
  BY <1>1 DEF ScalarSignals, BinarySignals
<1>7. XmlSettings' = XmlSettings
  BY <1>1 DEF XmlSettings
<1>8. ConfInv => ConfInv'
  BY <1>1 DEF ConfInv
<1> QED  BY <1>1, <1>2, <1>3, <1>5, <1>6, <1>7, <1>8
-----------------------------------------------------------------------------
(***************************************************************************)
(* The values of parameters and signals.                                   *)
(***************************************************************************)
Active == pc \in {"created", "ready"}

(* A parameter holds what the importer gave it, and is not bound to a      *)
(* signal.                                                                 *)
Kept(p) ==
  /\ p.name \in DOMAIN given
  /\ p.type = "String" => /\ p.vref \in DOMAIN string_input /\ IsText(string_input[p.vref])
                          /\ given[p.name] = string_input[p.vref]
  /\ p.type = "Real" => /\ p.vref \in DOMAIN scalar_input
                        /\ scalar_input[p.vref].signal = NULL
                        /\ scalar_input[p.vref].value \in Int
                        /\ given[p.name] = scalar_input[p.vref].value

ParamInv == Active => \A p \in Elems(AllParams) : Kept(p)

(* The signals are bound by fmu_init and not before.                       *)
IndexInv ==
  /\ Active => \A v \in DOMAIN scalar_input : scalar_input[v] =
                 [signal |-> scalar_input[v].signal, value |-> scalar_input[v].value]
  /\ pc # "ready" => DOMAIN binary_rx = {}
  /\ pc = "created" => \A v \in DOMAIN scalar_input : scalar_input[v].signal = NULL
  /\ pc = "ready" => /\ binary_rx = Networks
                     /\ encoded = fmigateway_index_text_encoding
                     /\ DOMAIN Inputs \subseteq DOMAIN scalar_input
                     /\ \A v \in DOMAIN scalar_input :
                          scalar_input[v].signal = IF v \in DOMAIN Inputs THEN Inputs[v] ELSE NULL

(* The signals hold what they were given; since the last step that is      *)
(* nothing, until signals_reset is set.                                    *)
BusInv ==
  /\ signals_reset \in BOOLEAN
  /\ pc = "ready" =>
       /\ bus = expect /\ expect = [s \in ScalarSignals |-> expect[s]]
       /\ net = [s \in BinarySignals |-> net[s]] /\ sent = [s \in BinarySignals |-> sent[s]]
       /\ signals_reset => net = sent
       /\ ~signals_reset => sent = [s \in BinarySignals |-> << >>]

LEMMA GivenFacts ==
  ASSUME ConfInv, NEW v, NEW type, NEW val, NEW p \in Elems(AllParams), p.name \in DOMAIN given
  PROVE  /\ p.name \in DOMAIN Given(v, type, val)
         /\ p.vref = v /\ p.type = type => Given(v, type, val)[p.name] = val
         /\ ~(p.vref = v /\ p.type = type) => Given(v, type, val)[p.name] = given[p.name]
<1> DEFINE C == \E i \in DOMAIN AllParams : /\ AllParams[i].name = p.name /\ AllParams[i].vref = v
                                            /\ AllParams[i].type = type
<1>1. DOMAIN AllParams = 1 .. Len(AllParams)
  BY AllFacts, ListSeq
<1>2. \A i \in DOMAIN AllParams : AllParams[i] \in Elems(AllParams)
  BY <1>1 DEF Elems
<1>3. \A q \in Elems(AllParams) : q.name = p.name => q = p
  BY ParamFacts, DescribedFacts
<1>4. \E i \in DOMAIN AllParams : AllParams[i] = p
  BY <1>1 DEF Elems
<1>5. C <=> p.vref = v /\ p.type = type
  BY <1>2, <1>3, <1>4
<1>6. Given(v, type, val)[p.name] = IF C THEN val ELSE given[p.name]
  BY DEF Given
<1>7. p.name \in DOMAIN Given(v, type, val)
  BY DEF Given
<1> HIDE DEF C
<1> QED  BY <1>5, <1>6, <1>7

ValInv == ParamInv /\ IndexInv /\ BusInv

LEMMA CreateValues ==
  ASSUME ConfInv, ValInv, fmu_create
  PROVE  ValInv'
<1> DEFINE A == AllParams
           rs == Registered("String", "")
           rr == Registered("Real", 0)
           Zero(p) == IF p.type = "String" THEN "" ELSE 0
           Val(p) == IF p.use = "script" THEN Or(p.start, Zero(p)) ELSE Zero(p)
           Of(n) == A[CHOOSE i \in DOMAIN A : A[i].name = n]
<1>1. /\ UNCHANGED confVars /\ pc' = "created" /\ binary_rx' = binary_rx
      /\ pc \in {"none", "freed"} /\ signals_reset' = signals_reset
      /\ string_input' = rs
      /\ scalar_input' = [v \in DOMAIN rr |-> [signal |-> NULL, value |-> rr[v]]]
      /\ given' = [n \in {A[i].name : i \in DOMAIN A} |-> Val(Of(n))]
  BY DEF fmu_create, busVars
<1>2. IsList(A) /\ DOMAIN A = 1 .. Len(A)
  BY AllFacts, ListSeq
<1>3. A' = A
  BY <1>1, Frame
<1>4. ASSUME NEW p \in Elems(A)
      PROVE  p.name \in DOMAIN given' /\ given'[p.name] = Val(p)
  <2> HIDE DEF A, Val
  <2>1. PICK i \in DOMAIN A : A[i] = p
    BY <1>2 DEF Elems
  <2>2. \A j \in DOMAIN A : A[j] \in Elems(A)
    BY <1>2 DEF Elems
  <2>3. Of(p.name) \in Elems(A) /\ Of(p.name).name = p.name
    BY <2>1, <2>2
  <2>4. Of(p.name) = p
    BY <2>3, ParamFacts, DescribedFacts DEF A
  <2> HIDE DEF Of
  <2> QED  BY <1>1, <2>1, <2>4
<1>5. ASSUME NEW p \in Elems(A)
      PROVE  Kept(p)'
  <2>0. /\ p.type \in {"String", "Real"}
        /\ p.type = "String" => p.start = NULL \/ IsText(p.start)
        /\ p.type = "Real" => p.start = NULL \/ p.start \in Int
    BY ParamFacts, DescribedFacts
  <2>1. CASE p.type = "String"
    <3>1. p.vref \in DOMAIN rs /\ rs[p.vref] = StartValue(p, "")
      BY <2>1, RegisteredFacts
    <3>2. StartValue(p, "") = Val(p) /\ IsText(StartValue(p, ""))
      BY <2>0, <2>1, EnvironmentAssumption DEF StartValue, Or
    <3> HIDE DEF rs, Val, A
    <3> QED  BY <1>1, <1>4, <2>1, <3>1, <3>2 DEF Kept
  <2>2. CASE p.type = "Real"
    <3>1. p.vref \in DOMAIN rr /\ rr[p.vref] = StartValue(p, 0)
      BY <2>2, RegisteredFacts
    <3>2. StartValue(p, 0) = Val(p) /\ StartValue(p, 0) \in Int
      BY <2>0, <2>2 DEF StartValue, Or
    <3> HIDE DEF rr, Val, A
    <3> QED  BY <1>1, <1>4, <2>2, <3>1, <3>2 DEF Kept
  <2> QED  BY <2>0, <2>1, <2>2
<1>6. ParamInv'
  BY <1>3, <1>5 DEF ParamInv
<1>7. IndexInv'
  <2> HIDE DEF rr
  <2>1. /\ \A v \in DOMAIN scalar_input' : scalar_input'[v] =
             [signal |-> scalar_input'[v].signal, value |-> scalar_input'[v].value]
        /\ \A v \in DOMAIN scalar_input' : scalar_input'[v].signal = NULL
    BY <1>1
  <2>2. DOMAIN binary_rx' = {}
    BY <1>1 DEF ValInv, IndexInv
  <2> QED  BY <1>1, <2>1, <2>2 DEF IndexInv
<1>8. BusInv'
  BY <1>1 DEF ValInv, BusInv
<1> QED  BY <1>6, <1>7, <1>8 DEF ValInv

LEMMA InitValues ==
  ASSUME ConfInv, ValInv, NEW rc, NEW gw, fmu_init(rc, gw)
  PROVE  ValInv'
<1>1. UNCHANGED confVars /\ pc = "created" /\ given' = given
  BY DEF fmu_init
<1>2. AllParams' = AllParams /\ Inputs' = Inputs /\ Networks' = Networks /\ chan' = chan
      /\ ScalarSignals' = ScalarSignals /\ BinarySignals' = BinarySignals
  BY <1>1, Frame
<1>3. CASE ~(rc = 0 /\ gw = 0)
  <2>1. pc' = "failed" /\ binary_rx' = binary_rx /\ signals_reset' = signals_reset
    BY <1>3 DEF fmu_init, InitFailed, mapVars, busVars
  <2>2. DOMAIN binary_rx = {} /\ signals_reset \in BOOLEAN
    BY <1>1 DEF ValInv, IndexInv, BusInv
  <2> QED  BY <2>1, <2>2 DEF ValInv, ParamInv, IndexInv, BusInv, Active
<1>4. CASE rc = 0 /\ gw = 0
  <2>1. /\ pc' = "ready" /\ string_input' = string_input /\ signals_reset' = signals_reset
        /\ bus' = [s \in ScalarSignals |-> 0] /\ net' = [s \in BinarySignals |-> << >>]
        /\ expect' = bus' /\ sent' = net'
        /\ binary_rx' = Networks /\ encoded' = fmigateway_index_text_encoding
        /\ scalar_input' = [v \in DOMAIN Inputs \cup DOMAIN scalar_input |->
             IF v \in DOMAIN Inputs THEN [signal |-> Inputs[v], value |-> 0] ELSE scalar_input[v]]
    BY <1>4 DEF fmu_init, InitOK, BindSignals, Inputs, Networks, ScalarSignals, BinarySignals
  <2>2. ASSUME NEW p \in Elems(AllParams)  PROVE Kept(p)'
    <3>1. Kept(p)
      BY <1>1 DEF ValInv, ParamInv, Active
    <3>2. p.type = "Real" => p.vref \notin DOMAIN Inputs
      BY InputFacts, ChanFacts
    <3>3. p.type = "Real" => p.vref \in DOMAIN scalar_input' /\ scalar_input'[p.vref] = scalar_input[p.vref]
      BY <2>1, <3>1, <3>2 DEF Kept
    <3> QED  BY <1>1, <2>1, <3>1, <3>3 DEF Kept
  <2>3. ParamInv'
    BY <1>2, <2>2 DEF ParamInv
  <2>4. /\ \A v \in DOMAIN scalar_input : scalar_input[v] =
             [signal |-> scalar_input[v].signal, value |-> scalar_input[v].value]
        /\ \A v \in DOMAIN scalar_input : scalar_input[v].signal = NULL
    BY <1>1 DEF ValInv, IndexInv, Active
  <2>5. ASSUME NEW v \in DOMAIN scalar_input'
        PROVE  /\ scalar_input'[v] = [signal |-> scalar_input'[v].signal, value |-> scalar_input'[v].value]
               /\ scalar_input'[v].signal = IF v \in DOMAIN Inputs THEN Inputs[v] ELSE NULL
    <3>1. CASE v \in DOMAIN Inputs
      <4>1. scalar_input'[v] = [signal |-> Inputs[v], value |-> 0]  BY <2>1, <3>1
      <4> QED  BY <3>1, <4>1
    <3>2. CASE v \notin DOMAIN Inputs
      <4>1. v \in DOMAIN scalar_input /\ scalar_input'[v] = scalar_input[v]  BY <2>1, <2>5, <3>2
      <4> QED  BY <2>4, <3>2, <4>1
    <3> QED  BY <3>1, <3>2
  <2>6. fmigateway_index_text_encoding' = fmigateway_index_text_encoding
    BY <1>2 DEF fmigateway_index_text_encoding, Binary
  <2>7. DOMAIN Inputs \subseteq DOMAIN scalar_input'
    BY <2>1
  <2>8. IndexInv'
    BY <1>2, <2>1, <2>5, <2>6, <2>7 DEF IndexInv
  <2>9. BusInv'
    <3>1. signals_reset' \in BOOLEAN
      BY <2>1 DEF ValInv, BusInv
    <3>2. /\ expect' = [s \in ScalarSignals |-> expect'[s]]
          /\ net' = [s \in BinarySignals |-> net'[s]] /\ sent' = [s \in BinarySignals |-> sent'[s]]
          /\ sent' = [s \in BinarySignals |-> << >>]
      BY <2>1
    <3> QED  BY <1>2, <2>1, <3>1, <3>2 DEF BusInv
  <2> QED  BY <2>3, <2>8, <2>9 DEF ValInv
<1> QED  BY <1>3, <1>4

LEMMA SetRealValues ==
  ASSUME ConfInv, ValInv, NEW v, NEW val \in Real, SetReal(v, val)
  PROVE  ValInv'
<1>1. /\ UNCHANGED confVars /\ pc' = pc /\ pc \in {"created", "ready"}
      /\ string_input' = string_input /\ binary_rx' = binary_rx /\ encoded' = encoded
      /\ net' = net /\ sent' = sent /\ signals_reset' = signals_reset
      /\ given' = Given(v, "Real", val)
  BY DEF SetReal
<1>2. /\ v \notin DOMAIN scalar_input => scalar_input' = scalar_input /\ bus' = bus
      /\ v \in DOMAIN scalar_input /\ scalar_input[v].signal = NULL =>
           scalar_input' = [scalar_input EXCEPT ![v].value = val] /\ bus' = bus
      /\ v \in DOMAIN scalar_input /\ scalar_input[v].signal # NULL =>
           bus' = [bus EXCEPT ![scalar_input[v].signal] = val] /\ scalar_input' = scalar_input
  BY DEF SetReal
<1>3. expect' = [s \in DOMAIN expect |-> IF \E i : IsInput(i, v) /\ chan[i].signal = s
                                            THEN val ELSE expect[s]]
  BY DEF SetReal, IsInput
<1>4. AllParams' = AllParams /\ Inputs' = Inputs /\ Networks' = Networks /\ chan' = chan
      /\ ScalarSignals' = ScalarSignals /\ BinarySignals' = BinarySignals
  BY <1>1, Frame
<1>5. \A w \in DOMAIN scalar_input : scalar_input[w] =
        [signal |-> scalar_input[w].signal, value |-> scalar_input[w].value]
  BY <1>1 DEF ValInv, IndexInv, Active
<1>6. /\ DOMAIN scalar_input' = DOMAIN scalar_input
      /\ \A w \in DOMAIN scalar_input :
           /\ scalar_input'[w] = [signal |-> scalar_input'[w].signal, value |-> scalar_input'[w].value]
           /\ scalar_input'[w].signal = scalar_input[w].signal
           /\ w # v => scalar_input'[w].value = scalar_input[w].value
           /\ w = v /\ scalar_input[w].signal = NULL => scalar_input'[w].value = val
  <2>1. CASE v \in DOMAIN scalar_input /\ scalar_input[v].signal = NULL
    <3>1. scalar_input' = [scalar_input EXCEPT ![v] = [scalar_input[v] EXCEPT !.value = val]]
      BY <1>2, <2>1
    <3>2. [scalar_input[v] EXCEPT !.value = val] = [signal |-> scalar_input[v].signal, value |-> val]
      BY <1>5, <2>1
    <3>3. /\ DOMAIN scalar_input' = DOMAIN scalar_input
          /\ scalar_input'[v] = [signal |-> scalar_input[v].signal, value |-> val]
          /\ \A w \in DOMAIN scalar_input : w # v => scalar_input'[w] = scalar_input[w]
      BY <2>1, <3>1, <3>2
    <3> QED  BY <1>5, <2>1, <3>3
  <2>2. CASE ~(v \in DOMAIN scalar_input /\ scalar_input[v].signal = NULL)
    BY <1>2, <1>5, <2>2
  <2> QED  BY <2>1, <2>2
<1>7. ASSUME NEW p \in Elems(AllParams)  PROVE Kept(p)'
  <2>1. Kept(p)
    BY <1>1 DEF ValInv, ParamInv, Active
  <2>2. /\ p.name \in DOMAIN given'
        /\ p.vref = v /\ p.type = "Real" => given'[p.name] = val
        /\ ~(p.vref = v /\ p.type = "Real") => given'[p.name] = given[p.name]
    <3>1. p.name \in DOMAIN given  BY <2>1 DEF Kept
    <3> QED  BY <1>1, <3>1, GivenFacts
  <2>3. val \in Int
    BY EnvironmentAssumption
  <2>4. CASE p.type = "String"
    BY <1>1, <2>1, <2>2, <2>4 DEF Kept
  <2>5. CASE p.type = "Real"
    <3>1. /\ p.vref \in DOMAIN scalar_input /\ scalar_input[p.vref].signal = NULL
          /\ scalar_input[p.vref].value \in Int
          /\ given[p.name] = scalar_input[p.vref].value
      BY <2>1, <2>5 DEF Kept
    <3>2. /\ p.vref \in DOMAIN scalar_input' /\ scalar_input'[p.vref].signal = NULL
          /\ p.vref = v => scalar_input'[p.vref].value = val
          /\ p.vref # v => scalar_input'[p.vref].value = scalar_input[p.vref].value
      BY <1>6, <3>1
    <3>3. scalar_input'[p.vref].value \in Int /\ given'[p.name] = scalar_input'[p.vref].value
      BY <2>2, <2>3, <2>5, <3>1, <3>2
    <3> QED  BY <2>2, <2>5, <3>2, <3>3 DEF Kept
  <2> QED  BY <2>4, <2>5, ParamFacts
<1>8. ParamInv'
  BY <1>4, <1>7 DEF ParamInv
<1>9. IndexInv'
  <2>1. fmigateway_index_text_encoding' = fmigateway_index_text_encoding
    BY <1>4 DEF fmigateway_index_text_encoding, Binary
  <2> QED  BY <1>1, <1>4, <1>6, <2>1 DEF ValInv, IndexInv
<1>10. ASSUME pc = "ready"
       PROVE  bus' = expect' /\ expect' = [s \in ScalarSignals |-> expect'[s]]
  <2>1. bus = expect /\ expect = [s \in ScalarSignals |-> expect[s]]
    BY <1>10 DEF ValInv, BusInv
  <2>2. DOMAIN expect = ScalarSignals
    BY <2>1
  <2>3. \A w \in DOMAIN scalar_input :
          scalar_input[w].signal = IF w \in DOMAIN Inputs THEN Inputs[w] ELSE NULL
    BY <1>10 DEF ValInv, IndexInv
  <2>4. DOMAIN Inputs \subseteq DOMAIN scalar_input
    BY <1>10 DEF ValInv, IndexInv
  <2>5. CASE v \in DOMAIN Inputs
    <3>1. v \in DOMAIN scalar_input /\ scalar_input[v].signal = Inputs[v] /\ Inputs[v] # NULL
      BY <2>3, <2>4, <2>5, InputFacts
    <3>2. bus' = [bus EXCEPT ![Inputs[v]] = val]
      BY <1>2, <3>1
    <3>3. \A s : (\E i : IsInput(i, v) /\ chan[i].signal = s) <=> s = Inputs[v]
      BY <2>5, InputFacts
    <3>4. expect' = [s \in ScalarSignals |-> IF s = Inputs[v] THEN val ELSE expect[s]]
      BY <1>3, <2>2, <3>3
    <3>5. bus' = [s \in ScalarSignals |-> IF s = Inputs[v] THEN val ELSE expect[s]]
      BY <2>1, <2>2, <3>2
    <3> QED  BY <3>4, <3>5
  <2>6. CASE v \notin DOMAIN Inputs
    <3>1. bus' = bus
      BY <1>2, <2>3, <2>6
    <3>2. \A s : ~(\E i : IsInput(i, v) /\ chan[i].signal = s)
      BY <2>6, InputFacts
    <3>3. expect' = [s \in ScalarSignals |-> expect[s]]
      BY <1>3, <2>2, <3>2
    <3> QED  BY <2>1, <3>1, <3>3
  <2> QED  BY <2>5, <2>6
<1>11. BusInv'
  BY <1>1, <1>4, <1>10 DEF ValInv, BusInv
<1> QED  BY <1>8, <1>9, <1>11 DEF ValInv

LEMMA DecodeFacts ==
  ASSUME encoded = fmigateway_index_text_encoding, NEW v, NEW text
  PROVE  Decode(v, text) = text
<1>1. v \in encoded <=> \E i \in Binary : v \in chan[i].text /\ chan[i].encoding = "ascii85"
  BY DEF fmigateway_index_text_encoding
<1> DEFINE E == \E i \in Binary : v \in chan[i].text /\ chan[i].encoding = "ascii85"
<1>2. CASE v \in encoded
  <2>1. (v \in encoded) = TRUE /\ E = TRUE  BY <1>1, <1>2
  <2>2. (v \in encoded) = E  BY <2>1, Zenon
  <2> QED  BY <2>2, Zenon DEF Decode
<1>3. CASE v \notin encoded
  <2>1. (v \in encoded) = FALSE /\ E = FALSE  BY <1>1, <1>3
  <2>2. (v \in encoded) = E  BY <2>1, Zenon
  <2> QED  BY <2>2, Zenon DEF Decode
<1> QED  BY <1>2, <1>3

LEMMA SetStringValues ==
  ASSUME ConfInv, ValInv, NEW v, NEW text \in Text, SetString(v, text)
  PROVE  ValInv'
<1>1. /\ UNCHANGED confVars /\ pc' = pc /\ pc \in {"created", "ready"}
      /\ scalar_input' = scalar_input /\ binary_rx' = binary_rx /\ encoded' = encoded
      /\ bus' = bus /\ expect' = expect /\ signals_reset' = TRUE
      /\ given' = Given(v, "String", text)
  BY DEF SetString
<1>2. /\ v \in DOMAIN binary_rx =>
           /\ net' = [fmu_signals_reset EXCEPT ![binary_rx[v]] = Append(@, Decode(v, text))]
           /\ string_input' = string_input
      /\ v \notin DOMAIN binary_rx =>
           /\ net' = fmu_signals_reset
           /\ string_input' = [w \in DOMAIN string_input \cup {v} |->
                                 IF w = v THEN text ELSE string_input[w]]
  BY DEF SetString
<1>3. sent' = [s \in DOMAIN sent |-> IF \E i : IsRx(i, v) /\ chan[i].signal = s
                                        THEN Append(sent[s], text) ELSE sent[s]]
  BY DEF SetString, IsRx
<1>4. AllParams' = AllParams /\ Inputs' = Inputs /\ Networks' = Networks /\ chan' = chan
      /\ ScalarSignals' = ScalarSignals /\ BinarySignals' = BinarySignals
  BY <1>1, Frame
<1>5. ASSUME NEW p \in Elems(AllParams)  PROVE Kept(p)'
  <2>1. Kept(p)
    BY <1>1 DEF ValInv, ParamInv, Active
  <2>2. /\ p.name \in DOMAIN given'
        /\ p.vref = v /\ p.type = "String" => given'[p.name] = text
        /\ ~(p.vref = v /\ p.type = "String") => given'[p.name] = given[p.name]
    <3>1. p.name \in DOMAIN given  BY <2>1 DEF Kept
    <3> QED  BY <1>1, <3>1, GivenFacts
  <2>3. CASE p.type = "Real"
    BY <1>1, <2>1, <2>2, <2>3 DEF Kept
  <2>4. CASE p.type = "String"
    <3>1. p.vref \in DOMAIN string_input /\ IsText(string_input[p.vref])
          /\ given[p.name] = string_input[p.vref]
      BY <2>1, <2>4 DEF Kept
    <3>2. p.vref \notin DOMAIN binary_rx
      <4>1. p.vref \notin DOMAIN Networks
        BY <2>4, NetworkFacts, ChanFacts
      <4> QED  BY <1>1, <4>1 DEF ValInv, IndexInv
    <3>3. IsText(text)
      BY EnvironmentAssumption
    <3>4. /\ p.vref \in DOMAIN string_input'
          /\ p.vref = v => string_input'[p.vref] = text
          /\ p.vref # v => string_input'[p.vref] = string_input[p.vref]
      BY <1>2, <3>1, <3>2
    <3>5. IsText(string_input'[p.vref]) /\ given'[p.name] = string_input'[p.vref]
      BY <2>2, <2>4, <3>1, <3>3, <3>4
    <3> QED  BY <2>2, <2>4, <3>4, <3>5 DEF Kept
  <2> QED  BY <2>3, <2>4, ParamFacts
<1>6. ParamInv'
  BY <1>4, <1>5 DEF ParamInv
<1>7. IndexInv'
  <2>1. fmigateway_index_text_encoding' = fmigateway_index_text_encoding
    BY <1>4 DEF fmigateway_index_text_encoding, Binary
  <2> QED  BY <1>1, <1>4, <2>1 DEF ValInv, IndexInv, Active
<1>8. ASSUME pc = "ready"
      PROVE  net' = sent' /\ net' = [s \in BinarySignals |-> net'[s]]
  <2>1. /\ net = [s \in BinarySignals |-> net[s]] /\ sent = [s \in BinarySignals |-> sent[s]]
        /\ signals_reset \in BOOLEAN
        /\ signals_reset => net = sent
        /\ ~signals_reset => sent = [s \in BinarySignals |-> << >>]
    BY <1>8 DEF ValInv, BusInv
  <2>2. DOMAIN net = BinarySignals /\ DOMAIN sent = BinarySignals
    BY <2>1
  <2>3. fmu_signals_reset = sent
    <3>1. CASE signals_reset  BY <2>1, <3>1 DEF fmu_signals_reset
    <3>2. CASE ~signals_reset  BY <2>1, <2>2, <3>2 DEF fmu_signals_reset
    <3> QED  BY <3>1, <3>2
  <2>4. binary_rx = Networks /\ Decode(v, text) = text
    BY <1>8, DecodeFacts DEF ValInv, IndexInv
  <2>5. CASE v \in DOMAIN Networks
    <3>1. net' = [sent EXCEPT ![Networks[v]] = Append(@, text)]
      BY <1>2, <2>3, <2>4, <2>5
    <3>2. \A s : (\E i : IsRx(i, v) /\ chan[i].signal = s) <=> s = Networks[v]
      BY <2>5, NetworkFacts
    <3>3. sent' = [s \in BinarySignals |-> IF s = Networks[v] THEN Append(sent[s], text) ELSE sent[s]]
      BY <1>3, <2>2, <3>2
    <3>4. net' = [s \in BinarySignals |-> IF s = Networks[v] THEN Append(sent[s], text) ELSE sent[s]]
      BY <2>1, <2>2, <3>1
    <3> QED  BY <3>3, <3>4
  <2>6. CASE v \notin DOMAIN Networks
    <3>1. net' = sent
      BY <1>2, <2>3, <2>4, <2>6
    <3>2. \A s : ~(\E i : IsRx(i, v) /\ chan[i].signal = s)
      BY <2>6, NetworkFacts
    <3>3. sent' = [s \in BinarySignals |-> sent[s]]
      BY <1>3, <2>2, <3>2
    <3> QED  BY <2>1, <3>1, <3>3
  <2> QED  BY <2>5, <2>6
<1>9. BusInv'
  BY <1>1, <1>4, <1>8 DEF ValInv, BusInv
<1> QED  BY <1>6, <1>7, <1>9 DEF ValInv

LEMMA StepValues ==
  ASSUME ConfInv, ValInv, NEW s, NEW val, NEW n, NEW frames, DoStep(s, val, n, frames)
  PROVE  ValInv'
<1>1. /\ UNCHANGED confVars /\ pc' = pc /\ pc = "ready"
      /\ UNCHANGED <<string_input, scalar_input, binary_rx, encoded, given>>
      /\ bus' = [bus EXCEPT ![s] = val] /\ expect' = [expect EXCEPT ![s] = val]
      /\ net' = [fmu_signals_reset EXCEPT ![n] = frames]
      /\ sent' = [m \in DOMAIN sent |-> << >>] /\ signals_reset' = FALSE
  BY DEF DoStep, mapVars
<1>2. AllParams' = AllParams /\ Inputs' = Inputs /\ Networks' = Networks /\ chan' = chan
      /\ ScalarSignals' = ScalarSignals /\ BinarySignals' = BinarySignals
  BY <1>1, Frame
<1>3. ParamInv'
  BY <1>1, <1>2 DEF ValInv, ParamInv, Kept, Active
<1>4. IndexInv'
  <2>1. fmigateway_index_text_encoding' = fmigateway_index_text_encoding
    BY <1>2 DEF fmigateway_index_text_encoding, Binary
  <2> QED  BY <1>1, <1>2, <2>1 DEF ValInv, IndexInv, Active
<1>5. BusInv'
  <2>1. /\ bus = expect /\ expect = [q \in ScalarSignals |-> expect[q]]
        /\ net = [q \in BinarySignals |-> net[q]] /\ sent = [q \in BinarySignals |-> sent[q]]
    BY <1>1 DEF ValInv, BusInv
  <2>2. bus' = expect' /\ expect' = [q \in ScalarSignals |-> expect'[q]]
    BY <1>1, <2>1
  <2>3. sent' = [q \in BinarySignals |-> << >>]
    BY <1>1, <2>1
  <2>4. net' = [q \in BinarySignals |-> net'[q]]
    BY <1>1, <2>1 DEF fmu_signals_reset
  <2> QED  BY <1>1, <1>2, <2>2, <2>3, <2>4 DEF BusInv
<1> QED  BY <1>3, <1>4, <1>5 DEF ValInv

LEMMA DestroyValues ==
  ASSUME NEW rc, fmu_destroy(rc)
  PROVE  ValInv'
<1>1. pc' = "freed" /\ binary_rx' = << >> /\ signals_reset' = FALSE
  BY DEF fmu_destroy
<1>2. DOMAIN binary_rx' = {}
  BY <1>1
<1> QED  BY <1>1, <1>2 DEF ValInv, ParamInv, IndexInv, BusInv, Active

LEMMA StutterValues ==
  ASSUME ConfInv, ValInv, UNCHANGED vars
  PROVE  ConfInv' /\ ValInv'
<1>1. UNCHANGED confVars /\ UNCHANGED <<pc, string_input, scalar_input, binary_rx, encoded, given>>
  BY DEF vars, mapVars
<1>2. UNCHANGED <<bus, net, signals_reset, expect, sent>>
  BY DEF vars, busVars
<1>3. ConfInv' /\ AllParams' = AllParams /\ Inputs' = Inputs /\ Networks' = Networks /\ chan' = chan
      /\ ScalarSignals' = ScalarSignals /\ BinarySignals' = BinarySignals
  BY <1>1, Frame
<1>4. fmigateway_index_text_encoding' = fmigateway_index_text_encoding
  BY <1>3 DEF fmigateway_index_text_encoding, Binary
<1> QED  BY <1>1, <1>2, <1>3, <1>4 DEF ValInv, ParamInv, Kept, IndexInv, BusInv, Active

LEMMA NextConf ==
  ASSUME ConfInv, [Next]_vars
  PROVE  UNCHANGED confVars /\ ConfInv'
<1>1. UNCHANGED confVars
  BY DEF Next, vars, fmu_create, Done, fmu_init, fmu_destroy, SetReal, SetString, DoStep
<1> QED  BY <1>1, Frame

LEMMA ValStep ==
  ASSUME ConfInv, ValInv, [Next]_vars
  PROVE  ValInv'
<1>1. CASE fmu_create  BY <1>1, CreateValues
<1>2. CASE Done \/ UNCHANGED vars  BY <1>2, StutterValues DEF Done
<1>3. CASE \E rc, gw \in {0, 1} : fmu_init(rc, gw)  BY <1>3, InitValues
<1>4. CASE \E rc \in {0, 1} : fmu_destroy(rc)  BY <1>4, DestroyValues
<1>5. CASE \E v \in VRefs("Real"), val \in Real : SetReal(v, val)  BY <1>5, SetRealValues
<1>6. CASE \E v \in VRefs("String"), text \in Text : SetString(v, text)  BY <1>6, SetStringValues
<1>7. CASE \E s \in DOMAIN bus, n \in DOMAIN net, val \in Real, t \in Text : DoStep(s, val, n, <<t>>)
  BY <1>7, StepValues
<1> QED  BY <1>1, <1>2, <1>3, <1>4, <1>5, <1>6, <1>7 DEF Next

LEMMA ValInit == Init => ConfInv /\ ValInv
<1> SUFFICES ASSUME Init  PROVE ConfInv /\ ValInv
  OBVIOUS
<1>1. ConfInv
  BY DEF Init, ConfInv
<1>2. pc = "none" /\ binary_rx = << >> /\ signals_reset = FALSE
  BY DEF Init
<1>3. DOMAIN binary_rx = {}
  BY <1>2
<1> QED  BY <1>1, <1>2, <1>3 DEF ValInv, ParamInv, IndexInv, BusInv, Active

LEMMA ValDelivered ==
  ASSUME ConfInv, ValInv
  PROVE  ValuesDelivered
<1>1. pc = "ready" => bus = expect /\ (signals_reset => net = sent)
  BY DEF ValInv, BusInv
<1>2. ASSUME pc \in {"created", "ready"}, NEW p \in ToSet(AllParams)
      PROVE  given[p.name] = IF p.type = "String" THEN string_input[p.vref] ELSE ScalarValue(p.vref)
  <2>1. p \in Elems(AllParams)
    BY <1>2, AllFacts, ListSeq
  <2>2. Kept(p) /\ p.type \in {"String", "Real"}
    BY <1>2, <2>1, ParamFacts DEF ValInv, ParamInv, Active
  <2> QED  BY <2>2 DEF Kept, ScalarValue
<1> QED  BY <1>1, <1>2 DEF ValuesDelivered

LEMMA ValSafe == Spec => [](ConfInv /\ ValInv)
<1>1. Init => ConfInv /\ ValInv
  BY ValInit
<1>2. ConfInv /\ ValInv /\ [Next]_vars => (ConfInv /\ ValInv)'
  BY NextConf, ValStep
<1> QED  BY <1>1, <1>2, PTL DEF Spec

(* What the importer sets reaches the parameter or the signal of that      *)
(* value reference, and no other, in whatever order it sets, steps and     *)
(* creates instances (index.c:102, :153, signal.c:29).                     *)
THEOREM ValuesSafe == Spec => []ValuesDelivered
<1>1. ConfInv /\ ValInv => ValuesDelivered
  BY ValDelivered
<1> QED  BY <1>1, ValSafe, PTL
-----------------------------------------------------------------------------
(***************************************************************************)
(* The environments of the scripts.                                        *)
(***************************************************************************)
LEMMA AppendList ==
  ASSUME NEW s, IsList(s), NEW x
  PROVE  /\ IsList(Append(s, x)) /\ Len(Append(s, x)) = Len(s) + 1
         /\ Append(s, x)[Len(s) + 1] = x
         /\ \A i \in 1 .. Len(s) : Append(s, x)[i] = s[i]
<1> DEFINE X == Elems(s) \cup {x}
<1>1. s \in Seq(Elems(s))
  BY ListSeq
<1>2. s \in Seq(X) /\ x \in X
  BY <1>1
<1> HIDE DEF X
<1>3. /\ Append(s, x) \in Seq(X) /\ Len(Append(s, x)) = Len(s) + 1
      /\ Append(s, x)[Len(s) + 1] = x /\ \A i \in 1 .. Len(s) : Append(s, x)[i] = s[i]
  BY <1>2, AppendProperties
<1> QED  BY <1>3, SeqList

(* The text of a parameter, and what a script should find in its place.    *)
ParamText(p, g) ==
  IF p.type = "String" THEN <<"text", g[p.name]>> ELSE <<"int", Trunc(g[p.name])>>

ScriptValue(p, g) == IF p.name \in DOMAIN user THEN user[p.name] ELSE ParamText(p, g)

Found(p, e, g) == p.name \in DOMAIN e /\ e[p.name] = ScriptValue(p, g) /\ e[p.name] # NULL

(* The environment keeps what the user set.  On Unix the first script sets *)
(* the rest for good.                                                      *)
EnvInv ==
  /\ IsList(runs)
  /\ \A n \in DOMAIN user : n \in DOMAIN env /\ env[n] = user[n]
  /\ platform = "unix" /\ Len(runs) = 0 => DOMAIN env = DOMAIN user
  /\ platform = "unix" /\ Len(runs) # 0 =>
       \A p \in Elems(ScriptParams) : Found(p, env, runs[1].given)
  /\ \A r \in 1 .. Len(runs) : \A p \in Elems(ScriptParams) :
       /\ platform = "win32" => Found(p, runs[r].env, runs[r].given)
       /\ platform = "unix" => Found(p, runs[r].env, runs[1].given)

LEMMA ParamTextFacts ==
  ASSUME ConfInv, ParamInv, Active, NEW p \in Elems(ScriptParams)
  PROVE  _get_fmu_env_value(p) = ParamText(p, given) /\ ParamText(p, given) # NULL
<1>1. p \in Elems(AllParams)
  BY AllFacts
<1>2. Kept(p) /\ p.type \in {"String", "Real"}
  BY <1>1, ParamFacts DEF ParamInv
<1>3. CASE p.type = "String"
  BY <1>2, <1>3 DEF Kept, _get_fmu_env_value, ParamText, IsText
<1>4. CASE p.type = "Real"
  <2>1. /\ p.vref \in DOMAIN scalar_input
        /\ ScalarValue(p.vref) = given[p.name] /\ given[p.name] \in Int
    BY <1>2, <1>4 DEF Kept, ScalarValue
  <2>2. Trunc(given[p.name]) \in Int
    BY <2>1 DEF Trunc
  <2>3. <<"int", Trunc(given[p.name])>> # NULL
    <3>1. <<"int", Trunc(given[p.name])>> \in {"int"} \X Int
      BY <2>2
    <3>2. NULL \notin {"int"} \X Int
      BY EnvironmentAssumption, Zenon
    <3> QED  BY <3>1, <3>2, Zenon
  <2> QED  BY <1>4, <2>1, <2>3 DEF _get_fmu_env_value, ParamText
<1> QED  BY <1>2, <1>3, <1>4

LEMMA SetEnvarFacts ==
  ASSUME ConfInv, ParamInv, EnvInv, Active
  PROVE  /\ \A n \in DOMAIN user : n \in DOMAIN _set_envar /\ _set_envar[n] = user[n]
         /\ \A p \in Elems(ScriptParams) :
              Found(p, _set_envar, IF platform = "unix" /\ Len(runs) # 0 THEN runs[1].given ELSE given)
<1> DEFINE Unset == {p \in ToSet(ScriptParams) : getenv(p.name) = NULL}
           S == _set_envar
           Value(n) == LET p == CHOOSE q \in Unset : q.name = n
                       IN  Or(_get_fmu_env_value(p), <<"text", p.start>>)
<1>1. S = [n \in DOMAIN env \cup {p.name : p \in Unset} |->
             IF \E p \in Unset : p.name = n THEN Value(n) ELSE env[n]]
  BY DEF _set_envar
<1>2. \A p : p \in Unset <=> p \in Elems(ScriptParams) /\ getenv(p.name) = NULL
  <2>1. ToSet(ScriptParams) = Elems(ScriptParams)
    BY ScriptFacts, ListSeq
  <2> QED  BY <2>1
<1>3. \A n \in DOMAIN user : n \in DOMAIN env /\ env[n] = user[n] /\ user[n] # NULL
  BY EnvironmentAssumption DEF EnvInv, ConfInv
<1>4. platform \in {"unix", "win32"}
  BY DEF ConfInv
<1>5. \A n \in DOMAIN user : getenv(n) = user[n]
  BY <1>3, <1>4 DEF getenv, Lookup
<1> HIDE DEF Unset, S
<1>6. \A n \in DOMAIN user : n \in DOMAIN S /\ S[n] = user[n]
  <2> TAKE n \in DOMAIN user
  <2>1. ~\E p \in Unset : p.name = n
    BY <1>2, <1>3, <1>5
  <2> HIDE DEF Value
  <2> QED  BY <1>1, <1>3, <2>1
<1>7. ASSUME NEW p \in Elems(ScriptParams)
      PROVE  /\ getenv(p.name) = NULL => p.name \in DOMAIN S /\ S[p.name] = ParamText(p, given)
             /\ getenv(p.name) # NULL /\ p.name \in DOMAIN env =>
                  p.name \in DOMAIN S /\ S[p.name] = env[p.name]
  <2>1. \A q \in Elems(ScriptParams) : q.name = p.name => q = p
    BY ScriptFacts, DescribedFacts
  <2>2. CASE getenv(p.name) = NULL
    <3>1. p \in Unset
      BY <1>2, <2>2
    <3>2. (CHOOSE q \in Unset : q.name = p.name) = p
      BY <1>2, <2>1, <3>1
    <3>3. Value(p.name) = Or(_get_fmu_env_value(p), <<"text", p.start>>)
      BY <3>2
    <3>4. Value(p.name) = ParamText(p, given)
      BY <3>3, ParamTextFacts DEF Or
    <3> HIDE DEF Value
    <3> QED  BY <1>1, <2>2, <3>1, <3>4
  <2>3. CASE getenv(p.name) # NULL
    <3>1. ~\E q \in Unset : q.name = p.name
      BY <1>2, <2>1, <2>3
    <3> HIDE DEF Value
    <3> QED  BY <1>1, <2>3, <3>1
  <2> QED  BY <2>2, <2>3
<1>8. ASSUME NEW p \in Elems(ScriptParams), ~(platform = "unix" /\ Len(runs) # 0)
      PROVE  Found(p, S, given)
  <2>1. CASE p.name \in DOMAIN user
    BY <1>3, <1>6, <2>1 DEF Found, ScriptValue
  <2>2. CASE p.name \notin DOMAIN user
    <3>1. getenv(p.name) = NULL
      BY <1>4, <1>8, <2>2 DEF getenv, Lookup, EnvInv
    <3>2. ParamText(p, given) # NULL
      BY ParamTextFacts
    <3> QED  BY <1>7, <2>2, <3>1, <3>2 DEF Found, ScriptValue
  <2> QED  BY <2>1, <2>2
<1>9. ASSUME NEW p \in Elems(ScriptParams), platform = "unix", Len(runs) # 0
      PROVE  Found(p, S, runs[1].given)
  <2>1. Found(p, env, runs[1].given)
    BY <1>9 DEF EnvInv
  <2>2. getenv(p.name) = env[p.name] /\ env[p.name] # NULL /\ p.name \in DOMAIN env
    BY <1>9, <2>1 DEF Found, getenv, Lookup
  <2> QED  BY <1>7, <2>1, <2>2 DEF Found
<1> QED  BY <1>6, <1>8, <1>9 DEF S

LEMMA RunEnv ==
  ASSUME ConfInv, ParamInv, EnvInv, Active, UNCHANGED confVars,
         NEW cmd, NEW rc, _run_cmd(cmd, rc)
  PROVE  EnvInv'
<1>1. platform' = platform /\ user' = user /\ ScriptParams' = ScriptParams
  BY Frame
<1>2. CASE cmd = NULL
  <2>1. env' = env /\ runs' = runs
    BY <1>2 DEF _run_cmd
  <2> QED  BY <1>1, <2>1 DEF EnvInv, Found, ScriptValue
<1>3. CASE cmd # NULL
  <2> DEFINE S == _set_envar
             g == IF platform = "unix" /\ Len(runs) # 0 THEN runs[1].given ELSE given
             run == [cmd |-> cmd, env |-> S, given |-> given]
             L == Len(runs)
  <2>1. env' = S /\ runs' = Append(runs, run)
    BY <1>3 DEF _run_cmd
  <2>2. /\ \A n \in DOMAIN user : n \in DOMAIN S /\ S[n] = user[n]
        /\ \A p \in Elems(ScriptParams) : Found(p, S, g)
    BY SetEnvarFacts
  <2>3. run.env = S /\ run.given = given
    OBVIOUS
  <2>4. IsList(runs) /\ L \in Nat
    BY DEF EnvInv, IsList
  <2> HIDE DEF run, S
  <2>5. /\ IsList(runs') /\ Len(runs') = L + 1 /\ runs'[L + 1] = run
        /\ \A r \in 1 .. L : runs'[r] = runs[r]
    BY <2>1, <2>4, AppendList
  <2>6. platform = "unix" => runs'[1].given = g
    <3>1. CASE L = 0  BY <2>3, <2>5, <3>1
    <3>2. CASE L # 0
      <4>1. 1 \in 1 .. L  BY <2>4, <3>2
      <4> QED  BY <2>5, <3>2, <4>1
    <3> QED  BY <3>1, <3>2
  <2>7. platform = "win32" => g = given
    OBVIOUS
  <2>8. L # 0 => runs'[1] = runs[1]
    <3>1. L # 0 => 1 \in 1 .. L  BY <2>4
    <3> QED  BY <2>5, <3>1
  <2> HIDE DEF g, L
  <2>9. ASSUME NEW r \in 1 .. L + 1, NEW p \in Elems(ScriptParams)
        PROVE  /\ platform = "win32" => Found(p, runs'[r].env, runs'[r].given)
               /\ platform = "unix" => Found(p, runs'[r].env, runs'[1].given)
    <3>1. CASE r = L + 1
      BY <2>2, <2>3, <2>5, <2>6, <2>7, <3>1
    <3>2. CASE r # L + 1
      <4>1. r \in 1 .. L /\ L # 0  BY <2>4, <3>2
      <4>2. /\ platform = "win32" => Found(p, runs[r].env, runs[r].given)
            /\ platform = "unix" => Found(p, runs[r].env, runs[1].given)
        BY <4>1 DEF EnvInv, L
      <4> QED  BY <2>5, <2>8, <4>1, <4>2
    <3> QED  BY <3>1, <3>2
  <2>10. L + 1 # 0
    BY <2>4
  <2> QED  BY <1>1, <2>1, <2>2, <2>5, <2>6, <2>9, <2>10 DEF EnvInv, Found, ScriptValue
<1> QED  BY <1>2, <1>3

LEMMA EnvStep ==
  ASSUME ConfInv, ParamInv, EnvInv, [Next]_vars
  PROVE  EnvInv'
<1>1. UNCHANGED confVars
  BY NextConf
<1>2. platform' = platform /\ user' = user /\ ScriptParams' = ScriptParams
  BY <1>1, Frame
<1>3. CASE UNCHANGED <<env, runs>>
  BY <1>2, <1>3 DEF EnvInv, Found, ScriptValue
<1>4. CASE \E rc, gw \in {0, 1} : fmu_init(rc, gw)
  <2>1. Active /\ \E cmd, rc : _run_cmd(cmd, rc)
    BY <1>4 DEF fmu_init, Active
  <2> QED  BY <1>1, <2>1, RunEnv
<1>5. CASE \E rc \in {0, 1} : fmu_destroy(rc)
  <2>1. CASE pc = "ready" /\ (settings.type = "SIMER" \/ session # NULL)
    <3>1. Active /\ \E cmd, rc : _run_cmd(cmd, rc)
      BY <1>5, <2>1 DEF fmu_destroy, Active
    <3> QED  BY <1>1, <3>1, RunEnv
  <2>2. CASE ~(pc = "ready" /\ (settings.type = "SIMER" \/ session # NULL))
    BY <1>3, <1>5, <2>2 DEF fmu_destroy
  <2> QED  BY <2>1, <2>2
<1>6. CASE \/ fmu_create \/ Done \/ UNCHANGED vars
           \/ \E v \in VRefs("Real"), val \in Real : SetReal(v, val)
           \/ \E v \in VRefs("String"), text \in Text : SetString(v, text)
           \/ \E s \in DOMAIN bus, n \in DOMAIN net, val \in Real, t \in Text :
                DoStep(s, val, n, <<t>>)
  BY <1>3, <1>6 DEF fmu_create, Done, vars, SetReal, SetString, DoStep
<1> QED  BY <1>4, <1>5, <1>6 DEF Next

LEMMA EnvInit == Init => EnvInv
<1> SUFFICES ASSUME Init  PROVE EnvInv
  OBVIOUS
<1>1. env = user /\ runs = << >>
  BY DEF Init
<1>2. IsList(runs) /\ Len(runs) = 0
  BY <1>1, EmptyList
<1> QED  BY <1>1, <1>2 DEF EnvInv

LEMMA EnvSafe ==
  ASSUME ConfInv, EnvInv
  PROVE  ScriptEnvironment
<1> SUFFICES ASSUME NEW r \in DOMAIN runs, NEW p \in ToSet(ScriptParams)
             PROVE  LET q == IF platform = "win32" THEN r ELSE 1
                        v == runs[q].given[p.name]
                    IN  Lookup(runs[r].env, p.name) =
                          IF p.name \in DOMAIN user THEN user[p.name]
                          ELSE IF p.type = "String" THEN <<"text", v>> ELSE <<"int", Trunc(v)>>
  BY DEF ScriptEnvironment
<1> DEFINE q == IF platform = "win32" THEN r ELSE 1
<1>1. r \in 1 .. Len(runs) /\ p \in Elems(ScriptParams)
  BY ScriptFacts, ListSeq DEF EnvInv
<1>2. Found(p, runs[r].env, runs[q].given)
  BY <1>1 DEF EnvInv, ConfInv
<1> HIDE DEF q
<1>3. Lookup(runs[r].env, p.name) = ScriptValue(p, runs[q].given)
  BY <1>2 DEF Found, Lookup
<1> QED  BY <1>3 DEF ScriptValue, ParamText, q

(* Every script of every instance finds each of its parameters, with the   *)
(* user's value or the importer's: on Windows the one of the time of the   *)
(* script, on Unix the one of the first script of the process, for any     *)
(* number of instances (session.c:33).                                     *)
THEOREM EnvironmentsSafe == Spec => []ScriptEnvironment
<1>1. Init => EnvInv
  BY EnvInit
<1>2. (ConfInv /\ ValInv) /\ EnvInv /\ [Next]_vars => EnvInv'
  BY EnvStep DEF ValInv
<1>3. (ConfInv /\ ValInv) /\ EnvInv => ScriptEnvironment
  BY EnvSafe
<1> QED  BY <1>1, <1>2, <1>3, ValSafe, PTL DEF Spec
-----------------------------------------------------------------------------
(***************************************************************************)
(* The command of SIMER.                                                   *)
(***************************************************************************)
SettingsInv ==
  Active => /\ settings.type = XmlSettings.type
            /\ settings.type = "SIMER" => settings = XmlSettings /\ session = NULL

LEMMA SimerXml == XmlSettings.type = "SIMER" =>
  xml # NULL /\ xml.runtime = "simer" /\ XmlSettings.cmds = xml.cmds
<1>1. CASE xml = NULL
  <2>1. XmlSettings.type = "LEGACY"  BY <1>1 DEF XmlSettings
  <2> QED  BY <2>1
<1>2. CASE xml # NULL /\ xml.runtime # "simer"
  <2>1. XmlSettings.type = "LEGACY"  BY <1>2 DEF XmlSettings
  <2> QED  BY <2>1
<1>3. CASE xml # NULL /\ xml.runtime = "simer"
  BY <1>3 DEF XmlSettings
<1> QED  BY <1>1, <1>2, <1>3

LEMMA GatewayType == _parse_gateway(XmlSettings).type = XmlSettings.type
<1> DEFINE g == stack.gateway
           Cmd(n) == Or(getenv(n), Lookup(g.env, n))
<1>1. CASE g = NULL
  BY <1>1 DEF _parse_gateway
<1>2. CASE g # NULL
  <2>1. _parse_gateway(XmlSettings) =
          [XmlSettings EXCEPT !.step_size = Or(g.step_size, @),
                              !.log_level = Or(g.log_level, DefaultLogLevel),
                              !.log_location = Or(g.log_location, @),
                              !.startup_cmd = Cmd("GATEWAY_INIT_CMD"),
                              !.shutdown_cmd = Cmd("GATEWAY_SHUTDOWN_CMD")]
    BY <1>2 DEF _parse_gateway
  <2>2. "type" \in DOMAIN XmlSettings
    BY DEF XmlSettings
  <2> HIDE DEF Cmd, g
  <2> QED  BY <2>1, <2>2
<1> QED  BY <1>1, <1>2

LEMMA SettingsStep ==
  ASSUME SettingsInv, ConfInv, [Next]_vars
  PROVE  SettingsInv'
<1>1. XmlSettings' = XmlSettings
  BY NextConf, Frame
<1>2. CASE fmu_create
  <2>1. \/ settings' = XmlSettings /\ session' = NULL
        \/ XmlSettings.type # "SIMER" /\ settings' = _parse_gateway(XmlSettings)
    BY <1>2 DEF fmu_create
  <2> QED  BY <1>1, <2>1, GatewayType DEF SettingsInv
<1>3. CASE \E rc \in {0, 1} : fmu_destroy(rc)
  BY <1>3 DEF fmu_destroy, SettingsInv, Active
<1>4. CASE settings' = settings /\ session' = session /\ (Active' => Active)
  BY <1>1, <1>4 DEF SettingsInv
<1>5. CASE \/ Done \/ UNCHANGED vars
           \/ \E rc, gw \in {0, 1} : fmu_init(rc, gw)
           \/ \E v \in VRefs("Real"), val \in Real : SetReal(v, val)
           \/ \E v \in VRefs("String"), text \in Text : SetString(v, text)
           \/ \E s \in DOMAIN bus, n \in DOMAIN net, val \in Real, t \in Text :
                DoStep(s, val, n, <<t>>)
  BY <1>4, <1>5 DEF Done, vars, fmu_init, SetReal, SetString, DoStep, Active
<1> QED  BY <1>2, <1>3, <1>5 DEF Next

LEMMA RuntimeHas ==
  ASSUME ConfInv, xml # NULL, xml.runtime = "simer",
         NEW i \in DOMAIN xml.params, xml.params[i].use = "simer", xml.params[i].vref # NULL
  PROVE  xml.params[i] \in Elems(RuntimeParams(xml.params[i].type))
<1> DEFINE p == xml.params[i]
           s == Params("simer", p.type)
           I == {k \in DOMAIN xml.params : xml.params[k].use = "simer" /\ xml.params[k].type = p.type}
           J == {k \in DOMAIN s : s[k].vref # NULL}
<1>1. IsList(xml.params)
  BY ParamAssumption DEF ConfInv
<1>2. DOMAIN xml.params = 1 .. Len(xml.params) /\ i \in I
  BY <1>1, ListSeq
<1>3. s = Select(xml.params, I)
  BY DEF Params
<1>4. Elems(Select(xml.params, I)) = {xml.params[n] : n \in {k \in 1 .. Len(xml.params) : k \in I}}
  BY <1>1, SelectFacts
<1>5. p \in Elems(s)
  BY <1>2, <1>3, <1>4
<1>6. IsList(s) /\ DOMAIN s = 1 .. Len(s)
  BY ParamsFacts, ListSeq
<1>7. RuntimeParams(p.type) = Select(s, J)
  BY DEF RuntimeParams
<1> HIDE DEF s, I
<1>8. Elems(Select(s, J)) = {s[n] : n \in {k \in 1 .. Len(s) : k \in J}}
  BY <1>6, SelectFacts
<1>9. PICK n \in 1 .. Len(s) : p = s[n]
  BY <1>5 DEF Elems
<1>10. n \in J
  BY <1>6, <1>9
<1> QED  BY <1>7, <1>8, <1>9, <1>10

(* The two variables hold what the importer gave them.                     *)
LEMMA SimerVariables ==
  ASSUME SimerReferences(Fmus), ConfInv, ParamInv, Active, XmlSettings.type = "SIMER"
  PROVE  /\ 0 \in DOMAIN string_input /\ string_input[0] # NULL
         /\ given["Simer_Command"] = string_input[0]
         /\ 1 \in DOMAIN scalar_input /\ ScalarValue(1) \in Int
         /\ given["Simer_Command_Selector"] = ScalarValue(1)
<1>0. NULL \notin Int
  BY EnvironmentAssumption, Zenon
<1>1. xml # NULL /\ xml.runtime = "simer" /\ NULL # 0 /\ NULL # 1
  BY <1>0, SimerXml
<1>2. PICK i \in DOMAIN xml.params : IsSimer(xml.params[i], "Simer_Command", "String", 0)
  BY <1>1 DEF SimerReferences, ConfInv
<1>3. PICK j \in DOMAIN xml.params : IsSimer(xml.params[j], "Simer_Command_Selector", "Real", 1)
  BY <1>1 DEF SimerReferences, ConfInv
<1>4. Kept(xml.params[i])
  <2>1. xml.params[i] \in Elems(RuntimeParams("String"))
    BY <1>1, <1>2, RuntimeHas DEF IsSimer
  <2> QED  BY <2>1, AllFacts DEF ParamInv
<1>5. Kept(xml.params[j])
  <2>1. xml.params[j] \in Elems(RuntimeParams("Real"))
    BY <1>1, <1>3, RuntimeHas DEF IsSimer
  <2> QED  BY <2>1, AllFacts DEF ParamInv
<1>6. 0 \in DOMAIN string_input /\ string_input[0] # NULL /\ given["Simer_Command"] = string_input[0]
  BY <1>2, <1>4 DEF IsSimer, Kept, IsText
<1>7. /\ 1 \in DOMAIN scalar_input /\ ScalarValue(1) \in Int
      /\ given["Simer_Command_Selector"] = ScalarValue(1)
  BY <1>3, <1>5 DEF IsSimer, Kept, ScalarValue
<1> QED  BY <1>6, <1>7

LEMMA SimerChoice ==
  ASSUME SimerReferences(Fmus), ConfInv, ParamInv, SettingsInv, Active, settings.type = "SIMER"
  PROVE  IF given["Simer_Command"] # "" THEN SimerCommand = given["Simer_Command"]
         ELSE LET sel == Trunc(given["Simer_Command_Selector"])
              IN  sel \in 0 .. Len(xml.cmds) - 1 => SimerCommand = xml.cmds[sel + 1]
<1> DEFINE own == given["Simer_Command"]
           h == given["Simer_Command_Selector"]
           n == IF h >= 0 THEN Trunc(h) ELSE 0
<1>1. XmlSettings.type = "SIMER" /\ settings.cmds = xml.cmds
  BY SimerXml DEF SettingsInv
<1>2. Len(xml.cmds) \in Nat
  BY <1>1, SimerXml, ParamAssumption DEF ConfInv, IsList
<1>3. /\ Lookup(string_input, 0) = own /\ own # NULL
      /\ 1 \in DOMAIN scalar_input /\ ScalarValue(1) = h /\ h \in Int
  BY <1>1, SimerVariables DEF Lookup
<1>4. SimerCommand = IF own # NULL /\ own # "" THEN own
                     ELSE IF n < Len(xml.cmds) THEN xml.cmds[n + 1] ELSE own
  BY <1>1, <1>3 DEF SimerCommand
<1>5. Trunc(h) \in 0 .. Len(xml.cmds) - 1 => n = Trunc(h) /\ n < Len(xml.cmds)
  <2>1. CASE h >= 0
    BY <1>2, <2>1
  <2>2. CASE ~(h >= 0)
    <3>1. Trunc(h) = -((-h) \div 2) /\ (-h) \div 2 \in Nat
      BY <1>3, <2>2 DEF Trunc
    <3>2. Trunc(h) \in 0 .. Len(xml.cmds) - 1 => Trunc(h) = 0 /\ 0 < Len(xml.cmds)
      BY <1>2, <3>1
    <3> QED  BY <2>2, <3>2
  <2> QED  BY <2>1, <2>2
<1> HIDE DEF own, h, n
<1>6. CASE own # ""  BY <1>3, <1>4, <1>6 DEF own
<1>7. CASE own = ""
  <2>1. Trunc(h) \in 0 .. Len(xml.cmds) - 1 => SimerCommand = xml.cmds[Trunc(h) + 1]
    BY <1>4, <1>5, <1>7
  <2> QED  BY <1>7, <2>1 DEF own, h
<1> QED  BY <1>6, <1>7

LEMMA SimerStep ==
  ASSUME SimerReferences(Fmus), ConfInv, ParamInv, SettingsInv, SimerCommandHonoured, [Next]_vars
  PROVE  SimerCommandHonoured'
<1>1. platform' = platform /\ xml' = xml
  BY NextConf, Frame
<1>2. CASE pc' = "ready" /\ pc = "ready" /\ settings' = settings /\ started' = started
  BY <1>1, <1>2 DEF SimerCommandHonoured
<1>3. CASE pc' # "ready"
  BY <1>3 DEF SimerCommandHonoured
<1>4. CASE \E rc, gw \in {0, 1} : fmu_init(rc, gw)
  <2>1. settings' = settings /\ Active
    BY <1>4 DEF fmu_init, Active
  <2>2. SUFFICES ASSUME pc' = "ready", settings.type = "SIMER", platform = "win32"
                 PROVE  SimerCommandHonoured'
    BY <1>1, <2>1 DEF SimerCommandHonoured
  <2>3. started' = <<[cmd |-> SimerCommand, given |-> given]>>
    BY <1>4, <2>2 DEF fmu_init, InitOK, InitFailed
  <2>4. started'[1].cmd = SimerCommand /\ started'[1].given = given
    BY <2>3
  <2> QED  BY <1>1, <2>1, <2>2, <2>4, SimerChoice DEF SimerCommandHonoured
<1>5. CASE fmu_create \/ \E rc \in {0, 1} : fmu_destroy(rc)
  BY <1>3, <1>5 DEF fmu_create, fmu_destroy
<1>6. CASE \/ Done \/ UNCHANGED vars
           \/ \E v \in VRefs("Real"), val \in Real : SetReal(v, val)
           \/ \E v \in VRefs("String"), text \in Text : SetString(v, text)
           \/ \E s \in DOMAIN bus, n \in DOMAIN net, val \in Real, t \in Text :
                DoStep(s, val, n, <<t>>)
  <2>1. pc' = pc /\ settings' = settings /\ started' = started
    BY <1>6 DEF Done, vars, SetReal, SetString, DoStep
  <2> QED  BY <1>2, <1>3, <2>1
<1> QED  BY <1>4, <1>5, <1>6 DEF Next

(* With the value references fmigateway_run_simer expects, SIMER is        *)
(* started with the command the importer set, else with the one it         *)
(* selected (session_win32.c:819).  The gateways the toolset generates     *)
(* have the two references the other way round.                            *)
THEOREM SimerSafe == ASSUME SimerReferences(Fmus) PROVE Spec => []SimerCommandHonoured
<1>1. Init => SettingsInv /\ SimerCommandHonoured
  BY DEF Init, SettingsInv, SimerCommandHonoured, Active
<1>2. (ConfInv /\ ValInv) /\ SettingsInv /\ SimerCommandHonoured /\ [Next]_vars =>
        (SettingsInv /\ SimerCommandHonoured)'
  BY SettingsStep, SimerStep DEF ValInv
<1> QED  BY <1>1, <1>2, ValSafe, PTL DEF Spec
-----------------------------------------------------------------------------
(***************************************************************************)
(* The processes of the stack.                                             *)
(***************************************************************************)
LEMMA FlattenList ==
  ASSUME NEW p, IsList(p), \A k \in 1 .. Len(p) : IsList(p[k])
  PROVE  /\ IsList(FlattenSeq(p))
         /\ \E turn, place : Locates(turn, place, p, FlattenSeq(p))
<1> DEFINE X == UNION {Elems(p[k]) : k \in 1 .. Len(p)}
<1>1. Len(p) \in Nat /\ p = [k \in 1 .. Len(p) |-> p[k]]
  BY DEF IsList
<1>2. \A k \in 1 .. Len(p) : p[k] \in Seq(X)
  <2> TAKE k \in 1 .. Len(p)
  <2>1. p[k] \in Seq(Elems(p[k])) /\ Elems(p[k]) \subseteq X
    BY ListSeq
  <2> HIDE DEF X
  <2> QED  BY <2>1
<1> HIDE DEF X
<1>3. p \in [1 .. Len(p) -> Seq(X)]
  BY <1>1, <1>2
<1>4. p \in Seq(Seq(X))
  BY <1>1, <1>3, SeqDef
<1> QED  BY <1>4, FlattenType, FlattenLocates, SeqList

LEMMA LocatesAll ==
  ASSUME NEW turn, NEW place, NEW p, NEW r, Locates(turn, place, p, r),
         NEW m \in 1 .. Len(p), NEW k \in 1 .. Len(p[m])
  PROVE  \E i \in 1 .. Len(r) : turn[i] = m /\ place[i] = k
<1>1. \A n \in 1 .. Len(p) : \A q \in 1 .. Len(p[n]) :
        \E i \in 1 .. Len(r) : turn[i] = n /\ place[i] = q
  BY Zenon DEF Locates
<1> QED  BY <1>1, Zenon

LEMMA FlattenElems ==
  ASSUME NEW p, IsList(p), \A k \in 1 .. Len(p) : IsList(p[k])
  PROVE  /\ IsList(FlattenSeq(p))
         /\ \A k \in 1 .. Len(p) : Elems(p[k]) \subseteq Elems(FlattenSeq(p))
<1> DEFINE r == FlattenSeq(p)
<1>1. PICK turn, place : Locates(turn, place, p, r)
  BY FlattenList
<1>2. IsList(r)
  BY FlattenList
<1> HIDE DEF r
<1>3. ASSUME NEW k \in 1 .. Len(p), NEW q \in 1 .. Len(p[k])
      PROVE  \E i \in 1 .. Len(r) : r[i] = p[k][q]
  <2>1. PICK i \in 1 .. Len(r) : turn[i] = k /\ place[i] = q
    BY <1>1, LocatesAll
  <2>2. r[i] = p[turn[i]][place[i]]
    BY <1>1, Zenon DEF Locates
  <2> QED  BY <2>1, <2>2
<1>4. ASSUME NEW k \in 1 .. Len(p), NEW e \in Elems(p[k])  PROVE e \in Elems(r)
  <2>1. PICK q \in 1 .. Len(p[k]) : e = p[k][q]
    BY <1>4 DEF Elems
  <2>2. PICK i \in 1 .. Len(r) : r[i] = p[k][q]
    BY <1>3
  <2> QED  BY <2>1, <2>2 DEF Elems
<1> QED  BY <1>2, <1>4 DEF r

(* A place of the stack K: document d of the a-th file, and its model m.   *)
FileAt(K, a) == K.files[K.model_stack[a]]

IsDoc(K, a, d) ==
  /\ K.model_stack # NULL /\ a \in DOMAIN K.model_stack /\ FileAt(K, a) # NULL
  /\ d \in DOMAIN FileAt(K, a)

IsPlace(K, a, d, m) ==
  IsDoc(K, a, d) /\ FileAt(K, a)[d].models # NULL /\ m \in DOMAIN FileAt(K, a)[d].models

IsStack(K) == K # NULL /\ \E f \in Fmus : K = f.stack

LEMMA PlaceFacts ==
  ASSUME NEW K
  PROVE  /\ \A a, d, m : IsPlace(K, a, d, m) => <<a, d, m>> \in Places(K)
         /\ \A x \in Places(K) : /\ x = <<x[1], x[2], x[3]>> /\ IsPlace(K, x[1], x[2], x[3])
                                 /\ DocAt(K, x) = FileAt(K, x[1])[x[2]]
                                 /\ ModelAt(K, x) = FileAt(K, x[1])[x[2]].models[x[3]]
<1>1. ASSUME NEW a, NEW d, NEW m, IsPlace(K, a, d, m)  PROVE <<a, d, m>> \in Places(K)
  BY <1>1 DEF Places, IsPlace, IsDoc, FileAt
<1>2. ASSUME NEW x \in Places(K)
      PROVE  x = <<x[1], x[2], x[3]>> /\ IsPlace(K, x[1], x[2], x[3])
  <2>1. \E a, d, m : IsPlace(K, a, d, m) /\ x = <<a, d, m>>
    BY <1>2 DEF Places, IsPlace, IsDoc, FileAt
  <2>2. PICK a, d, m : IsPlace(K, a, d, m) /\ x = <<a, d, m>>
    BY <2>1
  <2>3. x[1] = a /\ x[2] = d /\ x[3] = m
    BY <2>2
  <2> QED  BY <2>2, <2>3
<1> QED  BY <1>1, <1>2 DEF DocAt, ModelAt, FileAt

LEMMA StackFacts ==
  ASSUME NEW K, IsStack(K)
  PROVE  /\ K.model_stack # NULL => IsList(K.model_stack)
         /\ \A a, d : IsDoc(K, a, d) => /\ IsList(FileAt(K, a))
                                        /\ FileAt(K, a)[d].models # NULL => IsList(FileAt(K, a)[d].models)
         /\ \A x \in Places(K) : IsList(ModelAt(K, x).files) /\ ModelAt(K, x).name # "transport"
         /\ \A x, y \in Places(K) :
              ModelAt(K, x).name # NULL /\ ModelAt(K, x).name = ModelAt(K, y).name => x = y
         /\ K.simbus # NULL => \A x \in Places(K) :
              ModelAt(K, x).name # NULL => ModelAt(K, x).name # K.simbus.name
<1>1. PICK f \in Fmus : K = f.stack /\ f.stack # NULL
  BY DEF IsStack
<1>2. /\ K.model_stack # NULL => IsList(K.model_stack)
      /\ K.model_stack # NULL => \A a \in DOMAIN K.model_stack :
           FileAt(K, a) # NULL => /\ IsList(FileAt(K, a))
                                  /\ \A d \in DOMAIN FileAt(K, a) :
                                       FileAt(K, a)[d].models # NULL => IsList(FileAt(K, a)[d].models)
  BY <1>1, StackAssumption DEF FileAt
<1>3. /\ \A x \in Places(K) : IsList(ModelAt(K, x).files) /\ ModelAt(K, x).name # "transport"
      /\ \A x, y \in Places(K) :
           ModelAt(K, x).name # NULL /\ ModelAt(K, x).name = ModelAt(K, y).name => x = y
      /\ K.simbus # NULL => \A x \in Places(K) :
           ModelAt(K, x).name # NULL => ModelAt(K, x).name # K.simbus.name
  BY <1>1, StackAssumption
<1> QED  BY <1>2, <1>3 DEF IsDoc

(* The process w holds the model at x.                                     *)
Holds(K, w, x) ==
  /\ ModelAt(K, x).name \in Elems(w.names)
  /\ IsList(w.yaml) /\ Elems(ModelAt(K, x).files) \subseteq Elems(w.yaml)
  /\ w.timeout = Or(IF DocAt(K, x).stacked THEN DocAt(K, x).timeout
                    ELSE Or(ModelAt(K, x).timeout, DocAt(K, x).timeout), DefaultTimeout)

Wanted(K, x) == DocAt(K, x).kind = "Stack" /\ ModelAt(K, x).name # NULL

(* The processes W have names, of models at the places T and no two the    *)
(* same, and hold all the models there.                                    *)
HasNames(W) == \A i \in 1 .. Len(W) : IsList(W[i].names) /\ Len(W[i].names) # 0
NamesFrom(K, W, T) == \A i \in 1 .. Len(W) : \A n \in Elems(W[i].names) :
                        n # NULL /\ \E x \in T : n = ModelAt(K, x).name
Apart(W) == \A i, j \in 1 .. Len(W) : i # j => Elems(W[i].names) \cap Elems(W[j].names) = {}
HoldsAll(K, W, T) == \A x \in T : Wanted(K, x) => \E i \in 1 .. Len(W) : Holds(K, W[i], x)

Lists(K, W, T) ==
  IsList(W) /\ HasNames(W) /\ NamesFrom(K, W, T) /\ Apart(W) /\ HoldsAll(K, W, T)

LEMMA ListsNothing ==
  ASSUME NEW K, NEW T, \A x \in T : ~Wanted(K, x)
  PROVE  Lists(K, << >>, T)
BY EmptyList DEF Lists, HasNames, NamesFrom, Apart, HoldsAll

(* Loops over documents and files: F[k] are the places of turn k.          *)
LEMMA ListsFlatten ==
  ASSUME NEW K, IsStack(K), NEW T, T \subseteq Places(K), NEW p, IsList(p), NEW F,
         \A k \in 1 .. Len(p) : Lists(K, p[k], F[k]) /\ F[k] \subseteq T,
         \A k, l \in 1 .. Len(p) : k # l => F[k] \cap F[l] = {},
         \A x \in T : Wanted(K, x) => \E k \in 1 .. Len(p) : x \in F[k]
  PROVE  Lists(K, FlattenSeq(p), T)
<1> DEFINE W == FlattenSeq(p)
<1>1. \A k \in 1 .. Len(p) : IsList(p[k])
  BY DEF Lists
<1>2. IsList(W) /\ \E turn, place : Locates(turn, place, p, W)
  BY <1>1, FlattenList
<1> HIDE DEF W
<1>3. PICK turn, place : Locates(turn, place, p, W)
  BY <1>2
<1>4. Len(W) \in Nat
  BY <1>2 DEF IsList
<1>5. \A i \in 1 .. Len(W) : /\ turn[i] \in 1 .. Len(p) /\ place[i] \in 1 .. Len(p[turn[i]])
                             /\ W[i] = p[turn[i]][place[i]]
  BY <1>3 DEF Locates
<1>6. \A i, j \in 1 .. Len(W) : i # j => turn[i] # turn[j] \/ place[i] # place[j]
  <2> TAKE i, j \in 1 .. Len(W)
  <2>1. place[i] \in Nat /\ place[j] \in Nat /\ turn[i] \in Nat /\ turn[j] \in Nat
    <3>1. Len(p) \in Nat /\ Len(p[turn[i]]) \in Nat /\ Len(p[turn[j]]) \in Nat
      BY <1>1, <1>5 DEF IsList
    <3> QED  BY <1>5, <3>1
  <2>2. i # j => i < j \/ j < i
    BY <1>4
  <2>3. \A m, n \in 1 .. Len(W) : m < n =>
          turn[m] < turn[n] \/ (turn[m] = turn[n] /\ place[m] < place[n])
    BY <1>3 DEF Locates
  <2> QED  BY <2>1, <2>2, <2>3
<1>7. ASSUME NEW k \in 1 .. Len(p), NEW q \in 1 .. Len(p[k])
      PROVE  \E i \in 1 .. Len(W) : W[i] = p[k][q]
  <2>1. PICK i \in 1 .. Len(W) : turn[i] = k /\ place[i] = q
    BY <1>3, LocatesAll
  <2>2. W[i] = p[k][q]
    BY <1>5, <2>1
  <2> QED  BY <2>2
<1>0. \A i \in 1 .. Len(W) : /\ HasNames(p[turn[i]]) /\ NamesFrom(K, p[turn[i]], F[turn[i]])
                             /\ Apart(p[turn[i]]) /\ F[turn[i]] \subseteq T
  BY <1>5 DEF Lists
<1>8. HasNames(W)
  <2> SUFFICES ASSUME NEW i \in 1 .. Len(W)  PROVE IsList(W[i].names) /\ Len(W[i].names) # 0
    BY DEF HasNames
  <2>1. HasNames(p[turn[i]]) /\ place[i] \in 1 .. Len(p[turn[i]]) /\ W[i] = p[turn[i]][place[i]]
    BY <1>0, <1>5
  <2> QED  BY <2>1 DEF HasNames
<1>9. ASSUME NEW i \in 1 .. Len(W), NEW n \in Elems(W[i].names)
      PROVE  n # NULL /\ \E x \in F[turn[i]] : n = ModelAt(K, x).name
  <2>1. /\ NamesFrom(K, p[turn[i]], F[turn[i]]) /\ place[i] \in 1 .. Len(p[turn[i]])
        /\ n \in Elems(p[turn[i]][place[i]].names)
    BY <1>0, <1>5, <1>9
  <2> DEFINE V == p[turn[i]]
             S == F[turn[i]]
             k == place[i]
  <2>2. NamesFrom(K, V, S) /\ k \in 1 .. Len(V) /\ n \in Elems(V[k].names)
    BY <2>1
  <2> HIDE DEF V, S, k
  <2>3. \A j \in 1 .. Len(V) : \A o \in Elems(V[j].names) :
          o # NULL /\ \E x \in S : o = ModelAt(K, x).name
    BY <2>2, Zenon DEF NamesFrom
  <2>4. n # NULL /\ \E x \in S : n = ModelAt(K, x).name
    BY <2>2, <2>3, Zenon
  <2> QED  BY <2>4 DEF S
<1>10. NamesFrom(K, W, T)
  <2> SUFFICES ASSUME NEW i \in 1 .. Len(W), NEW n \in Elems(W[i].names)
               PROVE  n # NULL /\ \E x \in T : n = ModelAt(K, x).name
    BY DEF NamesFrom
  <2>1. n # NULL /\ \E x \in F[turn[i]] : n = ModelAt(K, x).name
    BY <1>9
  <2> QED  BY <1>0, <2>1
<1>11. ASSUME NEW i \in 1 .. Len(W), NEW j \in 1 .. Len(W), i # j,
              NEW n \in Elems(W[i].names), n \in Elems(W[j].names)
       PROVE  FALSE
  <2>1. CASE turn[i] = turn[j]
    <3>1. place[i] # place[j]  BY <1>6, <1>11, <2>1
    <3>2. Apart(p[turn[i]])  BY <1>0
    <3>3. /\ place[i] \in 1 .. Len(p[turn[i]]) /\ place[j] \in 1 .. Len(p[turn[i]])
          /\ W[i] = p[turn[i]][place[i]] /\ W[j] = p[turn[i]][place[j]]
      BY <1>5, <2>1
    <3>4. Elems(p[turn[i]][place[i]].names) \cap Elems(p[turn[i]][place[j]].names) = {}
      BY <3>1, <3>2, <3>3 DEF Apart
    <3> QED  BY <1>11, <3>3, <3>4
  <2>2. CASE turn[i] # turn[j]
    <3>1. PICK x \in F[turn[i]] : n = ModelAt(K, x).name  BY <1>9, <1>11
    <3>2. PICK y \in F[turn[j]] : n = ModelAt(K, y).name  BY <1>9, <1>11
    <3>3. n # NULL  BY <1>9, <1>11
    <3>4. x \in Places(K) /\ y \in Places(K)  BY <1>0, <3>1, <3>2
    <3>5. x = y  BY <3>1, <3>2, <3>3, <3>4, StackFacts
    <3> QED  BY <1>5, <2>2, <3>1, <3>2, <3>5
  <2> QED  BY <2>1, <2>2
<1>12. Apart(W)
  BY <1>11 DEF Apart
<1>13. HoldsAll(K, W, T)
  <2> SUFFICES ASSUME NEW x \in T, Wanted(K, x)
               PROVE  \E i \in 1 .. Len(W) : Holds(K, W[i], x)
    BY DEF HoldsAll
  <2>1. PICK k \in 1 .. Len(p) : x \in F[k]
    OBVIOUS
  <2>2. PICK q \in 1 .. Len(p[k]) : Holds(K, p[k][q], x)
    BY <2>1 DEF Lists, HoldsAll
  <2> QED  BY <1>7, <2>2
<1> QED  BY <1>2, <1>8, <1>10, <1>12, <1>13 DEF Lists, W

PlacesIn(K, a, d) == {x \in Places(K) : x[1] = a /\ x[2] = d}

LEMMA ListEmpty ==
  ASSUME NEW s, IsList(s), s # << >>
  PROVE  Len(s) # 0 /\ 1 \in DOMAIN s
<1>1. s \in Seq(Elems(s)) /\ Len(s) \in Nat /\ DOMAIN s = 1 .. Len(s)
  BY ListSeq
<1>2. Len(s) # 0
  BY <1>1, EmptySeq
<1> QED  BY <1>1, <1>2

LEMMA NamedFacts ==
  ASSUME NEW s, IsList(s)
  PROVE  /\ IsList(Named(s)) /\ Len(Named(s)) \in Nat
         /\ \E at : Selects(at, s, {i \in DOMAIN s : s[i].name # NULL}, Named(s))
BY SelectFacts, ListSeq DEF Named

LEMMA OrTimeout ==
  ASSUME NEW t, NEW u, NEW v, v # NULL
  PROVE  Or(t, Or(u, v)) = Or(Or(t, u), v)
BY DEF Or

(* The models at the places of document d of file a, by their numbers.     *)
LEMMA InFacts ==
  ASSUME NEW K, IsStack(K), NEW a, NEW d, IsDoc(K, a, d), FileAt(K, a)[d].models # NULL
  PROVE  LET M == FileAt(K, a)[d].models
         IN  /\ IsList(M) /\ DOMAIN M = 1 .. Len(M)
             /\ \A m \in 1 .. Len(M) :
                  /\ <<a, d, m>> \in PlacesIn(K, a, d)
                  /\ ModelAt(K, <<a, d, m>>) = M[m] /\ DocAt(K, <<a, d, m>>) = FileAt(K, a)[d]
                  /\ IsList(M[m].files)
             /\ \A x \in PlacesIn(K, a, d) : x[3] \in 1 .. Len(M) /\ x = <<a, d, x[3]>>
             /\ \A m, n \in 1 .. Len(M) : M[m].name # NULL /\ M[m].name = M[n].name => m = n
<1> DEFINE M == FileAt(K, a)[d].models
<1>1. IsList(M) /\ DOMAIN M = 1 .. Len(M)
  BY StackFacts, ListSeq
<1>2. ASSUME NEW m \in 1 .. Len(M)
      PROVE  /\ <<a, d, m>> \in PlacesIn(K, a, d) /\ <<a, d, m>> \in Places(K)
             /\ ModelAt(K, <<a, d, m>>) = M[m] /\ DocAt(K, <<a, d, m>>) = FileAt(K, a)[d]
             /\ IsList(M[m].files)
  <2> DEFINE y == <<a, d, m>>
  <2>1. IsPlace(K, a, d, m)
    BY <1>1 DEF IsPlace
  <2>2. y \in Places(K)
    BY <2>1, PlaceFacts
  <2>3. y[1] = a /\ y[2] = d /\ y[3] = m
    OBVIOUS
  <2> HIDE DEF y
  <2>4. ModelAt(K, y) = M[m] /\ DocAt(K, y) = FileAt(K, a)[d]
    BY <2>2, <2>3, PlaceFacts
  <2>5. IsList(M[m].files)
    BY <2>2, <2>4, StackFacts
  <2>6. y \in PlacesIn(K, a, d)
    BY <2>2, <2>3 DEF PlacesIn
  <2> QED  BY <2>2, <2>4, <2>5, <2>6 DEF y
<1>3. ASSUME NEW x \in PlacesIn(K, a, d)
      PROVE  x[3] \in 1 .. Len(M) /\ x = <<a, d, x[3]>>
  <2>1. x \in Places(K) /\ x[1] = a /\ x[2] = d
    BY <1>3 DEF PlacesIn
  <2>2. x = <<x[1], x[2], x[3]>> /\ IsPlace(K, x[1], x[2], x[3])
    BY <2>1, PlaceFacts
  <2>3. IsPlace(K, a, d, x[3]) /\ x = <<a, d, x[3]>>
    BY <2>1, <2>2
  <2>4. x[3] \in DOMAIN M
    BY <2>3 DEF IsPlace
  <2> QED  BY <1>1, <2>3, <2>4
<1>4. ASSUME NEW m \in 1 .. Len(M), NEW n \in 1 .. Len(M), M[m].name # NULL, M[m].name = M[n].name
      PROVE  m = n
  <2>1. /\ <<a, d, m>> \in Places(K) /\ ModelAt(K, <<a, d, m>>) = M[m]
        /\ <<a, d, n>> \in Places(K) /\ ModelAt(K, <<a, d, n>>) = M[n]
    BY <1>2
  <2>2. <<a, d, m>> = <<a, d, n>>
    BY <1>4, <2>1, StackFacts
  <2> QED  BY <2>2
<1> HIDE DEF M
<1>5. /\ IsList(M) /\ DOMAIN M = 1 .. Len(M)
      /\ \A m \in 1 .. Len(M) :
           /\ <<a, d, m>> \in PlacesIn(K, a, d)
           /\ ModelAt(K, <<a, d, m>>) = M[m] /\ DocAt(K, <<a, d, m>>) = FileAt(K, a)[d]
           /\ IsList(M[m].files)
      /\ \A x \in PlacesIn(K, a, d) : x[3] \in 1 .. Len(M) /\ x = <<a, d, x[3]>>
      /\ \A m, n \in 1 .. Len(M) : M[m].name # NULL /\ M[m].name = M[n].name => m = n
  BY <1>1, <1>2, <1>3, <1>4
<1> QED  BY <1>5 DEF M

(* The models of a document, each a process.                               *)
LEMMA BuildLists ==
  ASSUME NEW K, IsStack(K), NEW a, NEW d, IsDoc(K, a, d), FileAt(K, a)[d].models # NULL,
         ~FileAt(K, a)[d].stacked
  PROVE  Lists(K, _build_models(FileAt(K, a)[d]), PlacesIn(K, a, d))
<1> DEFINE doc == FileAt(K, a)[d]
           M == doc.models
           N == Named(M)
           I == {i \in DOMAIN M : M[i].name # NULL}
           T == PlacesIn(K, a, d)
           W == _build_models(doc)
           At(m) == <<a, d, m>>
<1>1. /\ IsList(M) /\ DOMAIN M = 1 .. Len(M)
      /\ \A m \in 1 .. Len(M) : At(m) \in T /\ ModelAt(K, At(m)) = M[m] /\ DocAt(K, At(m)) = doc
                                 /\ IsList(M[m].files)
      /\ \A x \in T : x[3] \in 1 .. Len(M) /\ x = At(x[3])
      /\ \A m, n \in 1 .. Len(M) : M[m].name # NULL /\ M[m].name = M[n].name => m = n
  BY InFacts
<1>2. ~doc.stacked
  OBVIOUS
<1>3. W = [i \in 1 .. Len(N) |-> WindowsModel(N[i], doc.timeout, "MODELC_EXE_PATH")]
  BY DEF _build_models, Map
<1> HIDE DEF doc, M, T, W, At
<1>4. IsList(N) /\ Len(N) \in Nat /\ \E at : Selects(at, M, I, N)
  BY <1>1, NamedFacts
<1>5. PICK at : Selects(at, M, I, N)
  BY <1>4
<1> HIDE DEF N
<1>6. \A i \in 1 .. Len(N) : at[i] \in 1 .. Len(M) /\ M[at[i]].name # NULL /\ N[i] = M[at[i]]
  BY <1>5 DEF Selects
<1>7. \A i, j \in 1 .. Len(N) : i # j => at[i] # at[j]
  BY <1>5 DEF Selects
<1>8. \A m \in 1 .. Len(M) : M[m].name # NULL => \E i \in 1 .. Len(N) : at[i] = m
  BY <1>1, <1>5 DEF Selects
<1>9. IsList(W) /\ Len(W) = Len(N)
  BY <1>3, <1>4, FunList
<1>10. ASSUME NEW i \in 1 .. Len(W)
       PROVE  /\ W[i].names = <<M[at[i]].name>> /\ W[i].yaml = M[at[i]].files
              /\ W[i].timeout = Or(M[at[i]].timeout, Or(doc.timeout, DefaultTimeout))
              /\ at[i] \in 1 .. Len(M) /\ M[at[i]].name # NULL
  <2>1. W[i] = WindowsModel(M[at[i]], doc.timeout, "MODELC_EXE_PATH")
    BY <1>3, <1>6, <1>9
  <2> QED  BY <1>6, <1>9, <2>1 DEF WindowsModel
<1>11. \A i \in 1 .. Len(W) : /\ IsList(W[i].names) /\ Len(W[i].names) # 0
                              /\ Elems(W[i].names) = {M[at[i]].name}
  <2> TAKE i \in 1 .. Len(W)
  <2>1. W[i].names = <<M[at[i]].name>>  BY <1>10
  <2> QED  BY <2>1, SingleList
<1>12. HasNames(W)
  BY <1>11 DEF HasNames
<1>13. NamesFrom(K, W, T)
  <2> SUFFICES ASSUME NEW i \in 1 .. Len(W), NEW n \in Elems(W[i].names)
               PROVE  n # NULL /\ \E x \in T : n = ModelAt(K, x).name
    BY DEF NamesFrom
  <2>1. n = M[at[i]].name /\ n # NULL /\ at[i] \in 1 .. Len(M)
    BY <1>10, <1>11
  <2>2. At(at[i]) \in T /\ ModelAt(K, At(at[i])) = M[at[i]]
    BY <1>1, <2>1
  <2> QED  BY <2>1, <2>2
<1>14. Apart(W)
  <2> SUFFICES ASSUME NEW i \in 1 .. Len(W), NEW j \in 1 .. Len(W), i # j
               PROVE  Elems(W[i].names) \cap Elems(W[j].names) = {}
    BY DEF Apart
  <2>1. at[i] # at[j]
    BY <1>7, <1>9
  <2>2. M[at[i]].name # M[at[j]].name
    BY <1>1, <1>10, <2>1
  <2> QED  BY <1>11, <2>2
<1>15. HoldsAll(K, W, T)
  <2> SUFFICES ASSUME NEW x \in T, Wanted(K, x)
               PROVE  \E i \in 1 .. Len(W) : Holds(K, W[i], x)
    BY DEF HoldsAll
  <2> DEFINE m == x[3]
  <2>1. m \in 1 .. Len(M) /\ x = At(m) /\ ModelAt(K, x) = M[m] /\ DocAt(K, x) = doc
        /\ IsList(M[m].files)
    BY <1>1
  <2>2. M[m].name # NULL
    BY <2>1 DEF Wanted
  <2>3. PICK i \in 1 .. Len(W) : at[i] = m
    BY <1>8, <1>9, <2>1, <2>2
  <2>4. DefaultTimeout # NULL
    <3>1. NULL \notin Int  BY EnvironmentAssumption, Zenon
    <3> QED  BY <3>1 DEF DefaultTimeout
  <2>5. W[i].timeout = Or(Or(M[m].timeout, doc.timeout), DefaultTimeout)
    BY <1>10, <2>3, <2>4, OrTimeout
  <2>6. W[i].yaml = M[m].files /\ M[m].name \in Elems(W[i].names)
    BY <1>10, <1>11, <2>3
  <2> QED  BY <1>2, <2>1, <2>5, <2>6 DEF Holds
<1> QED  BY <1>9, <1>12, <1>13, <1>14, <1>15 DEF Lists, W, T, doc

(* The models of a document, one process.                                  *)
LEMMA StackedLists ==
  ASSUME NEW K, IsStack(K), NEW a, NEW d, IsDoc(K, a, d), FileAt(K, a)[d].models # NULL,
         FileAt(K, a)[d].stacked, NEW name,
         \E m \in DOMAIN FileAt(K, a)[d].models : FileAt(K, a)[d].models[m].name # NULL
  PROVE  Lists(K, _build_stacked_model(name, FileAt(K, a)[d]), PlacesIn(K, a, d))
<1> DEFINE doc == FileAt(K, a)[d]
           M == doc.models
           N == Named(M)
           I == {i \in DOMAIN M : M[i].name # NULL}
           T == PlacesIn(K, a, d)
           At(m) == <<a, d, m>>
           names == [i \in 1 .. Len(N) |-> N[i].name]
           fs == [i \in 1 .. Len(N) |-> N[i].files]
           yaml == <<name>> \o FlattenSeq(fs)
           W == _build_stacked_model(name, doc)
           w == W[1]
<1>1. /\ IsList(M) /\ DOMAIN M = 1 .. Len(M)
      /\ \A m \in 1 .. Len(M) : At(m) \in T /\ ModelAt(K, At(m)) = M[m] /\ DocAt(K, At(m)) = doc
                                 /\ IsList(M[m].files)
      /\ \A x \in T : x[3] \in 1 .. Len(M) /\ x = At(x[3])
  BY InFacts
<1>2. doc.stacked /\ \E m \in DOMAIN M : M[m].name # NULL
  OBVIOUS
<1>3. W = <<[names |-> names, yaml |-> yaml, env |-> {},
             timeout |-> Or(doc.timeout, DefaultTimeout),
             exe |-> _get_exe(doc.exe, "MODELC_EXE_PATH")]>>
  BY DEF _build_stacked_model, Map
<1> HIDE DEF doc, M, T, W, At, N
<1>4. /\ w.names = names /\ w.yaml = yaml /\ w.timeout = Or(doc.timeout, DefaultTimeout)
      /\ IsList(W) /\ Len(W) = 1
  <2> DEFINE z == [names |-> names, yaml |-> yaml, env |-> {},
                   timeout |-> Or(doc.timeout, DefaultTimeout),
                   exe |-> _get_exe(doc.exe, "MODELC_EXE_PATH")]
  <2>1. z.names = names /\ z.yaml = yaml /\ z.timeout = Or(doc.timeout, DefaultTimeout)
    OBVIOUS
  <2> HIDE DEF z, names, yaml
  <2>2. W = <<z>>
    BY <1>3 DEF z
  <2> QED  BY <2>1, <2>2, SingleList
<1>5. IsList(N) /\ Len(N) \in Nat /\ \E at : Selects(at, M, I, N)
  BY <1>1, NamedFacts DEF N
<1>6. PICK at : Selects(at, M, I, N)
  BY <1>5
<1>7. \A i \in 1 .. Len(N) : at[i] \in 1 .. Len(M) /\ M[at[i]].name # NULL /\ N[i] = M[at[i]]
  BY <1>6 DEF Selects
<1>8. \A m \in 1 .. Len(M) : M[m].name # NULL => \E i \in 1 .. Len(N) : N[i] = M[m]
  BY <1>1, <1>6, <1>7 DEF Selects
<1>9. /\ names = [i \in 1 .. Len(N) |-> names[i]] /\ fs = [i \in 1 .. Len(N) |-> fs[i]]
      /\ \A i \in 1 .. Len(N) : names[i] = N[i].name /\ fs[i] = N[i].files
  OBVIOUS
<1> HIDE DEF names, fs
<1>10. IsList(names) /\ Len(names) = Len(N) /\ IsList(fs) /\ Len(fs) = Len(N)
  BY <1>5, <1>9, FunList
<1>11. Len(names) # 0
  <2>1. PICK m \in 1 .. Len(M) : M[m].name # NULL
    BY <1>1, <1>2
  <2>2. PICK i \in 1 .. Len(N) : N[i] = M[m]
    BY <1>8, <2>1
  <2> QED  BY <1>5, <1>10, <2>2
<1>12. \A k \in 1 .. Len(fs) : IsList(fs[k])
  BY <1>1, <1>7, <1>9, <1>10
<1>13. IsList(FlattenSeq(fs)) /\ \A k \in 1 .. Len(fs) : Elems(fs[k]) \subseteq Elems(FlattenSeq(fs))
  BY <1>10, <1>12, FlattenElems
<1>14. IsList(yaml) /\ Elems(FlattenSeq(fs)) \subseteq Elems(yaml)
  BY <1>13, SingleList, ConcatList
<1> HIDE DEF yaml, w
<1>15. \A i \in 1 .. Len(W) : W[i] = w
  BY <1>4 DEF w
<1>16. HasNames(W)
  BY <1>4, <1>10, <1>11, <1>15 DEF HasNames
<1>17. NamesFrom(K, W, T)
  <2> SUFFICES ASSUME NEW i \in 1 .. Len(W), NEW n \in Elems(W[i].names)
               PROVE  n # NULL /\ \E x \in T : n = ModelAt(K, x).name
    BY DEF NamesFrom
  <2>0. n \in Elems(names)
    BY <1>4, <1>15
  <2>1. PICK k \in 1 .. Len(N) : n = N[k].name
    BY <1>9, <1>10, <2>0 DEF Elems
  <2>2. n = M[at[k]].name /\ n # NULL /\ at[k] \in 1 .. Len(M)
    BY <1>7, <2>1
  <2>3. At(at[k]) \in T /\ ModelAt(K, At(at[k])) = M[at[k]]
    BY <1>1, <2>2
  <2> QED  BY <2>2, <2>3
<1>18. Apart(W)
  BY <1>4 DEF Apart
<1>19. HoldsAll(K, W, T)
  <2> SUFFICES ASSUME NEW x \in T, Wanted(K, x)
               PROVE  \E i \in 1 .. Len(W) : Holds(K, W[i], x)
    BY DEF HoldsAll
  <2> DEFINE m == x[3]
  <2>1. m \in 1 .. Len(M) /\ x = At(m) /\ ModelAt(K, x) = M[m] /\ DocAt(K, x) = doc
    BY <1>1
  <2>2. M[m].name # NULL
    BY <2>1 DEF Wanted
  <2>3. PICK i \in 1 .. Len(N) : N[i] = M[m]
    BY <1>8, <2>1, <2>2
  <2>4. M[m].name \in Elems(names)
    BY <1>9, <1>10, <2>3 DEF Elems
  <2>5. Elems(M[m].files) \subseteq Elems(yaml)
    <3>1. i \in 1 .. Len(fs) /\ fs[i] = M[m].files
      BY <1>9, <1>10, <2>3
    <3>2. Elems(fs[i]) \subseteq Elems(FlattenSeq(fs))
      BY <1>13, <3>1
    <3> QED  BY <1>14, <3>1, <3>2
  <2>6. Holds(K, w, x)
    BY <1>2, <1>4, <1>14, <2>1, <2>4, <2>5 DEF Holds
  <2>7. 1 \in 1 .. Len(W) /\ W[1] = w
    BY <1>4 DEF w
  <2> QED  BY <2>6, <2>7
<1> QED  BY <1>4, <1>16, <1>17, <1>18, <1>19 DEF Lists, W, T, doc

LEMMA DocLists ==
  ASSUME NamedStacks(Fmus), NEW K, IsStack(K), NEW a, NEW d, IsDoc(K, a, d),
         FileAt(K, a)[d].kind = "Stack", NEW name
  PROVE  Lists(K, _parse_models(name, FileAt(K, a)[d]), PlacesIn(K, a, d))
<1> DEFINE doc == FileAt(K, a)[d]
<1>1. CASE doc.models = NULL \/ doc.models = << >>
  <2>1. _parse_models(name, doc) = << >>
    BY <1>1 DEF _parse_models
  <2>2. ASSUME NEW x \in PlacesIn(K, a, d)  PROVE FALSE
    <3>1. x \in Places(K) /\ x[1] = a /\ x[2] = d
      BY <2>2 DEF PlacesIn
    <3>2. IsPlace(K, a, d, x[3])
      BY <3>1, PlaceFacts
    <3>3. doc.models # NULL /\ x[3] \in DOMAIN doc.models
      BY <3>2 DEF IsPlace
    <3>4. doc.models = << >>
      BY <1>1, <3>3
    <3> QED  BY <3>3, <3>4
  <2>3. Lists(K, << >>, PlacesIn(K, a, d))
    BY <2>2, ListsNothing
  <2> QED  BY <2>1, <2>3
<1>2. CASE ~(doc.models = NULL \/ doc.models = << >>)
  <2>1. CASE doc.stacked
    <3>1. _parse_models(name, doc) = _build_stacked_model(name, doc)
      BY <1>2, <2>1 DEF _parse_models
    <3>2. IsList(doc.models) /\ 1 \in DOMAIN doc.models
      BY <1>2, StackFacts, ListEmpty
    <3>3. IsPlace(K, a, d, 1)
      BY <1>2, <3>2 DEF IsPlace
    <3> DEFINE y == <<a, d, 1>>
    <3>4. y \in Places(K) /\ y[1] = a /\ y[2] = d
      BY <3>3, PlaceFacts
    <3> HIDE DEF y
    <3>5. DocAt(K, y) = doc
      BY <3>4, PlaceFacts
    <3>6. \E m \in DOMAIN doc.models : doc.models[m].name # NULL
      BY <2>1, <3>4, <3>5 DEF NamedStacks, IsStack
    <3> QED  BY <1>2, <2>1, <3>1, <3>6, StackedLists
  <2>2. CASE ~doc.stacked
    <3>1. _parse_models(name, doc) = _build_models(doc)
      BY <1>2, <2>2 DEF _parse_models
    <3> QED  BY <1>2, <2>2, <3>1, BuildLists
  <2> QED  BY <2>1, <2>2
<1> QED  BY <1>1, <1>2

PlacesOf(K, a) == {x \in Places(K) : x[1] = a}

LEMMA FileLists ==
  ASSUME NamedStacks(Fmus), stack # NULL, IsStack(stack), stack.model_stack # NULL,
         NEW a \in DOMAIN stack.model_stack
  PROVE  Lists(stack, _parse_stack(stack.model_stack[a]), PlacesOf(stack, a))
<1> DEFINE K == stack
           name == K.model_stack[a]
           D == FileAt(K, a)
           T == PlacesOf(K, a)
<1>0. \A x \in T : /\ x \in Places(K) /\ x[1] = a /\ IsDoc(K, a, x[2])
                   /\ DocAt(K, x) = D[x[2]]
  <2> TAKE x \in T
  <2>1. x \in Places(K) /\ x[1] = a
    BY DEF PlacesOf
  <2>2. IsPlace(K, a, x[2], x[3]) /\ DocAt(K, x) = D[x[2]]
    BY <2>1, PlaceFacts
  <2> QED  BY <2>1, <2>2 DEF IsPlace
<1>1. CASE D = NULL
  <2>1. _parse_stack(name) = << >>
    BY <1>1 DEF _parse_stack, FileAt
  <2>2. \A x \in T : ~Wanted(K, x)
    BY <1>0, <1>1 DEF IsDoc
  <2> QED  BY <2>1, <2>2, ListsNothing
<1>2. CASE D # NULL
  <2> DEFINE I == {i \in DOMAIN D : D[i].kind = "Stack"}
             R == Select(D, I)
             p == [i \in 1 .. Len(R) |-> _parse_models(name, R[i])]
  <2>1. _parse_stack(name) = FlattenSeq(p)
    BY <1>2 DEF _parse_stack, FileAt, Map
  <2>3. IsList(D) /\ DOMAIN D = 1 .. Len(D)
    <3>1. IsList(D)
      BY <1>2, StackAssumption DEF IsStack, FileAt
    <3> QED  BY <3>1, ListSeq
  <2>4. IsList(R) /\ Len(R) \in Nat /\ \E at : Selects(at, D, I, R)
    BY <2>3, SelectFacts, ListSeq
  <2>5. PICK at : Selects(at, D, I, R)
    BY <2>4
  <2> HIDE DEF R, D, T, name
  <2>6. \A i \in 1 .. Len(R) : at[i] \in 1 .. Len(D) /\ D[at[i]].kind = "Stack" /\ R[i] = D[at[i]]
    BY <2>5 DEF Selects
  <2>7. \A i, j \in 1 .. Len(R) : i # j => at[i] # at[j]
    BY <2>5 DEF Selects
  <2>8. \A n \in 1 .. Len(D) : D[n].kind = "Stack" => \E i \in 1 .. Len(R) : at[i] = n
    BY <2>3, <2>5 DEF Selects
  <2>9. p = [i \in 1 .. Len(R) |-> p[i]] /\ \A i \in 1 .. Len(R) : p[i] = _parse_models(name, R[i])
    OBVIOUS
  <2> HIDE DEF p
  <2>10. IsList(p) /\ Len(p) = Len(R)
    BY <2>4, <2>9, FunList
  <2> DEFINE F == [i \in 1 .. Len(R) |-> PlacesIn(K, a, at[i])]
  <2>11. \A i \in 1 .. Len(p) : F[i] = PlacesIn(K, a, at[i])
    BY <2>10
  <2> HIDE DEF F
  <2>12. ASSUME NEW i \in 1 .. Len(p)  PROVE Lists(K, p[i], F[i]) /\ F[i] \subseteq T
    <3>1. at[i] \in DOMAIN D /\ D[at[i]].kind = "Stack" /\ p[i] = _parse_models(name, D[at[i]])
      BY <2>3, <2>6, <2>9, <2>10
    <3>2. IsDoc(K, a, at[i])
      BY <1>2, <3>1 DEF IsDoc, D
    <3>3. Lists(K, p[i], PlacesIn(K, a, at[i]))
      BY <3>1, <3>2, DocLists DEF D
    <3>4. PlacesIn(K, a, at[i]) \subseteq T
      BY DEF PlacesIn, PlacesOf, T
    <3> QED  BY <2>11, <3>3, <3>4
  <2>13. ASSUME NEW i \in 1 .. Len(p), NEW j \in 1 .. Len(p), i # j  PROVE F[i] \cap F[j] = {}
    <3>1. at[i] # at[j]
      BY <2>7, <2>10, <2>13
    <3> QED  BY <2>11, <3>1 DEF PlacesIn
  <2>14. ASSUME NEW x \in T, Wanted(K, x)  PROVE \E i \in 1 .. Len(p) : x \in F[i]
    <3>1. x \in Places(K) /\ x[1] = a /\ x[2] \in 1 .. Len(D) /\ D[x[2]].kind = "Stack"
      BY <1>0, <2>3, <2>14 DEF Wanted, IsDoc, D
    <3>2. PICK i \in 1 .. Len(p) : at[i] = x[2]
      BY <2>8, <2>10, <3>1
    <3> QED  BY <2>11, <3>1, <3>2 DEF PlacesIn
  <2>15. T \subseteq Places(K)
    BY DEF T, PlacesOf
  <2>16. Lists(K, FlattenSeq(p), T)
    BY <2>10, <2>12, <2>13, <2>14, <2>15, ListsFlatten
  <2> QED  BY <2>1, <2>16 DEF T, name
<1> QED  BY <1>1, <1>2

LEMMA StackLists ==
  ASSUME NamedStacks(Fmus), stack # NULL, IsStack(stack)
  PROVE  Lists(stack, _parse_model_stacks, Places(stack))
<1> DEFINE K == stack
           T == Places(K)
<1>0. \A x \in T : K.model_stack # NULL /\ x[1] \in DOMAIN K.model_stack
  BY PlaceFacts DEF IsPlace, IsDoc
<1>1. CASE K.model_stack = NULL
  <2>1. _parse_model_stacks = << >>
    BY <1>1 DEF _parse_model_stacks
  <2>2. \A x \in T : ~Wanted(K, x)
    BY <1>0, <1>1
  <2> QED  BY <2>1, <2>2, ListsNothing
<1>2. CASE K.model_stack # NULL
  <2> DEFINE S == K.model_stack
             p == [i \in 1 .. Len(S) |-> _parse_stack(S[i])]
             F == [i \in 1 .. Len(S) |-> PlacesOf(K, i)]
  <2>1. _parse_model_stacks = FlattenSeq(p)
    BY <1>2 DEF _parse_model_stacks, Map
  <2>2. IsList(S) /\ Len(S) \in Nat /\ DOMAIN S = 1 .. Len(S)
    BY <1>2, StackFacts, ListSeq
  <2>3. \A i \in 1 .. Len(S) : Lists(K, _parse_stack(S[i]), PlacesOf(K, i))
    BY <1>2, <2>2, FileLists
  <2> HIDE DEF S, T
  <2>4. p = [i \in 1 .. Len(S) |-> p[i]] /\ \A i \in 1 .. Len(S) : p[i] = _parse_stack(S[i])
    OBVIOUS
  <2> HIDE DEF p
  <2>5. IsList(p) /\ Len(p) = Len(S)
    BY <2>2, <2>4, FunList
  <2>6. \A i \in 1 .. Len(p) : F[i] = PlacesOf(K, i)
    BY <2>5
  <2> HIDE DEF F
  <2>7. \A i \in 1 .. Len(p) : Lists(K, p[i], F[i])
    BY <2>3, <2>4, <2>5, <2>6
  <2>8. \A i \in 1 .. Len(p) : F[i] \subseteq T
    BY <2>6 DEF PlacesOf, T
  <2>9. \A i, j \in 1 .. Len(p) : i # j => F[i] \cap F[j] = {}
    BY <2>6 DEF PlacesOf
  <2>10. ASSUME NEW x \in T  PROVE \E i \in 1 .. Len(p) : x \in F[i]
    <3>1. x[1] \in 1 .. Len(p)
      BY <1>0, <2>2, <2>5 DEF S
    <3> QED  BY <2>6, <3>1 DEF PlacesOf, T
  <2>11. T \subseteq Places(K)
    BY DEF T
  <2>12. Lists(K, FlattenSeq(p), T)
    BY <2>5, <2>7, <2>8, <2>9, <2>10, <2>11, ListsFlatten
  <2> QED  BY <2>1, <2>12 DEF T
<1> QED  BY <1>1, <1>2

SessionInv ==
  Active /\ session # NULL =>
    /\ stack # NULL
    /\ session.transport # NULL => session.transport.names = <<"transport">>
    /\ session.simbus # NULL => stack.simbus # NULL /\ session.simbus.names = <<stack.simbus.name>>
    /\ Lists(stack, session.w_models, Places(stack))

LEMMA SessionStep ==
  ASSUME NamedStacks(Fmus), ConfInv, SessionInv, [Next]_vars
  PROVE  SessionInv'
<1>1. stack' = stack
  BY NextConf, Frame
<1>2. CASE fmu_create
  <2> DEFINE new == [transport |-> Transport, simbus |-> _parse_simbus, w_models |-> _parse_model_stacks]
  <2>1. session' = NULL \/ (stack # NULL /\ session' = new)
    BY <1>2 DEF fmu_create
  <2>2. CASE session' = NULL
    BY <2>2 DEF SessionInv
  <2>3. CASE stack # NULL /\ session' = new
    <3>1. /\ session'.transport = Transport /\ session'.simbus = _parse_simbus
          /\ session'.w_models = _parse_model_stacks
      BY <2>3
    <3>2. Transport # NULL => Transport.names = <<"transport">>
      <4>1. _parse_redis # NULL => _parse_redis.names = <<"transport">>
        BY DEF _parse_redis
      <4> QED  BY <4>1 DEF Transport
    <3>3. _parse_simbus # NULL => stack.simbus # NULL /\ _parse_simbus.names = <<stack.simbus.name>>
      BY DEF _parse_simbus, WindowsModel
    <3>4. IsStack(stack)
      BY <2>3 DEF ConfInv, IsStack
    <3>5. Lists(stack, _parse_model_stacks, Places(stack))
      BY <2>3, <3>4, StackLists
    <3> QED  BY <1>1, <2>3, <3>1, <3>2, <3>3, <3>5 DEF SessionInv
  <2> QED  BY <2>1, <2>2, <2>3
<1>3. CASE \E rc \in {0, 1} : fmu_destroy(rc)
  BY <1>3 DEF fmu_destroy, SessionInv, Active
<1>4. CASE session' = session /\ (Active' => Active)
  BY <1>1, <1>4 DEF SessionInv
<1>5. CASE \/ Done \/ UNCHANGED vars
           \/ \E rc, gw \in {0, 1} : fmu_init(rc, gw)
           \/ \E v \in VRefs("Real"), val \in Real : SetReal(v, val)
           \/ \E v \in VRefs("String"), text \in Text : SetString(v, text)
           \/ \E s \in DOMAIN bus, n \in DOMAIN net, val \in Real, t \in Text :
                DoStep(s, val, n, <<t>>)
  BY <1>4, <1>5 DEF Done, vars, fmu_init, SetReal, SetString, DoStep, Active
<1> QED  BY <1>2, <1>3, <1>5 DEF Next

(* The processes before those of the stack.                                *)
Before ==
  (IF session.transport = NULL THEN << >> ELSE <<session.transport>>)
    \o (IF session.simbus = NULL THEN << >> ELSE <<session.simbus>>)

LEMMA BeforeFacts ==
  ASSUME ConfInv, SessionInv, Active, session # NULL
  PROVE  /\ IsList(Before)
         /\ \A i \in 1 .. Len(Before) : /\ IsList(Before[i].names)
                                        /\ \A x \in Places(stack) : ModelAt(stack, x).name # NULL =>
                                             ModelAt(stack, x).name \notin Elems(Before[i].names)
<1> DEFINE t == IF session.transport = NULL THEN << >> ELSE <<session.transport>>
           s == IF session.simbus = NULL THEN << >> ELSE <<session.simbus>>
           Other(w) == /\ IsList(w.names)
                       /\ \A x \in Places(stack) : ModelAt(stack, x).name # NULL =>
                            ModelAt(stack, x).name \notin Elems(w.names)
<1>1. /\ stack # NULL
      /\ session.transport # NULL => session.transport.names = <<"transport">>
      /\ session.simbus # NULL => stack.simbus # NULL /\ session.simbus.names = <<stack.simbus.name>>
  BY DEF SessionInv
<1>2. IsStack(stack)
  BY <1>1 DEF ConfInv, IsStack
<1>3. IsList(t) /\ \A w \in Elems(t) : Other(w)
  <2>1. CASE session.transport = NULL
    BY <2>1, EmptyList
  <2>2. CASE session.transport # NULL
    <3>1. IsList(t) /\ Elems(t) = {session.transport}
      BY <2>2, SingleList
    <3>2. IsList(session.transport.names) /\ Elems(session.transport.names) = {"transport"}
      BY <1>1, <2>2, SingleList
    <3>3. \A x \in Places(stack) : ModelAt(stack, x).name # "transport"
      BY <1>2, StackFacts
    <3> QED  BY <3>1, <3>2, <3>3
  <2> QED  BY <2>1, <2>2
<1>4. IsList(s) /\ \A w \in Elems(s) : Other(w)
  <2>1. CASE session.simbus = NULL
    BY <2>1, EmptyList
  <2>2. CASE session.simbus # NULL
    <3>1. IsList(s) /\ Elems(s) = {session.simbus}
      BY <2>2, SingleList
    <3>2. IsList(session.simbus.names) /\ Elems(session.simbus.names) = {stack.simbus.name}
      BY <1>1, <2>2, SingleList
    <3>3. \A x \in Places(stack) : ModelAt(stack, x).name # NULL => ModelAt(stack, x).name # stack.simbus.name
      BY <1>1, <1>2, <2>2, StackFacts
    <3> QED  BY <3>1, <3>2, <3>3
  <2> QED  BY <2>1, <2>2
<1>5. Before = t \o s
  BY DEF Before
<1> HIDE DEF t, s, Other
<1>6. IsList(Before) /\ Elems(Before) = Elems(t) \cup Elems(s)
  BY <1>3, <1>4, <1>5, ConcatList
<1>7. \A i \in 1 .. Len(Before) : Other(Before[i])
  BY <1>3, <1>4, <1>6 DEF Elems
<1> QED  BY <1>6, <1>7 DEF Other

LEMMA StartAll ==
  ASSUME SessionInv, Active, session # NULL
  PROVE  StartModels = Before \o session.w_models
<1> DEFINE W == session.w_models
           none == {i \in DOMAIN W : W[i].names = << >>}
           first == {i \in DOMAIN W : \A b \in none : i < b}
<1>1. IsList(W) /\ HasNames(W)
  BY DEF SessionInv, Lists
<1>2. Len(W) \in Nat /\ DOMAIN W = 1 .. Len(W) /\ W \in Seq(Elems(W))
  BY <1>1, ListSeq
<1>3. StartModels = Before \o SubSeq(W, 1, Cardinality(first))
  BY DEF StartModels, Before
<1> HIDE DEF W
<1>4. none = {}
  <2>1. \A i \in DOMAIN W : Len(W[i].names) # 0
    BY <1>1, <1>2 DEF HasNames
  <2>2. Len(<< >>) = 0
    OBVIOUS
  <2> QED  BY <2>1, <2>2
<1> HIDE DEF none
<1>5. first = 1 .. Len(W)
  BY <1>2, <1>4
<1> HIDE DEF first
<1>6. Cardinality(1 .. Len(W)) = Len(W)
  BY <1>2, FS_Interval
<1>7. SubSeq(W, 1, Len(W)) = W
  <2>1. CASE Len(W) = 0
    <3>1. W = << >>  BY <1>2, <2>1, EmptySeq
    <3>2. SubSeq(W, 1, Len(W)) = << >>  BY <1>2, <2>1, SubSeqEmpty
    <3> QED  BY <3>1, <3>2
  <2>2. CASE Len(W) # 0
    <3> DEFINE V == SubSeq(W, 1, Len(W))
    <3>1. /\ V \in Seq(Elems(W)) /\ Len(V) = Len(W)
          /\ \A i \in 1 .. Len(W) : V[i] = W[i]
      BY <1>2, <2>2, SubSeqProperties
    <3> HIDE DEF V
    <3>2. V = [i \in 1 .. Len(V) |-> V[i]] /\ W = [i \in 1 .. Len(W) |-> W[i]]
      BY <1>1, <3>1, SeqList DEF IsList
    <3>3. V = W
      BY <3>1, <3>2
    <3> QED  BY <3>3 DEF V
  <2> QED  BY <2>1, <2>2
<1> QED  BY <1>3, <1>5, <1>6, <1>7 DEF W

(* One process holds the model, and starts it with its files and timeout.  *)
InOne(S, K, x) ==
  /\ \A i \in 1 .. Len(S) : IsList(S[i].names)
  /\ \E i \in 1 .. Len(S) :
       /\ Holds(K, S[i], x)
       /\ \A j \in 1 .. Len(S) : ModelAt(K, x).name \in Elems(S[j].names) => j = i

LEMMA StartedHolds ==
  ASSUME ConfInv, SessionInv, Active, session # NULL, NEW x \in Places(stack), Wanted(stack, x)
  PROVE  IsList(StartModels) /\ InOne(StartModels, stack, x)
<1> DEFINE W == session.w_models
           B == Before
           S == B \o W
           n == ModelAt(stack, x).name
<1>1. IsList(W) /\ HasNames(W) /\ Apart(W) /\ HoldsAll(stack, W, Places(stack)) /\ n # NULL
  BY DEF SessionInv, Lists, Wanted
<1>2. IsList(B) /\ \A i \in 1 .. Len(B) : IsList(B[i].names) /\ n \notin Elems(B[i].names)
  BY <1>1, BeforeFacts
<1>3. StartModels = S
  BY StartAll
<1>4. Len(B) \in Nat /\ Len(W) \in Nat
  BY <1>1, <1>2 DEF IsList
<1>5. PICK k \in 1 .. Len(W) : Holds(stack, W[k], x)
  BY <1>1 DEF HoldsAll
<1>6. n \in Elems(W[k].names)
  BY <1>5 DEF Holds
<1> HIDE DEF W, B, n
<1>7. /\ IsList(S) /\ Len(S) = Len(B) + Len(W)
      /\ \A i \in 1 .. Len(B) : S[i] = B[i]
      /\ \A i \in 1 .. Len(W) : S[Len(B) + i] = W[i]
  BY <1>1, <1>2, ConcatList
<1> HIDE DEF S
<1>8. \A i \in 1 .. Len(S) : \/ i \in 1 .. Len(B) /\ S[i] = B[i]
                             \/ \E l \in 1 .. Len(W) : i = Len(B) + l /\ S[i] = W[l]
  <2> TAKE i \in 1 .. Len(S)
  <2>1. CASE i <= Len(B)
    BY <1>4, <1>7, <2>1
  <2>2. CASE ~(i <= Len(B))
    <3>1. i - Len(B) \in 1 .. Len(W) /\ i = Len(B) + (i - Len(B))
      BY <1>4, <1>7, <2>2
    <3>2. S[i] = W[i - Len(B)]
      BY <1>7, <3>1
    <3> QED  BY <3>1, <3>2
  <2> QED  BY <2>1, <2>2
<1>9. \A i \in 1 .. Len(S) : IsList(S[i].names)
  BY <1>1, <1>2, <1>8 DEF HasNames
<1>10. ASSUME NEW j \in 1 .. Len(S), n \in Elems(S[j].names)  PROVE j = Len(B) + k
  <2>1. ~(j \in 1 .. Len(B) /\ S[j] = B[j])
    BY <1>2, <1>10
  <2>2. PICK l \in 1 .. Len(W) : j = Len(B) + l /\ S[j] = W[l]
    BY <1>8, <2>1
  <2>3. l = k
    <3>1. n \in Elems(W[l].names) \cap Elems(W[k].names)
      BY <1>6, <1>10, <2>2
    <3>2. l # k => Elems(W[l].names) \cap Elems(W[k].names) = {}
      BY <1>1 DEF Apart
    <3> QED  BY <3>1, <3>2
  <2> QED  BY <2>2, <2>3
<1>11. Len(B) + k \in 1 .. Len(S) /\ Holds(stack, S[Len(B) + k], x)
  BY <1>4, <1>5, <1>7
<1>12. InOne(S, stack, x)
  BY <1>9, <1>10, <1>11 DEF InOne, n
<1> QED  BY <1>3, <1>7, <1>12

(* What fmu_init started stays until the instance is freed.                *)
StartedInv ==
  pc = "ready" /\ session # NULL /\ platform = "win32" =>
    \A x \in Places(stack) : Wanted(stack, x) => IsList(started) /\ InOne(started, stack, x)

LEMMA StartedStep ==
  ASSUME ConfInv, SettingsInv, SessionInv, StartedInv, [Next]_vars
  PROVE  StartedInv'
<1>1. platform' = platform /\ stack' = stack
  BY NextConf, Frame
<1>2. CASE pc = "ready" /\ session' = session /\ started' = started
  BY <1>1, <1>2 DEF StartedInv
<1>3. CASE pc' # "ready"
  BY <1>3 DEF StartedInv
<1>4. CASE \E rc, gw \in {0, 1} : fmu_init(rc, gw)
  <2>1. session' = session /\ Active
    BY <1>4 DEF fmu_init, Active
  <2> SUFFICES ASSUME pc' = "ready", session # NULL, platform = "win32",
                      NEW x \in Places(stack), Wanted(stack, x)
               PROVE  IsList(started') /\ InOne(started', stack, x)
    BY <1>1, <2>1 DEF StartedInv
  <2>2. settings.type # "SIMER"
    BY <2>1 DEF SettingsInv
  <2>3. started' = StartModels
    BY <1>4, <2>2 DEF fmu_init, InitOK, InitFailed
  <2> QED  BY <2>1, <2>3, StartedHolds
<1>5. CASE fmu_create \/ \E rc \in {0, 1} : fmu_destroy(rc)
  BY <1>3, <1>5 DEF fmu_create, fmu_destroy
<1>6. CASE \/ Done \/ UNCHANGED vars
           \/ \E v \in VRefs("Real"), val \in Real : SetReal(v, val)
           \/ \E v \in VRefs("String"), text \in Text : SetString(v, text)
           \/ \E s \in DOMAIN bus, n \in DOMAIN net, val \in Real, t \in Text :
                DoStep(s, val, n, <<t>>)
  <2>1. pc' = pc /\ session' = session /\ started' = started
    BY <1>6 DEF Done, vars, SetReal, SetString, DoStep
  <2> QED  BY <1>2, <1>3, <2>1
<1> QED  BY <1>4, <1>5, <1>6 DEF Next

LEMMA StartedSafe ==
  ASSUME ConfInv, SessionInv, StartedInv
  PROVE  ModelsStarted
<1> SUFFICES ASSUME pc = "ready", session # NULL, platform = "win32", stack.model_stack # NULL,
                    NEW name \in ToSet(stack.model_stack), stack.files[name] # NULL,
                    NEW d \in ToSet(stack.files[name]), d.kind = "Stack", d.models # NULL,
                    NEW m \in ToSet(d.models), m.name # NULL
             PROVE  LET P == {i \in DOMAIN started : m.name \in ToSet(started[i].names)}
                        limit == IF d.stacked THEN d.timeout ELSE Or(m.timeout, d.timeout)
                    IN  /\ Cardinality(P) = 1
                        /\ \A i \in P : /\ ToSet(m.files) \subseteq ToSet(started[i].yaml)
                                        /\ started[i].timeout = Or(limit, DefaultTimeout)
  BY DEF ModelsStarted
<1> DEFINE K == stack
           P == {i \in DOMAIN started : m.name \in ToSet(started[i].names)}
           limit == IF d.stacked THEN d.timeout ELSE Or(m.timeout, d.timeout)
<1>1. K # NULL /\ IsStack(K)
  BY DEF SessionInv, Active, ConfInv, IsStack
<1>2. PICK a \in DOMAIN K.model_stack : name = K.model_stack[a]
  BY DEF ToSet
<1>3. PICK e \in DOMAIN K.files[name] : d = K.files[name][e]
  BY DEF ToSet
<1>4. PICK k \in DOMAIN d.models : m = d.models[k]
  BY DEF ToSet
<1> DEFINE x == <<a, e, k>>
<1>5. IsPlace(K, a, e, k)
  BY <1>2, <1>3, <1>4 DEF IsPlace, IsDoc, FileAt
<1>6. x \in Places(K) /\ x[1] = a /\ x[2] = e /\ x[3] = k
  BY <1>5, PlaceFacts
<1> HIDE DEF x
<1>7. DocAt(K, x) = d /\ ModelAt(K, x) = m
  BY <1>2, <1>3, <1>4, <1>6, PlaceFacts DEF FileAt
<1>8. IsList(started) /\ InOne(started, K, x)
  BY <1>6, <1>7 DEF StartedInv, Wanted
<1>9. DOMAIN started = 1 .. Len(started)
  BY <1>8, ListSeq
<1>10. PICK i \in 1 .. Len(started) :
         /\ Holds(K, started[i], x)
         /\ \A j \in 1 .. Len(started) : m.name \in Elems(started[j].names) => j = i
  BY <1>7, <1>8 DEF InOne
<1>11. \A j \in 1 .. Len(started) : ToSet(started[j].names) = Elems(started[j].names)
  BY <1>8, ListSeq DEF InOne
<1>12. P = {i}
  BY <1>7, <1>9, <1>10, <1>11 DEF Holds
<1>13. Cardinality(P) = 1
  BY <1>12, FS_Singleton
<1>14. IsList(m.files)
  BY <1>1, <1>6, <1>7, StackFacts
<1>15. ToSet(m.files) \subseteq ToSet(started[i].yaml)
  BY <1>7, <1>10, <1>14, ListSeq DEF Holds
<1>16. started[i].timeout = Or(limit, DefaultTimeout)
  BY <1>7, <1>10 DEF Holds
<1> HIDE DEF limit
<1>17. \A j \in P : /\ ToSet(m.files) \subseteq ToSet(started[j].yaml)
                    /\ started[j].timeout = Or(limit, DefaultTimeout)
  BY <1>12, <1>15, <1>16
<1> QED  BY <1>13, <1>17 DEF limit

(* Provided every document that runs as one process has a named model,     *)
(* every named model of the stacks is in exactly one of the processes      *)
(* fmu_init starts, with its files and its timeout, whatever the stacks    *)
(* list (parser.c:119, :181, :258).                                        *)
THEOREM ModelsSafe == ASSUME NamedStacks(Fmus) PROVE Spec => []ModelsStarted
<1>1. Init => SettingsInv /\ SessionInv /\ StartedInv
  BY DEF Init, SettingsInv, SessionInv, StartedInv, Active
<1>2. (ConfInv /\ ValInv) /\ (SettingsInv /\ SessionInv /\ StartedInv) /\ [Next]_vars =>
        (SettingsInv /\ SessionInv /\ StartedInv)'
  BY SettingsStep, SessionStep, StartedStep
<1>3. (ConfInv /\ ValInv) /\ (SettingsInv /\ SessionInv /\ StartedInv) => ModelsStarted
  BY StartedSafe
<1> QED  BY <1>1, <1>2, <1>3, ValSafe, PTL DEF Spec
=============================================================================

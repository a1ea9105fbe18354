------------------------ MODULE VariableIndex_proofs ------------------------
(***************************************************************************)
(* Proofs about VariableIndex, for any set of documents that satisfies the *)
(* assumptions, of any number of variables.                                *)
(***************************************************************************)
EXTENDS VariableIndex, FiniteSetTheorems, TLAPS

-----------------------------------------------------------------------------
(***************************************************************************)
(* The document.                                                           *)
(***************************************************************************)

(* The document is one of those there may be.                              *)
DocInv == \E D \in Documents : version = D.version /\ variables = D.variables

(* The FMU gives variable i a slot of the vector k.                        *)
First(i, k) == version = 2 /\ variables[i].types[1] \in TypesOf(k)

LEMMA ListFacts ==
  ASSUME DocInv
  PROVE  /\ Len(variables) \in Nat /\ DOMAIN variables = 1 .. Len(variables)
         /\ \A i \in DOMAIN variables : /\ Len(variables[i].types) \in Nat
                                        /\ DOMAIN variables[i].types = 1 .. Len(variables[i].types)
  BY DocumentAssumption DEF DocInv, IsList

LEMMA NameUnique ==
  ASSUME DocInv, NEW i \in DOMAIN variables, NEW j \in DOMAIN variables,
         variables[i].name = variables[j].name
  PROVE  i = j
  BY DocumentAssumption DEF DocInv

LEMMA RefUnique ==
  ASSUME DocInv, NEW k \in Kind, NEW i \in DOMAIN variables, NEW j \in DOMAIN variables,
         Is(variables[i], k), Is(variables[j], k),
         variables[i].causality = variables[j].causality, variables[i].vr = variables[j].vr
  PROVE  i = j
<1>1. PICK D \in Documents : version = D.version /\ variables = D.variables
  BY DEF DocInv
<1>2. i \in DOMAIN D.variables /\ j \in DOMAIN D.variables
  BY <1>1
<1>3. i # j => \A l \in Kind : Is(variables[i], l) /\ Is(variables[j], l)
                   /\ variables[i].causality = variables[j].causality
                   => variables[i].vr # variables[j].vr
  BY <1>1, <1>2, DocumentAssumption
<1> QED
  BY <1>3

(* An element has a child.                                                 *)
LEMMA FirstChild ==
  ASSUME DocInv, NEW i \in DOMAIN variables
  PROVE  1 \in DOMAIN variables[i].types /\ variables[i].types # << >>
<1> DEFINE T == {j \in DOMAIN variables[i].types :
                   variables[i].types[j] \in ScalarType \cup BinaryType}
<1>1. Cardinality(T) = 1
  BY DocumentAssumption DEF DocInv
<1>2. T # {}
  BY <1>1, FS_EmptySet
<1>3. PICK j \in DOMAIN variables[i].types : TRUE
  BY <1>2
<1> QED
  BY <1>3, ListFacts

LEMMA FirstIs ==
  ASSUME DocInv, NEW k \in Kind, NEW i \in DOMAIN variables, First(i, k)
  PROVE  Is(variables[i], k)
  BY FirstChild DEF First, Is

LEMMA IndexedFirst ==
  ASSUME DocInv, NEW k \in Kind, at \in DOMAIN variables
  PROVE  Indexed(k) <=> First(at, k)
  BY FirstChild DEF Indexed, First, Var
-----------------------------------------------------------------------------
(***************************************************************************)
(* The count of the children.                                              *)
(***************************************************************************)

(* The children of kind k of the variables in S.                           *)
Typed(k, S) == {x \in Children : x[1] \in S /\ variables[x[1]].types[x[2]] \in TypesOf(k)}

LEMMA ChildrenFinite ==
  ASSUME DocInv
  PROVE  IsFiniteSet(Children)
<1> DEFINE S == DOMAIN variables
           T == {{i} \X (DOMAIN variables[i].types) : i \in S}
           f == [i \in S |-> {i} \X (DOMAIN variables[i].types)]
<1>1. IsFiniteSet(S)
  BY ListFacts, FS_Interval
<1>2. f \in Surjection(S, T)
  BY DEF Surjection
<1>3. IsFiniteSet(T)
  BY <1>1, <1>2, FS_Surjection DEF ExistsSurjection
<1>4. ASSUME NEW t \in T PROVE IsFiniteSet(t)
  <2>1. PICK i \in S : t = {i} \X (DOMAIN variables[i].types)
    OBVIOUS
  <2>2. IsFiniteSet(DOMAIN variables[i].types)
    <3> DEFINE n == Len(variables[i].types)
    <3>1. n \in Int /\ DOMAIN variables[i].types = 1 .. n
      BY ListFacts
    <3>2. IsFiniteSet(1 .. n)
      BY <3>1, FS_Interval
    <3> QED
      BY <3>1, <3>2
  <2>3. IsFiniteSet({i})
    BY FS_Singleton
  <2> QED
    BY <2>1, <2>2, <2>3, FS_Product
<1> QED
  BY <1>3, <1>4, FS_UNION DEF Children

LEMMA TypedFinite ==
  ASSUME DocInv, NEW k \in Kind, NEW S
  PROVE  IsFiniteSet(Typed(k, S)) /\ Cardinality(Typed(k, S)) \in Nat
<1>1. Typed(k, S) \in SUBSET Children
  BY DEF Typed
<1>2. IsFiniteSet(Typed(k, S))
  BY <1>1, ChildrenFinite, FS_Subset
<1> QED
  BY <1>2, FS_CardinalityType

LEMMA TypedMono ==
  ASSUME DocInv, NEW k \in Kind, NEW S, NEW T, S \subseteq T
  PROVE  Cardinality(Typed(k, S)) <= Cardinality(Typed(k, T))
<1>1. Typed(k, S) \in SUBSET Typed(k, T)
  BY DEF Typed
<1> QED
  BY <1>1, TypedFinite, FS_Subset

LEMMA FirstTyped ==
  ASSUME DocInv, NEW k \in Kind, NEW S, NEW i \in DOMAIN variables, i \in S, First(i, k)
  PROVE  <<i, 1>> \in Typed(k, S)
<1>1. <<i, 1>> \in {i} \X (DOMAIN variables[i].types)
  BY FirstChild
<1>2. <<i, 1>> \in Children
  BY <1>1 DEF Children
<1> QED
  BY <1>2 DEF Typed, First

(* A variable that gets a slot is counted, apart from those before it.     *)
LEMMA TypedNext ==
  ASSUME DocInv, NEW k \in Kind, NEW n \in DOMAIN variables, First(n, k)
  PROVE  Cardinality(Typed(k, 1 .. n - 1)) + 1 <= Cardinality(Typed(k, 1 .. n))
<1> DEFINE A == Typed(k, 1 .. n - 1)
<1>0. n \in Nat
  BY ListFacts
<1>1. IsFiniteSet(A)
  BY TypedFinite
<1>2. <<n, 1>> \notin A
  BY <1>0 DEF Typed
<1>3. Cardinality(A \cup {<<n, 1>>}) = Cardinality(A) + 1
  BY <1>1, <1>2, FS_AddElement
<1>4. <<n, 1>> \in Typed(k, 1 .. n)
  <2>1. n \in 1 .. n
    BY ListFacts
  <2> QED
    BY <2>1, FirstTyped
<1>5. A \subseteq Typed(k, 1 .. n)
  BY <1>0 DEF Typed
<1>6. A \cup {<<n, 1>>} \in SUBSET Typed(k, 1 .. n)
  BY <1>4, <1>5
<1>7. IsFiniteSet(Typed(k, 1 .. n))
  BY TypedFinite
<1>8. Cardinality(A \cup {<<n, 1>>}) <= Cardinality(Typed(k, 1 .. n))
  BY <1>6, <1>7, FS_Subset
<1> QED
  BY <1>3, <1>8

(* What fmu_variable_count returns.                                        *)
LEMMA CountTyped ==
  ASSUME DocInv, NEW k \in Kind
  PROVE  /\ version = 2 => fmu_variable_count(k) = Cardinality(Typed(k, DOMAIN variables))
         /\ fmu_variable_count(k) \in Nat
<1>1. Typed(k, DOMAIN variables)
        = {x \in Children : variables[x[1]].types[x[2]] \in TypesOf(k)}
  BY DEF Typed, Children
<1>2. Cardinality(Typed(k, DOMAIN variables)) \in Nat
  BY TypedFinite
<1>3. fmu_variable_count(k) = IF version = 3 THEN 0 ELSE Cardinality(Typed(k, DOMAIN variables))
  BY <1>1 DEF fmu_variable_count
<1> QED
  BY <1>2, <1>3
-----------------------------------------------------------------------------
(***************************************************************************)
(* The inductive invariant.  SlotsCounted is not inductive: it does not    *)
(* say which variables have been given a slot, nor that the next one is    *)
(* not among them.  So the invariant ties the slots and the maps, at every *)
(* point of the two loops, to the set of variables taken so far.           *)
(***************************************************************************)

(* The variables that the loop for the vector k has read.                  *)
Visited(k) ==
  IF pc = k THEN 1 .. at - 1
  ELSE IF pc \in {"ready", "removed"} \/ (k = "scalar" /\ pc = "binary") THEN DOMAIN variables
  ELSE {}

(* Those among them that were given a slot.                                *)
Taken(k) == {i \in Visited(k) : First(i, k)}

Names == {variables[i].name : i \in DOMAIN variables}

(* The slots sig are named after variables in T, each after its own.       *)
SignalOf(vs, sig, T) ==
  /\ \A s, t \in DOMAIN sig : sig[s] = sig[t] => s = t
  /\ \A s \in DOMAIN sig : \E i \in T : sig[s] = vs[i].name

(* The map m leads from the value references of the variables in T with    *)
(* causality c, and from no other, to their slots.                         *)
Leads(vs, m, sig, i) ==
  /\ vs[i].vr \in DOMAIN m
  /\ m[vs[i].vr] \in DOMAIN sig
  /\ sig[m[vs[i].vr]] = vs[i].name

MapOf(vs, m, sig, T, c) ==
  /\ \A a \in DOMAIN m : \E i \in T : vs[i].vr = a /\ vs[i].causality = c /\ Leads(vs, m, sig, i)
  /\ \A i \in T : vs[i].causality = c => Leads(vs, m, sig, i)

(* Where the reader is; nothing is allocated before the count.             *)
PlaceInv ==
  /\ pc \in {"parse", "count", "scalar", "binary", "ready", "removed", "refused"}
  /\ at \in 1 .. Len(variables) + 1
  /\ pc \in {"parse", "count", "refused"}
       => /\ count = [k \in Kind |-> 0]
          /\ ncodec = << >> /\ trace = {} /\ streams = {}
  /\ pc \notin {"parse", "count", "refused"} => count = [k \in Kind |-> fmu_variable_count(k)]

IndexInv ==
  /\ signal \in [Kind -> Seq(Names)]
  /\ \A k \in Kind : SignalOf(variables, signal[k], Taken(k))
  /\ MapOf(variables, input, signal["scalar"], Taken("scalar"), "input")
  /\ MapOf(variables, output, signal["scalar"], Taken("scalar"), "output")
  /\ MapOf(variables, rx, signal["binary"], Taken("binary"), "input")
  /\ MapOf(variables, tx, signal["binary"], Taken("binary"), "output")

(* A slot for every child counted among the variables read.                *)
CountInv ==
  \A k \in Kind :
    /\ version = 2 => Len(signal[k]) <= Cardinality(Typed(k, Visited(k)))
    /\ version # 2 => Len(signal[k]) = 0

(* The object in the slot of a variable is the one for its MIME type; no   *)
(* other slot has one.                                                     *)
CodecInv ==
  /\ pc \in {"scalar", "binary", "ready"} => DOMAIN ncodec = 1 .. count["binary"]
  /\ \A s \in DOMAIN ncodec : s > Len(signal["binary"]) => ncodec[s] = NULL
  /\ pc \in {"scalar", "binary", "ready"} =>
       \A s \in DOMAIN signal["binary"], i \in Taken("binary") :
         signal["binary"][s] = variables[i].name => ncodec[s] = ncodec_open(variables[i].mime)
  /\ CodecsReleased

(* A network variable is listed by the importer with its MIME type.        *)
ListOf(list, c) ==
  \A a \in DOMAIN list : \E i \in DOMAIN variables :
    /\ variables[i].vr = a /\ variables[i].causality = c
    /\ \E j \in DOMAIN variables[i].types : variables[i].types[j] = ImporterType("binary")
    /\ list[a] = variables[i].mime

ListInv == ListOf(binary_rx, "input") /\ ListOf(binary_tx, "output")

ScalarNames == {variables[i].name : i \in {j \in DOMAIN variables : Is(variables[j], "scalar")}}

(* The slot of a Real variable holds the value last given to the variable. *)
ValueInv ==
  /\ pc \in {"scalar", "binary", "ready"}
       => DOMAIN scalar = 1 .. count["scalar"] /\ DOMAIN last = ScalarNames
  /\ pc \in {"scalar", "binary"}
       => (\A s \in DOMAIN scalar : scalar[s] = 0) /\ (\A n \in DOMAIN last : last[n] = 0)
  /\ pc = "ready" =>
       \A s \in DOMAIN signal["scalar"], i \in Taken("scalar") :
         signal["scalar"][s] = variables[i].name /\ variables[i].types[1] = "Real"
           => scalar[s] = last[variables[i].name]

VarInv ==
  DocInv /\ PlaceInv /\ IndexInv /\ CountInv /\ CodecInv /\ ListInv /\ ValueInv
-----------------------------------------------------------------------------
(***************************************************************************)
(* One variable more.                                                      *)
(***************************************************************************)
LEMMA AppendFacts ==
  ASSUME NEW S, NEW sig \in Seq(S), NEW e \in S
  PROVE  /\ Append(sig, e) \in Seq(S)
         /\ Len(sig) \in Nat /\ DOMAIN sig = 1 .. Len(sig)
         /\ Len(Append(sig, e)) = Len(sig) + 1
         /\ DOMAIN Append(sig, e) = 1 .. Len(sig) + 1
         /\ \A s \in DOMAIN sig : s \in DOMAIN Append(sig, e) /\ Append(sig, e)[s] = sig[s]
         /\ Append(sig, e)[Len(sig) + 1] = e
  OBVIOUS

LEMMA SignalNext ==
  ASSUME NEW S, NEW vs, NEW sig \in Seq(S), NEW T, NEW n, vs[n].name \in S,
         SignalOf(vs, sig, T), \A i \in T : vs[i].name # vs[n].name
  PROVE  SignalOf(vs, Append(sig, vs[n].name), T \cup {n})
<1> DEFINE a == Append(sig, vs[n].name)
           L == Len(sig)
<1>1. /\ L \in Nat /\ DOMAIN sig = 1 .. L /\ DOMAIN a = 1 .. L + 1
      /\ \A s \in DOMAIN sig : a[s] = sig[s]
      /\ a[L + 1] = vs[n].name
  BY AppendFacts
<1> HIDE DEF a, L
<1>2. \A s \in DOMAIN sig : a[s] # vs[n].name
  BY <1>1 DEF SignalOf
<1>3. \A s \in DOMAIN a : s \in DOMAIN sig \/ s = L + 1
  BY <1>1
<1>4. ASSUME NEW s \in DOMAIN a, NEW t \in DOMAIN a, a[s] = a[t] PROVE s = t
  <2>1. CASE s \in DOMAIN sig /\ t \in DOMAIN sig
    BY <1>1, <1>4, <2>1 DEF SignalOf
  <2>2. CASE s = L + 1 /\ t \in DOMAIN sig
    BY <1>1, <1>2, <1>4, <2>2
  <2>3. CASE s \in DOMAIN sig /\ t = L + 1
    BY <1>1, <1>2, <1>4, <2>3
  <2> QED
    BY <1>3, <2>1, <2>2, <2>3
<1>5. ASSUME NEW s \in DOMAIN a PROVE \E i \in T \cup {n} : a[s] = vs[i].name
  BY <1>1, <1>3 DEF SignalOf
<1>6. SignalOf(vs, a, T \cup {n})
  BY <1>4, <1>5 DEF SignalOf
<1> QED
  BY <1>6 DEF a

(* A slot more leaves the slots of the variables before.                   *)
LEMMA MapKeep ==
  ASSUME NEW S, NEW vs, NEW m, NEW sig \in Seq(S), NEW T, NEW c, NEW n, vs[n].name \in S,
         MapOf(vs, m, sig, T, c), vs[n].causality # c
  PROVE  MapOf(vs, m, Append(sig, vs[n].name), T \cup {n}, c)
<1> DEFINE a == Append(sig, vs[n].name)
<1>1. \A s \in DOMAIN sig : s \in DOMAIN a /\ a[s] = sig[s]
  BY AppendFacts
<1> HIDE DEF a
<1>2. \A i \in T : Leads(vs, m, sig, i) => Leads(vs, m, a, i)
  BY <1>1 DEF Leads
<1>3. MapOf(vs, m, a, T \cup {n}, c)
  BY <1>2 DEF MapOf
<1> QED
  BY <1>3 DEF a

LEMMA MapNext ==
  ASSUME NEW S, NEW vs, NEW m, NEW sig \in Seq(S), NEW T, NEW c, NEW n, vs[n].name \in S,
         MapOf(vs, m, sig, T, c), vs[n].causality = c,
         \A i \in T : vs[i].causality = c => vs[i].vr # vs[n].vr
  PROVE  MapOf(vs, Set(m, vs[n].vr, Len(sig) + 1), Append(sig, vs[n].name), T \cup {n}, c)
<1> DEFINE a == Append(sig, vs[n].name)
           L == Len(sig)
           w == Set(m, vs[n].vr, L + 1)
<1>1. /\ \A s \in DOMAIN sig : s \in DOMAIN a /\ a[s] = sig[s]
      /\ L + 1 \in DOMAIN a /\ a[L + 1] = vs[n].name
  BY AppendFacts
<1> HIDE DEF a, L
<1>2. /\ DOMAIN w = DOMAIN m \cup {vs[n].vr}
      /\ w[vs[n].vr] = L + 1
      /\ \A z \in DOMAIN m : z # vs[n].vr => w[z] = m[z]
  BY DEF Set
<1> HIDE DEF w
<1>3. Leads(vs, w, a, n)
  BY <1>1, <1>2 DEF Leads
<1>4. ASSUME NEW i \in T, vs[i].causality = c PROVE Leads(vs, w, a, i)
  <2>1. Leads(vs, m, sig, i) /\ vs[i].vr # vs[n].vr
    BY <1>4 DEF MapOf
  <2> QED
    BY <1>1, <1>2, <2>1 DEF Leads
<1>5. ASSUME NEW b \in DOMAIN w
      PROVE  \E i \in T \cup {n} : vs[i].vr = b /\ vs[i].causality = c /\ Leads(vs, w, a, i)
  <2>1. CASE b = vs[n].vr
    BY <1>3, <2>1
  <2>2. CASE b # vs[n].vr
    <3>1. b \in DOMAIN m
      BY <1>2, <2>2
    <3>2. PICK i \in T : vs[i].vr = b /\ vs[i].causality = c
      BY <3>1 DEF MapOf
    <3> QED
      BY <1>4, <3>2
  <2> QED
    BY <2>1, <2>2
<1>6. MapOf(vs, w, a, T \cup {n}, c)
  BY <1>3, <1>4, <1>5 DEF MapOf
<1> QED
  BY <1>6 DEF w, a, L

(* The two maps of a vector after __index_scalar_variable or               *)
(* __index_binary_variable.                                                *)
LEMMA MapSetIf ==
  ASSUME NEW S, NEW vs, NEW m, NEW sig \in Seq(S), NEW T, NEW c, NEW n, vs[n].name \in S,
         MapOf(vs, m, sig, T, c),
         \A i \in T : vs[i].causality = vs[n].causality => vs[i].vr # vs[n].vr
  PROVE  MapOf(vs, SetIf(vs[n].causality = c, m, vs[n].vr, Len(sig) + 1),
               Append(sig, vs[n].name), T \cup {n}, c)
<1>1. CASE vs[n].causality = c
  <2>1. MapOf(vs, Set(m, vs[n].vr, Len(sig) + 1), Append(sig, vs[n].name), T \cup {n}, c)
    BY <1>1, MapNext
  <2> QED
    BY <1>1, <2>1 DEF SetIf
<1>2. CASE vs[n].causality # c
  <2>1. MapOf(vs, m, Append(sig, vs[n].name), T \cup {n}, c)
    BY <1>2, MapKeep
  <2> QED
    BY <1>2, <2>1 DEF SetIf
<1> QED
  BY <1>1, <1>2
-----------------------------------------------------------------------------
(***************************************************************************)
(* The steps.                                                              *)
(***************************************************************************)
LEMMA VarInit == Init => VarInv
<1> SUFFICES ASSUME Init PROVE VarInv
  OBVIOUS
<1>1. DocInv
  BY DEF Init, DocInv
<1>2. PlaceInv
  BY <1>1, ListFacts DEF Init, PlaceInv
<1>3. \A k \in Kind : Visited(k) = {} /\ Taken(k) = {}
  BY DEF Init, Visited, Taken, Kind
<1>4. signal \in [Kind -> Seq(Names)] /\ \A k \in Kind : signal[k] = << >>
  BY DEF Init
<1>5. IndexInv
  <2>1. \A k \in Kind : SignalOf(variables, signal[k], Taken(k))
    BY <1>4 DEF SignalOf
  <2>2. \A m, sig, c : DOMAIN m = {} => MapOf(variables, m, sig, {}, c)
    BY DEF MapOf
  <2>3. Taken("scalar") = {} /\ Taken("binary") = {}
    BY <1>3 DEF Kind
  <2>4. DOMAIN input = {} /\ DOMAIN output = {} /\ DOMAIN rx = {} /\ DOMAIN tx = {}
    BY DEF Init
  <2> QED
    BY <1>4, <2>1, <2>2, <2>3, <2>4 DEF IndexInv
<1>6. CountInv
  <2>1. \A k \in Kind : Len(signal[k]) = 0
    BY <1>4
  <2>2. \A k \in Kind : Cardinality(Typed(k, Visited(k))) \in Nat
    BY <1>1, TypedFinite
  <2> QED
    BY <2>1, <2>2 DEF CountInv
<1>7. CodecInv
  BY DEF Init, CodecInv, CodecsReleased
<1>8. ListInv
  BY DEF Init, ListInv, ListOf
<1>9. ValueInv
  BY DEF Init, ValueInv
<1> QED
  BY <1>1, <1>2, <1>5, <1>6, <1>7, <1>8, <1>9 DEF VarInv

(* The document does not change, so neither does what depends on it.       *)
LEMMA DocStep ==
  ASSUME [Next]_vars
  PROVE  version' = version /\ variables' = variables
  BY DEF Next, vars, docVars, ParseVariable, ParseDone, AllocateVectors, IndexVariable,
     IndexDone, SetReal, fmu_register_var, fmu_default_signals_remove, Done

LEMMA DocSame ==
  ASSUME version' = version, variables' = variables
  PROVE  /\ DocInv => DocInv'
         /\ Names' = Names /\ ScalarNames' = ScalarNames
         /\ \A k \in Kind : fmu_variable_count(k)' = fmu_variable_count(k)
         /\ \A k, i : First(i, k)' <=> First(i, k)
         /\ \A k : Typed(k, Visited(k))' = Typed(k, Visited(k)')
<1>1. Children' = Children
  BY DEF Children
<1>2. \A k \in Kind : fmu_variable_count(k)' = fmu_variable_count(k)
  BY <1>1 DEF fmu_variable_count
<1>3. \A k : Typed(k, Visited(k))' = Typed(k, Visited(k)')
  BY <1>1 DEF Typed
<1>4. \A k, i : First(i, k)' <=> First(i, k)
  BY DEF First
<1>5. DocInv => DocInv'
  BY DEF DocInv
<1>6. Names' = Names /\ ScalarNames' = ScalarNames
  BY DEF Names, ScalarNames
<1> QED
  BY <1>2, <1>3, <1>4, <1>5, <1>6

LEMMA PlaceStep ==
  ASSUME DocInv, PlaceInv, [Next]_vars
  PROVE  PlaceInv'
<1>1. version' = version /\ variables' = variables
  BY DocStep
<1>2. \A k \in Kind : fmu_variable_count(k)' = fmu_variable_count(k)
  BY <1>1, DocSame
<1>3. Len(variables) \in Nat /\ DOMAIN variables = 1 .. Len(variables)
  BY ListFacts
<1>4. CASE ParseVariable
  BY <1>1, <1>3, <1>4 DEF PlaceInv, ParseVariable, idxVars, ncVars
<1>5. CASE ParseDone
  BY <1>1, <1>3, <1>5 DEF PlaceInv, ParseDone, idxVars, ncVars
<1>6. CASE AllocateVectors
  <2>1. count' = [k \in Kind |-> fmu_variable_count(k)]
    BY <1>6 DEF AllocateVectors
  <2>2. count' = [k \in Kind |-> fmu_variable_count(k)']
    BY <1>2, <2>1
  <2> QED
    BY <1>1, <1>3, <1>6, <2>2 DEF PlaceInv, AllocateVectors
<1>7. CASE pc \notin {"parse", "count", "refused"} /\ count' = count
           /\ pc' \in {"scalar", "binary", "ready", "removed"}
           /\ at' \in 1 .. Len(variables) + 1
  <2>1. count' = [k \in Kind |-> fmu_variable_count(k)']
    BY <1>2, <1>7 DEF PlaceInv
  <2> QED
    BY <1>1, <1>7, <2>1 DEF PlaceInv
<1>8. ASSUME NEW k \in Kind, IndexVariable(k) \/ IndexDone(k) PROVE PlaceInv'
  <2>1. /\ pc \notin {"parse", "count", "refused"} /\ count' = count
        /\ pc' \in {"scalar", "binary", "ready", "removed"}
        /\ at' \in 1 .. Len(variables) + 1
    BY <1>3, <1>8 DEF PlaceInv, IndexVariable, IndexDone, idxVars, Kind
  <2> QED
    BY <1>7, <2>1
<1>9. ASSUME NEW vr, NEW val, SetReal(vr, val) \/ fmu_register_var(vr, val) PROVE PlaceInv'
  <2>1. /\ pc \notin {"parse", "count", "refused"} /\ count' = count
        /\ pc' \in {"scalar", "binary", "ready", "removed"}
        /\ at' \in 1 .. Len(variables) + 1
    BY <1>9 DEF PlaceInv, SetReal, fmu_register_var, idxVars
  <2> QED
    BY <1>7, <2>1
<1>10. CASE fmu_default_signals_remove
  <2>1. /\ pc \notin {"parse", "count", "refused"} /\ count' = count
        /\ pc' \in {"scalar", "binary", "ready", "removed"}
        /\ at' \in 1 .. Len(variables) + 1
    BY <1>10 DEF PlaceInv, fmu_default_signals_remove, idxVars
  <2> QED
    BY <1>7, <2>1
<1>11. CASE UNCHANGED vars
  <2>1. pc' = pc /\ at' = at /\ count' = count /\ ncodec' = ncodec /\ trace' = trace
        /\ streams' = streams
    BY <1>11 DEF vars, idxVars, ncVars
  <2>2. [k \in Kind |-> fmu_variable_count(k)'] = [k \in Kind |-> fmu_variable_count(k)]
    BY <1>2
  <2> QED
    BY <1>1, <2>1, <2>2 DEF PlaceInv
<1> QED
  BY <1>4, <1>5, <1>6, <1>8, <1>9, <1>10, <1>11 DEF Next, Done

(***************************************************************************)
(* A step takes a variable, when a loop gives it a slot, or takes none.    *)
(***************************************************************************)
Takes(k) == pc = k /\ at \in DOMAIN variables /\ First(at, k) /\ IndexVariable(k)

TakesNone ==
  /\ UNCHANGED <<signal, input, output, rx, tx>>
  /\ \A k \in Kind : Visited(k) \subseteq Visited(k)' /\ Taken(k)' = Taken(k)

(* No variable gets a slot of a vector without slots.                      *)
LEMMA NoSlots ==
  ASSUME DocInv, PlaceInv, NEW k \in Kind, pc = k, count[k] = 0, NEW i \in DOMAIN variables
  PROVE  ~First(i, k)
<1> SUFFICES ASSUME First(i, k) PROVE FALSE
  OBVIOUS
<1>1. count[k] = fmu_variable_count(k)
  BY DEF PlaceInv, Kind
<1>2. Cardinality(Typed(k, DOMAIN variables)) = 0
  BY <1>1, CountTyped DEF First
<1>3. Typed(k, DOMAIN variables) = {}
  BY <1>2, TypedFinite, FS_EmptySet
<1> QED
  BY <1>3, FirstTyped

LEMMA VisitedRange ==
  ASSUME DocInv, PlaceInv, NEW k \in Kind
  PROVE  Visited(k) \subseteq DOMAIN variables
  BY ListFacts DEF PlaceInv, Visited

LEMMA TakenSame ==
  ASSUME version' = version, variables' = variables, NEW k, Visited(k)' = Visited(k)
  PROVE  Taken(k)' = Taken(k)
  BY DocSame DEF Taken

LEMMA TakeOrNone ==
  ASSUME DocInv, PlaceInv, [Next]_vars
  PROVE  TakesNone \/ \E k \in Kind : Takes(k)
<1>1. version' = version /\ variables' = variables
  BY DocStep
<1>2. Len(variables) \in Nat /\ DOMAIN variables = 1 .. Len(variables)
  BY ListFacts
<1>3. CASE /\ UNCHANGED <<signal, input, output, rx, tx>>
           /\ \A k \in Kind : Visited(k)' = Visited(k)
  <2>1. \A k \in Kind : Taken(k)' = Taken(k)
    BY <1>1, <1>3, TakenSame
  <2> QED
    BY <1>3, <2>1 DEF TakesNone
<1>4. CASE ParseVariable \/ ParseDone \/ AllocateVectors
  <2>1. /\ UNCHANGED <<signal, input, output, rx, tx>>
        /\ \A k \in Kind : Visited(k)' = Visited(k)
    BY <1>4 DEF ParseVariable, ParseDone, AllocateVectors, idxVars, Visited, Kind
  <2> QED
    BY <1>3, <2>1
<1>5. ASSUME NEW k \in Kind, IndexVariable(k)
      PROVE  TakesNone \/ \E l \in Kind : Takes(l)
  <2>1. CASE First(at, k)
    BY <1>5, <2>1 DEF Takes, IndexVariable
  <2>2. CASE ~First(at, k)
    <3>1. at \in DOMAIN variables /\ pc = k /\ pc' = k /\ at' = at + 1
      BY <1>5 DEF IndexVariable
    <3>2. ~Indexed(k)
      BY <2>2, <3>1, IndexedFirst
    <3>3. UNCHANGED <<signal, input, output, rx, tx>>
      BY <1>5, <3>2 DEF IndexVariable
    <3>4. Visited(k) = 1 .. at - 1 /\ Visited(k)' = 1 .. at
      BY <1>2, <3>1 DEF Visited
    <3>5. ASSUME NEW l \in Kind, l # k PROVE Visited(l)' = Visited(l)
      BY <1>1, <3>1, <3>5 DEF Visited
    <3>6. Taken(k)' = Taken(k)
      BY <1>1, <1>2, <2>2, <3>1, <3>4, DocSame DEF Taken
    <3>7. ASSUME NEW l \in Kind PROVE Visited(l) \subseteq Visited(l)' /\ Taken(l)' = Taken(l)
      <4>1. CASE l = k
        BY <1>2, <3>1, <3>4, <3>6, <4>1
      <4>2. CASE l # k
        BY <1>1, <3>5, <4>2, TakenSame
      <4> QED
        BY <4>1, <4>2
    <3> QED
      BY <3>3, <3>7 DEF TakesNone
  <2> QED
    BY <2>1, <2>2
<1>6. ASSUME NEW k \in Kind, IndexDone(k) PROVE TakesNone
  <2>1. /\ UNCHANGED <<signal, input, output, rx, tx>> /\ pc = k /\ at' = 1
        /\ at = Len(variables) + 1 \/ count[k] = 0
        /\ pc' = IF k = "scalar" THEN "binary" ELSE "ready"
    BY <1>6 DEF IndexDone, idxVars
  <2>2. Visited(k)' = DOMAIN variables /\ Visited(k) = 1 .. at - 1 /\ at \in 1 .. Len(variables) + 1
    BY <1>1, <2>1 DEF Visited, Kind, PlaceInv
  <2>3. ASSUME NEW l \in Kind, l # k PROVE Visited(l)' = Visited(l)
    BY <1>1, <2>1, <2>3 DEF Visited, Kind
  <2>4. Visited(k) \subseteq Visited(k)'
    BY <1>2, <2>2
  <2>5. Taken(k)' = Taken(k)
    <3>1. CASE at = Len(variables) + 1
      <4>1. Visited(k)' = Visited(k)
        BY <1>2, <2>2, <3>1
      <4> QED
        BY <1>1, <4>1, TakenSame
    <3>2. CASE count[k] = 0
      <4>1. \A i \in DOMAIN variables : ~First(i, k)
        BY <2>1, <3>2, NoSlots
      <4>2. \A i \in DOMAIN variables : ~First(i, k)'
        BY <1>1, <4>1, DocSame
      <4> QED
        BY <2>2, <2>4, <4>1, <4>2 DEF Taken
    <3> QED
      BY <2>1, <3>1, <3>2
  <2>6. ASSUME NEW l \in Kind PROVE Visited(l) \subseteq Visited(l)' /\ Taken(l)' = Taken(l)
    <3>1. CASE l = k
      BY <2>4, <2>5, <3>1
    <3>2. CASE l # k
      BY <1>1, <2>3, <3>2, TakenSame
    <3> QED
      BY <3>1, <3>2
  <2> QED
    BY <2>1, <2>6 DEF TakesNone
<1>7. ASSUME NEW vr, NEW val, SetReal(vr, val) \/ fmu_register_var(vr, val) PROVE TakesNone
  <2>1. /\ UNCHANGED <<signal, input, output, rx, tx>>
        /\ \A k \in Kind : Visited(k)' = Visited(k)
    BY <1>1, <1>7 DEF SetReal, fmu_register_var, idxVars, Visited
  <2> QED
    BY <1>1, <2>1, TakenSame DEF TakesNone
<1>8. CASE fmu_default_signals_remove
  <2>1. /\ UNCHANGED <<signal, input, output, rx, tx>>
        /\ \A k \in Kind : Visited(k)' = Visited(k)
    BY <1>1, <1>8 DEF fmu_default_signals_remove, idxVars, Visited, Kind
  <2> QED
    BY <1>3, <2>1
<1>9. CASE UNCHANGED vars
  <2>1. /\ UNCHANGED <<signal, input, output, rx, tx>>
        /\ \A k \in Kind : Visited(k)' = Visited(k)
    BY <1>1, <1>9 DEF vars, idxVars, Visited
  <2> QED
    BY <1>3, <2>1
<1> QED
  BY <1>4, <1>5, <1>6, <1>7, <1>8, <1>9 DEF Next, Done

(* What is new about a variable that is taken.                             *)
LEMMA TakeFacts ==
  ASSUME DocInv, PlaceInv, IndexInv, NEW k \in Kind, Takes(k)
  PROVE  /\ version' = version /\ variables' = variables /\ version = 2
         /\ at \in DOMAIN variables /\ variables[at].name \in Names
         /\ Taken(k)' = Taken(k) \cup {at} /\ at \notin Taken(k)
         /\ Visited(k) = 1 .. at - 1 /\ Visited(k)' = 1 .. at
         /\ \A l \in Kind : l # k => Visited(l)' = Visited(l) /\ Taken(l)' = Taken(l)
         /\ \A i \in Taken(k) :
              /\ i \in DOMAIN variables
              /\ variables[i].name # variables[at].name
              /\ variables[i].causality = variables[at].causality
                   => variables[i].vr # variables[at].vr
         /\ Indexed(k)
<1>1. /\ version' = version /\ variables' = variables /\ version = 2 /\ pc = k /\ pc' = k
      /\ at' = at + 1 /\ at \in DOMAIN variables /\ First(at, k)
  BY DEF Takes, IndexVariable, docVars, First
<1>2. Len(variables) \in Nat /\ DOMAIN variables = 1 .. Len(variables)
  BY ListFacts
<1>3. Visited(k) = 1 .. at - 1 /\ Visited(k)' = 1 .. at
  BY <1>1, <1>2 DEF Visited
<1>4. Taken(k)' = Taken(k) \cup {at} /\ at \notin Taken(k)
  BY <1>1, <1>2, <1>3, DocSame DEF Taken
<1>5. ASSUME NEW l \in Kind, l # k PROVE Visited(l)' = Visited(l) /\ Taken(l)' = Taken(l)
  <2>1. Visited(l)' = Visited(l)
    BY <1>1, <1>5 DEF Visited
  <2> QED
    BY <1>1, <2>1, TakenSame
<1>6. ASSUME NEW i \in Taken(k)
      PROVE  /\ i \in DOMAIN variables
             /\ variables[i].name # variables[at].name
             /\ variables[i].causality = variables[at].causality
                  => variables[i].vr # variables[at].vr
  <2>1. i \in DOMAIN variables /\ First(i, k) /\ i # at
    BY <1>2, <1>3, <1>1 DEF Taken
  <2>2. Is(variables[i], k) /\ Is(variables[at], k)
    BY <1>1, <2>1, FirstIs
  <2>3. variables[i].name # variables[at].name
    BY <1>1, <2>1, NameUnique
  <2> QED
    BY <1>1, <2>1, <2>2, <2>3, RefUnique
<1>7. variables[at].name \in Names
  BY <1>1 DEF Names
<1>8. Indexed(k)
  BY <1>1, IndexedFirst
<1> QED
  BY <1>1, <1>3, <1>4, <1>5, <1>6, <1>7, <1>8

(* The vector and the maps of the kind that takes a variable.              *)
LEMMA TakeSignal ==
  ASSUME DocInv, PlaceInv, IndexInv, NEW k \in Kind, Takes(k)
  PROVE  /\ signal' \in [Kind -> Seq(Names)]
         /\ signal[k] \in Seq(Names)
         /\ signal'[k] = Append(signal[k], variables[at].name)
         /\ \A l \in Kind : l # k => signal'[l] = signal[l]
         /\ Slot(k) = Len(signal[k]) + 1
         /\ \A l \in Kind : SignalOf(variables, signal'[l], Taken(l)')
<1>1. signal' = [signal EXCEPT ![k] = Append(@, variables[at].name)]
  BY TakeFacts DEF Takes, IndexVariable, Var
<1>2. signal \in [Kind -> Seq(Names)] /\ signal[k] \in Seq(Names)
  BY DEF IndexInv
<1>3. variables[at].name \in Names
  BY TakeFacts
<1> DEFINE a == Append(signal[k], variables[at].name)
<1>4. a \in Seq(Names)
  BY <1>2, <1>3, AppendFacts
<1>5. SignalOf(variables, a, Taken(k) \cup {at})
  <2>1. SignalOf(variables, signal[k], Taken(k))
    BY DEF IndexInv
  <2>2. \A i \in Taken(k) : variables[i].name # variables[at].name
    BY TakeFacts
  <2> QED
    BY <1>2, <1>3, <2>1, <2>2, SignalNext
<1>6. signal' = [signal EXCEPT ![k] = a]
  BY <1>1
<1> HIDE DEF a
<1>7. /\ signal' \in [Kind -> Seq(Names)] /\ signal'[k] = a
      /\ \A l \in Kind : l # k => signal'[l] = signal[l]
  BY <1>2, <1>4, <1>6
<1>8. ASSUME NEW l \in Kind PROVE SignalOf(variables, signal'[l], Taken(l)')
  <2>1. CASE l = k
    BY <1>5, <1>7, <2>1, TakeFacts
  <2>2. CASE l # k
    BY <1>7, <2>2, TakeFacts DEF IndexInv
  <2> QED
    BY <2>1, <2>2
<1> QED
  BY <1>2, <1>7, <1>8 DEF a, Slot

LEMMA TakeMap ==
  ASSUME DocInv, PlaceInv, IndexInv, NEW k \in Kind, Takes(k), NEW m, NEW c,
         MapOf(variables, m, signal[k], Taken(k), c)
  PROVE  MapOf(variables, SetIf(variables[at].causality = c, m, variables[at].vr, Slot(k)),
               signal'[k], Taken(k)', c)
<1>1. signal[k] \in Seq(Names) /\ variables[at].name \in Names
  BY TakeSignal, TakeFacts
<1>2. \A i \in Taken(k) : variables[i].causality = variables[at].causality
                              => variables[i].vr # variables[at].vr
  BY TakeFacts
<1>3. MapOf(variables, SetIf(variables[at].causality = c, m, variables[at].vr, Len(signal[k]) + 1),
            Append(signal[k], variables[at].name), Taken(k) \cup {at}, c)
  BY <1>1, <1>2, MapSetIf
<1>4. /\ Slot(k) = Len(signal[k]) + 1 /\ signal'[k] = Append(signal[k], variables[at].name)
      /\ Taken(k)' = Taken(k) \cup {at}
  BY TakeSignal, TakeFacts
<1> QED
  BY <1>3, <1>4

LEMMA IndexStep ==
  ASSUME DocInv, PlaceInv, IndexInv, [Next]_vars
  PROVE  IndexInv'
<1>1. version' = version /\ variables' = variables /\ Names' = Names
  BY DocStep, DocSame
<1>2. CASE TakesNone
  <2>1. /\ Taken("scalar")' = Taken("scalar") /\ Taken("binary")' = Taken("binary")
        /\ \A k \in Kind : Taken(k)' = Taken(k)
        /\ UNCHANGED <<signal, input, output, rx, tx>>
    BY <1>2 DEF TakesNone, Kind
  <2> QED
    BY <1>1, <2>1 DEF IndexInv
<1>3. CASE Takes("scalar")
  <2>0. "scalar" \in Kind /\ "binary" \in Kind
    BY DEF Kind
  <2>1. /\ output' = SetIf(variables[at].causality = "output", output, variables[at].vr, Slot("scalar"))
        /\ input' = SetIf(variables[at].causality = "input", input, variables[at].vr, Slot("scalar"))
        /\ rx' = rx /\ tx' = tx
    BY <1>3, <2>0, TakeFacts DEF Takes, IndexVariable, __index_scalar_variable, Var
  <2>2. /\ MapOf(variables, input', signal'["scalar"], Taken("scalar")', "input")
        /\ MapOf(variables, output', signal'["scalar"], Taken("scalar")', "output")
    BY <1>3, <2>0, <2>1, TakeMap DEF IndexInv
  <2>3. signal'["binary"] = signal["binary"] /\ Taken("binary")' = Taken("binary")
    BY <1>3, <2>0, TakeFacts, TakeSignal
  <2>4. /\ signal' \in [Kind -> Seq(Names)]
        /\ \A l \in Kind : SignalOf(variables, signal'[l], Taken(l)')
    BY <1>3, <2>0, TakeSignal
  <2> QED
    BY <1>1, <2>1, <2>2, <2>3, <2>4 DEF IndexInv
<1>4. CASE Takes("binary")
  <2>0. "scalar" \in Kind /\ "binary" \in Kind
    BY DEF Kind
  <2>1. /\ tx' = SetIf(variables[at].causality = "output", tx, variables[at].vr, Slot("binary"))
        /\ rx' = SetIf(variables[at].causality = "input", rx, variables[at].vr, Slot("binary"))
        /\ input' = input /\ output' = output
    BY <1>4, <2>0, TakeFacts DEF Takes, IndexVariable, __index_binary_variable, Var
  <2>2. /\ MapOf(variables, rx', signal'["binary"], Taken("binary")', "input")
        /\ MapOf(variables, tx', signal'["binary"], Taken("binary")', "output")
    BY <1>4, <2>0, <2>1, TakeMap DEF IndexInv
  <2>3. signal'["scalar"] = signal["scalar"] /\ Taken("scalar")' = Taken("scalar")
    BY <1>4, <2>0, TakeFacts, TakeSignal
  <2>4. /\ signal' \in [Kind -> Seq(Names)]
        /\ \A l \in Kind : SignalOf(variables, signal'[l], Taken(l)')
    BY <1>4, <2>0, TakeSignal
  <2> QED
    BY <1>1, <2>1, <2>2, <2>3, <2>4 DEF IndexInv
<1> QED
  BY <1>2, <1>3, <1>4, TakeOrNone DEF Kind

LEMMA CountStep ==
  ASSUME DocInv, PlaceInv, IndexInv, CountInv, [Next]_vars
  PROVE  CountInv'
<1>1. version' = version /\ variables' = variables
  BY DocStep
<1>2. \A k \in Kind : Len(signal[k]) \in Nat
  BY DEF IndexInv
<1>3. ASSUME NEW k \in Kind, signal'[k] = signal[k], Visited(k) \subseteq Visited(k)'
      PROVE  /\ version' = 2 => Len(signal'[k]) <= Cardinality(Typed(k, Visited(k))')
             /\ version' # 2 => Len(signal'[k]) = 0
  <2>1. Cardinality(Typed(k, Visited(k))) <= Cardinality(Typed(k, Visited(k)'))
    BY <1>3, TypedMono
  <2>2. /\ Cardinality(Typed(k, Visited(k))) \in Nat
        /\ Cardinality(Typed(k, Visited(k)')) \in Nat
    BY TypedFinite
  <2>3. Typed(k, Visited(k))' = Typed(k, Visited(k)')
    BY <1>1, DocSame
  <2> QED
    BY <1>1, <1>2, <1>3, <2>1, <2>2, <2>3 DEF CountInv
<1>4. CASE TakesNone
  BY <1>3, <1>4 DEF TakesNone, CountInv
<1>5. ASSUME NEW k \in Kind, Takes(k) PROVE CountInv'
  <2>1. version = 2 /\ at \in DOMAIN variables /\ First(at, k)
    BY <1>5, TakeFacts DEF Takes
  <2>2. Cardinality(Typed(k, 1 .. at - 1)) + 1 <= Cardinality(Typed(k, 1 .. at))
    BY <2>1, TypedNext
  <2>3. Len(signal[k]) <= Cardinality(Typed(k, 1 .. at - 1))
    BY <1>5, <2>1, TakeFacts DEF CountInv
  <2>4. Len(signal'[k]) = Len(signal[k]) + 1
    <3>1. signal[k] \in Seq(Names) /\ variables[at].name \in Names
      BY <1>5, TakeSignal, TakeFacts
    <3>2. signal'[k] = Append(signal[k], variables[at].name)
      BY <1>5, TakeSignal
    <3> QED
      BY <3>1, <3>2, AppendFacts
  <2>5. Typed(k, Visited(k))' = Typed(k, 1 .. at)
    BY <1>1, <1>5, DocSame, TakeFacts
  <2>6. /\ Cardinality(Typed(k, 1 .. at - 1)) \in Nat
        /\ Cardinality(Typed(k, 1 .. at)) \in Nat
    BY TypedFinite
  <2>7. Len(signal'[k]) <= Cardinality(Typed(k, Visited(k))')
    BY <1>2, <2>2, <2>3, <2>4, <2>5, <2>6
  <2>8. ASSUME NEW l \in Kind
        PROVE  /\ version' = 2 => Len(signal'[l]) <= Cardinality(Typed(l, Visited(l))')
               /\ version' # 2 => Len(signal'[l]) = 0
    <3>1. CASE l = k
      BY <1>1, <2>1, <2>7, <3>1
    <3>2. CASE l # k
      <4>1. signal'[l] = signal[l] /\ Visited(l) \subseteq Visited(l)'
        BY <1>5, <3>2, TakeSignal, TakeFacts
      <4> QED
        BY <1>3, <4>1
    <3> QED
      BY <3>1, <3>2
  <2> QED
    BY <2>8 DEF CountInv
<1> QED
  BY <1>4, <1>5, TakeOrNone

(* The slots of a vector are those that were counted for it: the assertion *)
(* of fmu_variable_index.                                                  *)
LEMMA SlotFits ==
  ASSUME DocInv, PlaceInv, IndexInv, CountInv, NEW k \in Kind
  PROVE  Len(signal[k]) \in Nat /\ count[k] \in Nat /\ Len(signal[k]) <= count[k]
<1>1. Len(signal[k]) \in Nat
  BY DEF IndexInv
<1>2. /\ Cardinality(Typed(k, Visited(k))) \in Nat
      /\ Cardinality(Typed(k, DOMAIN variables)) \in Nat
      /\ Cardinality(Typed(k, Visited(k))) <= Cardinality(Typed(k, DOMAIN variables))
  BY VisitedRange, TypedMono, TypedFinite
<1>3. CASE pc \in {"parse", "count", "refused"}
  <2>1. Visited(k) = {}
    BY <1>3 DEF Visited, Kind
  <2>2. Typed(k, Visited(k)) = {}
    BY <2>1 DEF Typed
  <2>3. Cardinality(Typed(k, Visited(k))) = 0
    BY <2>2, FS_EmptySet
  <2>4. Len(signal[k]) = 0
    BY <1>1, <2>3 DEF CountInv
  <2> QED
    BY <1>1, <1>3, <2>4 DEF PlaceInv
<1>4. CASE pc \notin {"parse", "count", "refused"}
  <2>1. count[k] = fmu_variable_count(k)
    BY <1>4 DEF PlaceInv
  <2> QED
    BY <1>1, <1>2, <2>1, CountTyped DEF CountInv
<1> QED
  BY <1>3, <1>4

LEMMA TakeFits ==
  ASSUME DocInv, PlaceInv, IndexInv, CountInv, NEW k \in Kind, Takes(k)
  PROVE  Slot(k) \in 1 .. count[k] /\ Slot(k) = Len(signal[k]) + 1
<1>1. Slot(k) = Len(signal[k]) + 1 /\ Len(signal[k]) \in Nat
  BY DEF IndexInv, Slot
<1>2. version = 2 /\ at \in DOMAIN variables /\ First(at, k) /\ Visited(k) = 1 .. at - 1
  BY TakeFacts DEF Takes
<1>3. Cardinality(Typed(k, 1 .. at - 1)) + 1 <= Cardinality(Typed(k, 1 .. at))
  BY <1>2, TypedNext
<1>4. Cardinality(Typed(k, 1 .. at)) <= Cardinality(Typed(k, DOMAIN variables))
  <2>1. 1 .. at \subseteq DOMAIN variables
    BY <1>2, ListFacts
  <2> QED
    BY <2>1, TypedMono
<1>5. Len(signal[k]) <= Cardinality(Typed(k, 1 .. at - 1))
  BY <1>2 DEF CountInv
<1>6. count[k] = Cardinality(Typed(k, DOMAIN variables))
  <2>1. count[k] = fmu_variable_count(k)
    BY DEF PlaceInv, Takes, Kind
  <2> QED
    BY <1>2, <2>1, CountTyped
<1>7. /\ Cardinality(Typed(k, 1 .. at - 1)) \in Nat
      /\ Cardinality(Typed(k, 1 .. at)) \in Nat
      /\ Cardinality(Typed(k, DOMAIN variables)) \in Nat
  BY TypedFinite
<1> QED
  BY <1>1, <1>3, <1>4, <1>5, <1>6, <1>7

(***************************************************************************)
(* The codecs.                                                             *)
(***************************************************************************)

(* A step of another part: the objects stay, and the slots too.            *)
LEMMA CodecKeep ==
  ASSUME CodecInv, version' = version, variables' = variables, UNCHANGED ncVars,
         count'["binary"] = count["binary"], signal'["binary"] = signal["binary"],
         Taken("binary")' = Taken("binary"),
         pc' \in {"scalar", "binary", "ready"} => pc \in {"scalar", "binary", "ready"}
  PROVE  CodecInv'
<1>1. ncodec' = ncodec /\ streams' = streams /\ trace' = trace
  BY DEF ncVars
<1> QED
  BY <1>1 DEF CodecInv, CodecsReleased, ncodec_open

LEMMA CodecTake ==
  ASSUME DocInv, PlaceInv, IndexInv, CountInv, CodecInv, Takes("binary")
  PROVE  CodecInv'
<1> DEFINE x == Slot("binary")
           mime == variables[at].mime
<1>0. "binary" \in Kind
  BY DEF Kind
<1>1. /\ pc = "binary" /\ pc' = "binary" /\ count' = count
      /\ ncodec' = [ncodec EXCEPT ![x] = ncodec_open(mime)]
      /\ streams' = streams \cup (IF ncodec_open(mime) # NULL THEN {x} ELSE {})
      /\ trace' = trace \cup (IF ncodec_open(mime) # NULL /\ mime \in Traced THEN {x} ELSE {})
  BY <1>0, TakeFacts DEF Takes, IndexVariable, __index_binary_variable, fmu_ncodec_open,
     trace_configure, Var
<1>2. x \in 1 .. count["binary"] /\ x = Len(signal["binary"]) + 1 /\ Len(signal["binary"]) \in Nat
  BY <1>0, TakeFits DEF IndexInv
<1>3. DOMAIN ncodec = 1 .. count["binary"] /\ DOMAIN ncodec' = 1 .. count["binary"]
  BY <1>1 DEF CodecInv
<1>4. /\ signal["binary"] \in Seq(Names) /\ variables[at].name \in Names
      /\ signal'["binary"] = Append(signal["binary"], variables[at].name)
      /\ Taken("binary")' = Taken("binary") \cup {at} /\ variables' = variables
  BY <1>0, TakeSignal, TakeFacts
<1>5. /\ Len(signal'["binary"]) = x
      /\ DOMAIN signal["binary"] = 1 .. x - 1 /\ DOMAIN signal'["binary"] = 1 .. x
      /\ \A s \in DOMAIN signal["binary"] : signal'["binary"][s] = signal["binary"][s]
      /\ signal'["binary"][x] = variables[at].name
  BY <1>2, <1>4, AppendFacts
<1> HIDE DEF x, mime
<1>6. ncodec[x] = NULL
  BY <1>2, <1>3 DEF CodecInv
<1>7. \A s \in DOMAIN ncodec : s # x => ncodec'[s] = ncodec[s]
  BY <1>1
<1>8. ncodec'[x] = ncodec_open(mime)
  BY <1>1, <1>2, <1>3
<1>9. \A s \in DOMAIN ncodec' : s > Len(signal'["binary"]) => ncodec'[s] = NULL
  BY <1>2, <1>3, <1>5, <1>7 DEF CodecInv
<1>10. ASSUME NEW s \in DOMAIN signal'["binary"], NEW i \in Taken("binary")',
              signal'["binary"][s] = variables[i].name
       PROVE  ncodec'[s] = ncodec_open(variables[i].mime)
  <2>1. CASE s = x
    <3>1. i = at
      BY <1>0, <1>4, <1>5, <1>10, <2>1, TakeFacts
    <3> QED
      BY <1>8, <2>1, <3>1 DEF mime
  <2>2. CASE s # x
    <3>1. s \in DOMAIN signal["binary"] /\ signal["binary"][s] = variables[i].name /\ s \in DOMAIN ncodec
      <4>1. x \in Nat /\ count["binary"] \in Int /\ x <= count["binary"] /\ s \in 1 .. x
        BY <1>0, <1>2, <1>5, SlotFits
      <4>2. s \in DOMAIN signal["binary"]
        BY <1>5, <2>2, <4>1
      <4>3. s \in DOMAIN ncodec
        BY <1>3, <4>1
      <4> QED
        BY <1>5, <1>10, <4>2, <4>3
    <3>2. i # at
      <4>1. PICK j \in Taken("binary") : signal["binary"][s] = variables[j].name
        BY <1>0, <3>1 DEF IndexInv, SignalOf
      <4> QED
        BY <1>0, <3>1, <4>1, TakeFacts
    <3>3. i \in Taken("binary")
      BY <1>4, <3>2
    <3> QED
      BY <1>1, <1>7, <2>2, <3>1, <3>3 DEF CodecInv
  <2> QED
    BY <2>1, <2>2
<1>11. streams' = {s \in DOMAIN ncodec' : ncodec'[s] # NULL}
  <2>1. streams = {s \in DOMAIN ncodec : ncodec[s] # NULL}
    BY DEF CodecInv, CodecsReleased
  <2> QED
    BY <1>1, <1>2, <1>3, <1>6, <1>7, <1>8, <2>1
<1>12. trace' \subseteq streams'
  BY <1>1 DEF CodecInv, CodecsReleased
<1> QED
  BY <1>1, <1>3, <1>4, <1>9, <1>10, <1>11, <1>12 DEF CodecInv, CodecsReleased, ncodec_open

LEMMA CodecStep ==
  ASSUME DocInv, PlaceInv, IndexInv, CountInv, CodecInv, [Next]_vars
  PROVE  CodecInv'
<1>1. version' = version /\ variables' = variables /\ "binary" \in Kind /\ "scalar" \in Kind
  BY DocStep DEF Kind
<1>2. CASE Takes("binary")
  BY <1>2, CodecTake
<1>3. CASE Takes("scalar")
  <2>1. /\ UNCHANGED ncVars /\ count' = count /\ pc' = pc
        /\ signal'["binary"] = signal["binary"] /\ Taken("binary")' = Taken("binary")
    BY <1>1, <1>3, TakeFacts, TakeSignal DEF Takes, IndexVariable
  <2> QED
    BY <1>1, <2>1, CodecKeep
<1>4. CASE TakesNone
  <2>0. signal'["binary"] = signal["binary"] /\ Taken("binary")' = Taken("binary")
    BY <1>1, <1>4 DEF TakesNone
  <2>1. CASE ParseVariable \/ ParseDone
    <3>1. /\ UNCHANGED ncVars /\ count' = count
          /\ pc' \in {"scalar", "binary", "ready"} => pc \in {"scalar", "binary", "ready"}
      BY <2>1 DEF ParseVariable, ParseDone, idxVars
    <3> QED
      BY <1>1, <2>0, <3>1, CodecKeep
  <2>2. CASE AllocateVectors
    <3>1. /\ ncodec' = [s \in 1 .. count'["binary"] |-> NULL]
          /\ streams' = streams /\ trace' = trace /\ pc = "count"
      BY <2>2 DEF AllocateVectors
    <3>2. streams = {} /\ trace = {}
      BY <3>1 DEF PlaceInv
    <3>3. Taken("binary")' = {}
      BY <2>0, <3>1 DEF Taken, Visited
    <3> QED
      BY <3>1, <3>2, <3>3 DEF CodecInv, CodecsReleased
  <2>3. ASSUME NEW k \in Kind, IndexVariable(k) \/ IndexDone(k) PROVE CodecInv'
    <3>0. pc = k /\ count' = count
      BY <2>3 DEF IndexVariable, IndexDone, idxVars
    <3>1. UNCHANGED ncVars
      <4>1. CASE IndexDone(k)
        BY <4>1 DEF IndexDone
      <4>2. CASE IndexVariable(k)
        <5>1. ~First(at, k)
          <6> SUFFICES ASSUME First(at, k) PROVE FALSE
            OBVIOUS
          <6>1. Takes(k)
            BY <4>2 DEF Takes, IndexVariable
          <6>2. at \in Taken(k)' /\ at \notin Taken(k)
            BY <6>1, TakeFacts
          <6> QED
            BY <1>4, <6>2 DEF TakesNone
        <5>2. ~Indexed(k)
          BY <4>2, <5>1, IndexedFirst DEF IndexVariable
        <5> QED
          BY <4>2, <5>2 DEF IndexVariable
      <4> QED
        BY <2>3, <4>1, <4>2
    <3>2. pc \in {"scalar", "binary", "ready"}
      BY <3>0 DEF Kind
    <3> QED
      BY <1>1, <2>0, <3>0, <3>1, <3>2, CodecKeep
  <2>4. ASSUME NEW vr, NEW val, SetReal(vr, val) \/ fmu_register_var(vr, val) PROVE CodecInv'
    <3>1. UNCHANGED ncVars /\ count' = count /\ pc' = pc
      BY <2>4 DEF SetReal, fmu_register_var, idxVars
    <3> QED
      BY <1>1, <2>0, <3>1, CodecKeep
  <2>5. CASE fmu_default_signals_remove
    <3> DEFINE S == {s \in DOMAIN ncodec : ncodec[s] # NULL}
    <3>1. /\ trace' = trace \ S /\ streams' = streams \ S /\ ncodec' = << >> /\ pc' = "removed"
      BY <2>5 DEF fmu_default_signals_remove, fmu_ncodec_close
    <3>2. streams' = {} /\ trace' = {}
      BY <3>1 DEF CodecInv, CodecsReleased
    <3>3. DOMAIN ncodec' = {}
      BY <3>1
    <3> QED
      BY <3>1, <3>2, <3>3 DEF CodecInv, CodecsReleased
  <2>6. CASE UNCHANGED vars
    <3>1. UNCHANGED ncVars /\ count' = count /\ pc' = pc
      BY <2>6 DEF vars, idxVars
    <3> QED
      BY <1>1, <2>0, <3>1, CodecKeep
  <2> QED
    BY <2>1, <2>2, <2>3, <2>4, <2>5, <2>6 DEF Next, Done
<1> QED
  BY <1>2, <1>3, <1>4, TakeOrNone DEF Kind

(***************************************************************************)
(* The importer's lists.                                                   *)
(***************************************************************************)
LEMMA ListNext ==
  ASSUME NEW list, NEW c, ListOf(list, c), at \in DOMAIN variables,
         NEW b \in BOOLEAN, b => Listed("binary") /\ variables[at].causality = c
  PROVE  ListOf(SetIf(b, list, variables[at].vr, variables[at].mime), c)
<1>1. CASE ~b
  BY <1>1 DEF SetIf
<1>2. CASE b
  <2> DEFINE w == Set(list, variables[at].vr, variables[at].mime)
  <2>1. /\ DOMAIN w = DOMAIN list \cup {variables[at].vr}
        /\ w[variables[at].vr] = variables[at].mime
        /\ \A z \in DOMAIN list : z # variables[at].vr => w[z] = list[z]
    BY DEF Set
  <2>2. \E j \in DOMAIN variables[at].types : variables[at].types[j] = ImporterType("binary")
    BY <1>2 DEF Listed, Var
  <2> HIDE DEF w
  <2>3. ListOf(w, c)
    <3> SUFFICES ASSUME NEW a \in DOMAIN w
                 PROVE  \E i \in DOMAIN variables :
                          /\ variables[i].vr = a /\ variables[i].causality = c
                          /\ \E j \in DOMAIN variables[i].types :
                               variables[i].types[j] = ImporterType("binary")
                          /\ w[a] = variables[i].mime
      BY DEF ListOf
    <3>1. CASE a = variables[at].vr
      BY <1>2, <2>1, <2>2, <3>1
    <3>2. CASE a # variables[at].vr
      BY <2>1, <3>2 DEF ListOf
    <3> QED
      BY <3>1, <3>2
  <2> QED
    BY <1>2, <2>3 DEF w, SetIf
<1> QED
  BY <1>1, <1>2

LEMMA ListStep ==
  ASSUME ListInv, [Next]_vars
  PROVE  ListInv'
<1>1. version' = version /\ variables' = variables
  BY DocStep
<1>2. ImporterType("binary")' = ImporterType("binary")
  BY <1>1 DEF ImporterType
<1>3. CASE UNCHANGED <<binary_rx, binary_tx>>
  BY <1>1, <1>2, <1>3 DEF ListInv, ListOf
<1>4. CASE ParseVariable /\ ParseBinary
  <2> DEFINE bi == Listed("binary") /\ variables[at].causality = "input"
             bo == Listed("binary") /\ variables[at].causality = "output"
  <2>1. /\ binary_rx' = SetIf(bi, binary_rx, variables[at].vr, variables[at].mime)
        /\ binary_tx' = SetIf(bo, binary_tx, variables[at].vr, variables[at].mime)
        /\ at \in DOMAIN variables
    BY <1>4 DEF ParseVariable, ParseBinary, Var
  <2>2. /\ bi \in BOOLEAN /\ (bi => Listed("binary") /\ variables[at].causality = "input")
        /\ bo \in BOOLEAN /\ (bo => Listed("binary") /\ variables[at].causality = "output")
    BY DEF Listed
  <2> HIDE DEF bi, bo
  <2>3. ListOf(binary_rx', "input") /\ ListOf(binary_tx', "output")
    BY <2>1, <2>2, ListNext DEF ListInv
  <2> QED
    BY <1>1, <1>2, <2>3 DEF ListInv, ListOf
<1>5. CASE ParseVariable /\ ~ParseBinary
  BY <1>3, <1>5 DEF ParseVariable, listVars
<1>6. CASE ~ParseVariable
  <2>1. UNCHANGED <<binary_rx, binary_tx>>
    BY <1>6 DEF Next, vars, listVars, ParseDone, AllocateVectors, IndexVariable,
       IndexDone, SetReal, fmu_register_var, fmu_default_signals_remove, Done
  <2> QED
    BY <1>3, <2>1
<1> QED
  BY <1>4, <1>5, <1>6

(***************************************************************************)
(* The values.                                                             *)
(***************************************************************************)

(* The slot that a map leads to from vr belongs to the variable that a     *)
(* setter of the importer, or the FMU, means with vr.                      *)
LEMMA SlotMeans ==
  ASSUME DocInv, PlaceInv, IndexInv, NEW m, NEW c, NEW vr,
         MapOf(variables, m, signal["scalar"], Taken("scalar"), c),
         NEW s \in DOMAIN signal["scalar"], NEW i \in Taken("scalar"),
         signal["scalar"][s] = variables[i].name, variables[i].types[1] = "Real"
  PROVE  (vr \in DOMAIN m /\ m[vr] = s) <=> variables[i].name \in Named(vr, c, "Real")
<1>0. "scalar" \in Kind /\ Taken("scalar") \subseteq DOMAIN variables
  BY VisitedRange DEF Kind, Taken
<1>1. i \in DOMAIN variables /\ 1 \in DOMAIN variables[i].types
  BY <1>0, FirstChild
<1>2. ASSUME vr \in DOMAIN m, m[vr] = s PROVE variables[i].name \in Named(vr, c, "Real")
  <2>1. PICK j \in Taken("scalar") : /\ variables[j].vr = vr /\ variables[j].causality = c
                                     /\ Leads(variables, m, signal["scalar"], j)
    BY <1>2 DEF MapOf
  <2>2. variables[j].name = variables[i].name
    BY <1>2, <2>1 DEF Leads
  <2>3. j = i
    BY <1>0, <1>1, <2>2, NameUnique
  <2>4. \E k \in DOMAIN variables[i].types : variables[i].types[k] = "Real"
    BY <1>1
  <2> QED
    BY <1>1, <2>1, <2>3, <2>4 DEF Named
<1>3. ASSUME variables[i].name \in Named(vr, c, "Real") PROVE vr \in DOMAIN m /\ m[vr] = s
  <2>1. PICK j \in DOMAIN variables : /\ variables[j].vr = vr /\ variables[j].causality = c
                                      /\ variables[i].name = variables[j].name
    BY <1>3 DEF Named
  <2>2. j = i
    BY <1>1, <2>1, NameUnique
  <2>3. Leads(variables, m, signal["scalar"], i)
    BY <2>1, <2>2 DEF MapOf
  <2>4. /\ vr \in DOMAIN m /\ m[vr] \in DOMAIN signal["scalar"]
        /\ signal["scalar"][m[vr]] = signal["scalar"][s]
    BY <2>1, <2>2, <2>3 DEF Leads
  <2> QED
    BY <1>0, <2>4 DEF IndexInv, SignalOf
<1> QED
  BY <1>2, <1>3

(* A setter writes the slot of the variable it means and no other.         *)
LEMMA ValueWrite ==
  ASSUME DocInv, PlaceInv, IndexInv, CountInv, ValueInv, pc = "ready",
         version' = version, variables' = variables, UNCHANGED <<pc, at, idxVars>>,
         NEW m, NEW c, NEW vr, NEW val,
         MapOf(variables, m, signal["scalar"], Taken("scalar"), c),
         Write(m, vr, val),
         last' = [n \in DOMAIN last |-> IF n \in Named(vr, c, "Real") THEN val ELSE last[n]]
  PROVE  ValueInv'
<1>1. signal' = signal /\ count' = count /\ Taken("scalar")' = Taken("scalar")
      /\ ScalarNames' = ScalarNames /\ pc' = pc
  <2>1. Visited("scalar")' = Visited("scalar")
    BY DEF Visited
  <2> QED
    BY <2>1, TakenSame, DocSame DEF idxVars
<1>2. "scalar" \in Kind /\ Len(signal["scalar"]) \in Nat /\ count["scalar"] \in Nat
      /\ DOMAIN signal["scalar"] = 1 .. Len(signal["scalar"])
      /\ Len(signal["scalar"]) <= count["scalar"]
  BY SlotFits DEF Kind, IndexInv
<1>3. DOMAIN scalar' = DOMAIN scalar /\ DOMAIN last' = DOMAIN last
  BY DEF Write
<1>4. ASSUME NEW s \in DOMAIN signal["scalar"], NEW i \in Taken("scalar"),
             signal["scalar"][s] = variables[i].name, variables[i].types[1] = "Real"
      PROVE  scalar'[s] = last'[variables[i].name]
  <2>1. s \in DOMAIN scalar
    BY <1>2 DEF ValueInv
  <2>2. variables[i].name \in DOMAIN last
    <3>1. i \in DOMAIN variables /\ First(i, "scalar")
      BY <1>2, VisitedRange DEF Taken
    <3>2. Is(variables[i], "scalar")
      BY <1>2, <3>1, FirstIs
    <3> QED
      BY <3>1, <3>2 DEF ValueInv, ScalarNames
  <2>3. scalar[s] = last[variables[i].name]
    BY <1>4 DEF ValueInv
  <2>4. (vr \in DOMAIN m /\ m[vr] = s) <=> variables[i].name \in Named(vr, c, "Real")
    BY <1>4, SlotMeans
  <2>5. scalar'[s] = IF vr \in DOMAIN m /\ m[vr] = s THEN val ELSE scalar[s]
    BY <2>1 DEF Write
  <2>6. last'[variables[i].name]
          = IF variables[i].name \in Named(vr, c, "Real") THEN val ELSE last[variables[i].name]
    BY <2>2
  <2> QED
    BY <2>3, <2>4, <2>5, <2>6
<1> QED
  BY <1>1, <1>3, <1>4 DEF ValueInv

LEMMA ValueStep ==
  ASSUME DocInv, PlaceInv, IndexInv, CountInv, ValueInv, [Next]_vars
  PROVE  ValueInv'
<1>1. /\ version' = version /\ variables' = variables /\ "scalar" \in Kind
      /\ ScalarNames' = ScalarNames
  BY DocStep, DocSame DEF Kind
<1>2. CASE ParseVariable \/ ParseDone
  BY <1>2 DEF ValueInv, ParseVariable, ParseDone
<1>3. CASE AllocateVectors
  <2>1. /\ scalar' = [s \in 1 .. count'["scalar"] |-> 0]
        /\ last' = [n \in ScalarNames |-> 0] /\ pc' = "scalar"
    BY <1>3 DEF AllocateVectors, ScalarNames
  <2> QED
    BY <1>1, <2>1 DEF ValueInv
<1>4. ASSUME NEW k \in Kind, IndexVariable(k) PROVE ValueInv'
  BY <1>1, <1>4 DEF ValueInv, IndexVariable, Kind
<1>5. ASSUME NEW k \in Kind, IndexDone(k) PROVE ValueInv'
  <2>1. /\ scalar' = scalar /\ last' = last /\ count' = count /\ signal' = signal
        /\ pc \in {"scalar", "binary"} /\ pc' \in {"binary", "ready"}
    BY <1>5 DEF IndexDone, idxVars, Kind
  <2>2. /\ DOMAIN scalar = 1 .. count["scalar"] /\ DOMAIN last = ScalarNames
        /\ \A s \in DOMAIN scalar : scalar[s] = 0
        /\ \A n \in DOMAIN last : last[n] = 0
    BY <2>1 DEF ValueInv
  <2>3. \A s \in DOMAIN signal["scalar"] : s \in DOMAIN scalar
    <3>1. /\ DOMAIN signal["scalar"] = 1 .. Len(signal["scalar"]) /\ Len(signal["scalar"]) \in Nat
          /\ count["scalar"] \in Nat /\ Len(signal["scalar"]) <= count["scalar"]
      BY <1>1, SlotFits DEF IndexInv
    <3> QED
      BY <2>2, <3>1
  <2>4. \A s \in DOMAIN signal["scalar"] : signal["scalar"][s] \in ScalarNames
    <3> SUFFICES ASSUME NEW s \in DOMAIN signal["scalar"]
                 PROVE  signal["scalar"][s] \in ScalarNames
      OBVIOUS
    <3>1. PICK i \in Taken("scalar") : signal["scalar"][s] = variables[i].name
      BY <1>1 DEF IndexInv, SignalOf
    <3>2. i \in DOMAIN variables /\ First(i, "scalar")
      BY <1>1, VisitedRange DEF Taken
    <3>3. Is(variables[i], "scalar")
      BY <1>1, <3>2, FirstIs
    <3> QED
      BY <3>1, <3>2, <3>3 DEF ScalarNames
  <2>5. \A s \in DOMAIN signal["scalar"] : scalar[s] = 0 /\ last[signal["scalar"][s]] = 0
    BY <2>2, <2>3, <2>4
  <2> QED
    BY <1>1, <2>1, <2>2, <2>5 DEF ValueInv
<1>6. ASSUME NEW vr, NEW val, SetReal(vr, val) PROVE ValueInv'
  <2>1. /\ pc = "ready" /\ UNCHANGED <<pc, at, idxVars>> /\ Write(input, vr, val)
        /\ last' = [n \in DOMAIN last |->
                      IF n \in Named(vr, "input", "Real") THEN val ELSE last[n]]
    BY <1>6 DEF SetReal
  <2>2. MapOf(variables, input, signal["scalar"], Taken("scalar"), "input")
    BY DEF IndexInv
  <2> QED
    BY <1>1, <2>1, <2>2, ValueWrite
<1>7. ASSUME NEW vr, NEW val, fmu_register_var(vr, val) PROVE ValueInv'
  <2>1. /\ pc = "ready" /\ UNCHANGED <<pc, at, idxVars>> /\ Write(output, vr, val)
        /\ last' = [n \in DOMAIN last |->
                      IF n \in Named(vr, "output", "Real") THEN val ELSE last[n]]
    BY <1>7 DEF fmu_register_var
  <2>2. MapOf(variables, output, signal["scalar"], Taken("scalar"), "output")
    BY DEF IndexInv
  <2> QED
    BY <1>1, <2>1, <2>2, ValueWrite
<1>8. CASE fmu_default_signals_remove
  BY <1>8 DEF ValueInv, fmu_default_signals_remove
<1>9. CASE UNCHANGED vars
  <2>1. /\ scalar' = scalar /\ last' = last /\ count' = count /\ signal' = signal /\ pc' = pc
        /\ Visited("scalar")' = Visited("scalar")
    BY <1>1, <1>9 DEF vars, idxVars, Visited
  <2>2. Taken("scalar")' = Taken("scalar")
    BY <1>1, <2>1, TakenSame
  <2> QED
    BY <1>1, <2>1, <2>2 DEF ValueInv
<1> QED
  BY <1>2, <1>3, <1>4, <1>5, <1>6, <1>7, <1>8, <1>9 DEF Next, Done

LEMMA VarStep == VarInv /\ [Next]_vars => VarInv'
<1> SUFFICES ASSUME VarInv, [Next]_vars PROVE VarInv'
  OBVIOUS
<1> USE DEF VarInv
<1>1. DocInv'
  BY DocStep, DocSame
<1>2. PlaceInv'
  BY PlaceStep
<1>3. IndexInv'
  BY IndexStep
<1>4. CountInv'
  BY CountStep
<1>5. CodecInv'
  BY CodecStep
<1>6. ListInv'
  BY ListStep
<1>7. ValueInv'
  BY ValueStep
<1> QED
  BY <1>1, <1>2, <1>3, <1>4, <1>5, <1>6, <1>7
-----------------------------------------------------------------------------
(***************************************************************************)
(* The theorems.                                                           *)
(***************************************************************************)
LEMMA MapInjective ==
  ASSUME DocInv, PlaceInv, NEW k \in Kind, NEW sig, NEW m, NEW c,
         MapOf(variables, m, sig, Taken(k), c),
         NEW m2, NEW c2, MapOf(variables, m2, sig, Taken(k), c2),
         NEW a \in DOMAIN m, NEW b \in DOMAIN m2, m[a] = m2[b]
  PROVE  a = b /\ c = c2
<1>1. PICK i \in Taken(k) : /\ variables[i].vr = a /\ variables[i].causality = c
                            /\ Leads(variables, m, sig, i)
  BY DEF MapOf
<1>2. PICK j \in Taken(k) : /\ variables[j].vr = b /\ variables[j].causality = c2
                            /\ Leads(variables, m2, sig, j)
  BY DEF MapOf
<1>3. variables[i].name = variables[j].name
  BY <1>1, <1>2 DEF Leads
<1>4. i \in DOMAIN variables /\ j \in DOMAIN variables
  BY VisitedRange DEF Taken
<1>5. i = j
  BY <1>3, <1>4, NameUnique
<1> QED
  BY <1>1, <1>2, <1>5

(* The FMU never gives out more slots than it counted, and no two value    *)
(* references of a vector share a slot, for any document: the count of     *)
(* fmu_variable_count and the loop of fmu_variable_index agree.            *)
THEOREM SlotsSafe == Spec => []SlotsCounted
<1>1. VarInv => SlotsCounted
  <2> SUFFICES ASSUME VarInv PROVE SlotsCounted
    OBVIOUS
  <2>0. /\ DocInv /\ PlaceInv /\ "scalar" \in Kind /\ "binary" \in Kind
    BY DEF VarInv, Kind
  <2>1. \A k \in Kind : Len(signal[k]) <= count[k]
    BY SlotFits DEF VarInv
  <2>2. /\ MapOf(variables, input, signal["scalar"], Taken("scalar"), "input")
        /\ MapOf(variables, output, signal["scalar"], Taken("scalar"), "output")
        /\ MapOf(variables, rx, signal["binary"], Taken("binary"), "input")
        /\ MapOf(variables, tx, signal["binary"], Taken("binary"), "output")
    BY DEF VarInv, IndexInv
  <2>3. \A a, b \in DOMAIN input : input[a] = input[b] => a = b
    BY <2>0, <2>2, MapInjective
  <2>4. \A a, b \in DOMAIN output : output[a] = output[b] => a = b
    BY <2>0, <2>2, MapInjective
  <2>5. \A a, b \in DOMAIN rx : rx[a] = rx[b] => a = b
    BY <2>0, <2>2, MapInjective
  <2>6. \A a, b \in DOMAIN tx : tx[a] = tx[b] => a = b
    BY <2>0, <2>2, MapInjective
  <2>7. \A a \in DOMAIN input, b \in DOMAIN output : input[a] # output[b]
    BY <2>0, <2>2, MapInjective
  <2>8. \A a \in DOMAIN rx, b \in DOMAIN tx : rx[a] # tx[b]
    BY <2>0, <2>2, MapInjective
  <2> QED
    BY <2>1, <2>3, <2>4, <2>5, <2>6, <2>7, <2>8 DEF SlotsCounted
<1> QED
  BY <1>1, VarInit, VarStep, PTL DEF Spec

(* What the importer sets and the FMU computes for a Real variable is read *)
(* back for that variable, for any document and any sequence of values:    *)
(* the two readers of the document agree on every slot.                    *)
THEOREM ExchangeSafe == Spec => []ExchangeExact
<1>1. VarInv => ExchangeExact
  <2> SUFFICES ASSUME VarInv, pc = "ready", version = 2, NEW i \in DOMAIN variables,
                      variables[i].types[1] = "Real"
               PROVE  /\ variables[i].causality = "input" =>
                           /\ scalar[input[variables[i].vr]] = last[variables[i].name]
                           /\ signal["scalar"][input[variables[i].vr]] = variables[i].name
                      /\ variables[i].causality = "output" =>
                           GetReal(variables[i].vr) = last[variables[i].name]
    BY DEF ExchangeExact
  <2>1. i \in Taken("scalar")
    BY DEF Taken, Visited, First, TypesOf, ScalarType
  <2>2. \A s \in DOMAIN signal["scalar"] :
          signal["scalar"][s] = variables[i].name => scalar[s] = last[variables[i].name]
    BY <2>1 DEF VarInv, ValueInv
  <2>3. CASE variables[i].causality = "input"
    <3>1. Leads(variables, input, signal["scalar"], i)
      BY <2>1, <2>3 DEF VarInv, IndexInv, MapOf
    <3> QED
      BY <2>2, <2>3, <3>1 DEF Leads
  <2>4. CASE variables[i].causality = "output"
    <3>1. Leads(variables, output, signal["scalar"], i)
      BY <2>1, <2>4 DEF VarInv, IndexInv, MapOf
    <3> QED
      BY <2>2, <2>4, <3>1 DEF Leads, GetReal
  <2> QED
    BY <2>3, <2>4
<1> QED
  BY <1>1, VarInit, VarStep, PTL DEF Spec

(* Importer and FMU use the codec of the MIME type in the document for     *)
(* every network variable whose element starts with its type.              *)
THEOREM CodecsSafe == Spec => []CodecsAgree
<1>1. ASSUME VarInv, pc = "ready", version = 2, NEW i \in DOMAIN variables,
             variables[i].types[1] = "String",
             NEW list, NEW m, NEW c, ListOf(list, c), variables[i].vr \in DOMAIN list,
             MapOf(variables, m, signal["binary"], Taken("binary"), c),
             variables[i].causality = c
      PROVE  /\ variables[i].vr \in DOMAIN m
             /\ ncodec[m[variables[i].vr]]
                  = IF list[variables[i].vr] \in Supported THEN list[variables[i].vr] ELSE NULL
  <2>0. "binary" \in Kind /\ DocInv
    BY <1>1 DEF Kind, VarInv
  <2>1. i \in Taken("binary") /\ First(i, "binary")
    BY <1>1 DEF Taken, Visited, First, TypesOf, BinaryType
  <2>2. Leads(variables, m, signal["binary"], i)
    BY <1>1, <2>1 DEF MapOf
  <2>3. ncodec[m[variables[i].vr]] = ncodec_open(variables[i].mime)
    BY <1>1, <2>1, <2>2 DEF VarInv, CodecInv, Leads
  <2>4. PICK j \in DOMAIN variables :
          /\ variables[j].vr = variables[i].vr /\ variables[j].causality = c
          /\ \E l \in DOMAIN variables[j].types : variables[j].types[l] = ImporterType("binary")
          /\ list[variables[i].vr] = variables[j].mime
    BY <1>1 DEF ListOf
  <2>5. Is(variables[j], "binary")
    BY <1>1, <2>4 DEF Is, ImporterType, TypesOf, BinaryType
  <2>6. Is(variables[i], "binary")
    BY <2>0, <2>1, FirstIs
  <2>7. j = i
    BY <1>1, <2>0, <2>4, <2>5, <2>6, RefUnique
  <2> QED
    BY <2>2, <2>3, <2>4, <2>7 DEF Leads, ncodec_open
<1>2. VarInv => CodecsAgree
  <2> SUFFICES ASSUME VarInv, pc = "ready", version = 2, NEW i \in DOMAIN variables,
                      variables[i].types[1] = "String"
               PROVE  /\ variables[i].vr \in DOMAIN binary_rx /\ variables[i].causality = "input" =>
                           fmu_lookup_ncodec(variables[i].vr, TRUE)
                             = IF binary_rx[variables[i].vr] \in Supported
                                 THEN binary_rx[variables[i].vr] ELSE NULL
                      /\ variables[i].vr \in DOMAIN binary_tx /\ variables[i].causality = "output" =>
                           fmu_lookup_ncodec(variables[i].vr, FALSE)
                             = IF binary_tx[variables[i].vr] \in Supported
                                 THEN binary_tx[variables[i].vr] ELSE NULL
    BY DEF CodecsAgree
  <2>1. /\ ListOf(binary_rx, "input") /\ ListOf(binary_tx, "output")
        /\ MapOf(variables, rx, signal["binary"], Taken("binary"), "input")
        /\ MapOf(variables, tx, signal["binary"], Taken("binary"), "output")
    BY DEF VarInv, ListInv, IndexInv
  <2>2. ASSUME variables[i].vr \in DOMAIN binary_rx, variables[i].causality = "input"
        PROVE  fmu_lookup_ncodec(variables[i].vr, TRUE)
                 = IF binary_rx[variables[i].vr] \in Supported
                     THEN binary_rx[variables[i].vr] ELSE NULL
    <3>1. /\ variables[i].vr \in DOMAIN rx
          /\ ncodec[rx[variables[i].vr]] = IF binary_rx[variables[i].vr] \in Supported
                                            THEN binary_rx[variables[i].vr] ELSE NULL
      BY <1>1, <2>1, <2>2
    <3> QED
      BY <3>1 DEF fmu_lookup_ncodec
  <2>3. ASSUME variables[i].vr \in DOMAIN binary_tx, variables[i].causality = "output"
        PROVE  fmu_lookup_ncodec(variables[i].vr, FALSE)
                 = IF binary_tx[variables[i].vr] \in Supported
                     THEN binary_tx[variables[i].vr] ELSE NULL
    <3>1. /\ variables[i].vr \in DOMAIN tx
          /\ ncodec[tx[variables[i].vr]] = IF binary_tx[variables[i].vr] \in Supported
                                            THEN binary_tx[variables[i].vr] ELSE NULL
      BY <1>1, <2>1, <2>3
    <3> QED
      BY <3>1 DEF fmu_lookup_ncodec
  <2> QED
    BY <2>2, <2>3
<1> QED
  BY <1>2, VarInit, VarStep, PTL DEF Spec

(* Streams and trace data belong to open codecs at every moment, and none  *)
(* is left after fmu_default_signals_remove.                               *)
THEOREM ReleasedSafe == Spec => []CodecsReleased
<1>1. VarInv => CodecsReleased
  BY DEF VarInv, CodecInv
<1> QED
  BY <1>1, VarInit, VarStep, PTL DEF Spec
=============================================================================

-------------------------- MODULE Z3ObjectsProofs ---------------------------
(***************************************************************************)
(* Every reference to an object of the solver is counted, and each query   *)
(* is asked alone and with a time limit, for any terms and any number of   *)
(* them, wherever an exception is thrown.                                  *)
(***************************************************************************)
EXTENDS Z3Objects, FiniteSetTheorems, SequenceTheorems, TLAPS

-----------------------------------------------------------------------------
(* The inductive invariant: where the handles are that each call has made, *)
(* and what is left to do about them.                                      *)

Labels == {"solver", "params", "set", "split", "machines", "push", "query",
           "drop", "pop", "return"}

Handle == [class : {"context", "solver", "params", "expr"},
           obj : Term \cup {Null} \cup ({"solver", "params"} \X Nat)]

Called == {"constructor", "destructor", "split", "compare", "equivalent"}

Frame == [function : Called,
          base : Nat, at : Labels, asked : Term \cup {Null}]

IsZ3(z) == z = [open |-> z.open, refs |-> z.refs, asserted |-> z.asserted,
                limited |-> z.limited, timed |-> z.timed, misuse |-> z.misuse]

Typed ==
    /\ IsZ3(z3)
    /\ handles \in Seq(Handle)
    /\ calls \in Seq(Frame)
    /\ unwinding \in BOOLEAN

\* The context, the solver of its thread, those of process_sequences and of the
\* call it makes of itself, each with its parameters, and then the terms.
Constructing == calls # <<>> /\ calls[1].function = "constructor"

Class(k) ==
    CASE k = 1 -> "context"
      [] k \in {2, 5} -> "solver"
      [] k = 3 -> IF Constructing THEN "params" ELSE "solver"
      [] k \in {4, 6} -> "params"
      [] OTHER -> "expr"

Placed ==
    \A k \in 1 .. Len(handles) :
        /\ handles[k].class = Class(k)
        /\ handles[k].obj \in CASE k = 1 -> {Null}
                                [] k \in 2 .. 6 -> {<<Class(k), k>>}
                                [] OTHER -> Term \cup {Null}
        /\ Constructing => k <= 3

\* How many handles there are at a place in a call.
InConstructor(c, l) ==
    /\ Len(c) = 1 /\ c[1].function = "constructor" /\ c[1].base = 2
    /\ \/ c[1].at = "solver" /\ l = 1
       \/ c[1].at = "params" /\ l = 2
       \/ c[1].at = "set"    /\ l = 3
       \/ c[1].at = "return" /\ l \in {2, 3}

InDestructor(c, l) ==
    /\ Len(c) = 1 /\ c[1].function = "destructor" /\ c[1].base = 0
    /\ c[1].at = "return" /\ l \in 0 .. 2

InSplit(c, l) ==
    /\ Len(c) = 1 /\ c[1].function = "split" /\ c[1].base = 2
    /\ \/ c[1].at = "solver" /\ l = 2
       \/ c[1].at = "params" /\ l = 3
       \/ c[1].at \in {"set", "split"} /\ l = 4
       \/ c[1].at = "return" /\ l \in 2 .. 4

Splitting(c) == c[1].function = "split" /\ c[1].base = 2 /\ c[1].at = "split"

InCompare(c, l) ==
    /\ Len(c) = 2 /\ Splitting(c)
    /\ c[2].function = "compare" /\ c[2].base = 4
    /\ \/ c[2].at = "solver" /\ l = 4
       \/ c[2].at = "params" /\ l = 5
       \/ c[2].at = "set" /\ l = 6
       \/ c[2].at = "machines" /\ l >= 6
       \/ c[2].at = "return" /\ l >= 4

InEquivalent(c, l) ==
    /\ Len(c) = 3 /\ Splitting(c)
    /\ c[2].function = "compare" /\ c[2].base = 4 /\ c[2].at = "machines"
    /\ c[3].function = "equivalent" /\ c[3].base >= 7
    /\ \/ c[3].at \in {"push", "pop", "return"} /\ l = c[3].base
       \/ c[3].at \in {"query", "drop"} /\ l >= c[3].base

Places(c, l) ==
    \/ c = <<>> /\ l \in {0, 2}
    \/ InConstructor(c, l) \/ InDestructor(c, l) \/ InSplit(c, l)
    \/ InCompare(c, l) \/ InEquivalent(c, l)

\* The solver that the machines of a bucket are compared with.
Comparer == <<"solver", 5>>

Stack(c) ==
    IF Len(c) = 3 /\ c[3].at = "query" THEN << <<>> >>
    ELSE IF Len(c) = 3 /\ c[3].at \in {"drop", "pop"} THEN << <<c[3].asked>> >>
    ELSE <<>>

Stacked ==
    /\ \A k \in 1 .. Len(handles) :
         handles[k].class = "solver" =>
            /\ handles[k].obj \in DOMAIN z3.asserted
            /\ k # 5 => z3.asserted[handles[k].obj] = <<>>
    /\ Len(handles) >= 5 =>
            /\ z3.asserted[Comparer] \in {<<>>, << <<>> >>} \cup {<< <<t>> >> : t \in Term}
            /\ ~unwinding => z3.asserted[Comparer] = Stack(calls)

\* A term that is asked about is one, and the solver has its time limit.
InTime ==
    ~unwinding /\ Len(calls) >= 2 /\ calls[2].at = "machines" => Comparer \in z3.timed

Count(refs, o)    == IF o \in DOMAIN refs THEN refs[o] ELSE 0
Held(hs, o)       == Cardinality({k \in 1 .. Len(hs) : hs[k].obj = o})
AssertedBy(z, l, o) == IF l >= 5 /\ z.asserted[Comparer] = << <<o>> >> THEN 1 ELSE 0

IsRefs(refs) == Null \notin DOMAIN refs /\ \A o \in DOMAIN refs : refs[o] \in Nat \ {0}

Balanced ==
    /\ IsRefs(z3.refs)
    /\ \A o : o # Null =>
          Count(z3.refs, o) = Held(handles, o) + AssertedBy(z3, Len(handles), o)

IInv ==
    /\ Typed /\ Placed
    /\ ~unwinding => Places(calls, Len(handles))
    /\ ~z3.misuse
    /\ handles # <<>> => z3.open
    /\ Stacked /\ InTime /\ Balanced

-----------------------------------------------------------------------------
(* Counts of references.                                                   *)

Unit(o, x) == IF o = x THEN 1 ELSE 0

LEMMA CountIsNat ==
    ASSUME NEW refs, IsRefs(refs), NEW o
    PROVE  Count(refs, o) \in Nat /\ (Count(refs, o) > 0 <=> o \in DOMAIN refs)
BY DEF IsRefs, Count

LEMMA CountAdded ==
    ASSUME NEW refs, IsRefs(refs), NEW n, n # Null
    PROVE  /\ IsRefs(refs (+) One(n))
           /\ \A o : Count(refs (+) One(n), o) = Count(refs, o) + Unit(n, o)
<1>1. PICK more : more = refs (+) One(n)
  OBVIOUS
<1>2. DOMAIN more = DOMAIN refs \cup {n}
  BY <1>1 DEF (+), One, SetToBag
<1>3. \A o \in DOMAIN more : more[o] = Count(refs, o) + Unit(n, o)
  BY <1>1 DEF (+), One, SetToBag, Count, Unit
<1>4. \A o : Count(refs, o) \in Nat /\ (o \notin DOMAIN refs => Count(refs, o) = 0)
  BY DEF IsRefs, Count
<1>5. IsRefs(more)
  <2>1. \A o \in DOMAIN more : more[o] \in Nat \ {0}
    <3> SUFFICES ASSUME NEW o \in DOMAIN more PROVE more[o] \in Nat \ {0}
      OBVIOUS
    <3>1. CASE o = n
      BY <1>3, <1>4, <3>1 DEF Unit
    <3>2. CASE o # n
      <4>1. o \in DOMAIN refs
        BY <1>2, <3>2
      <4>2. Count(refs, o) \in Nat \ {0}
        BY <4>1 DEF IsRefs, Count
      <4> QED
        BY <1>3, <3>2, <4>2 DEF Unit
    <3> QED
      BY <3>1, <3>2
  <2> QED
    BY <1>2, <2>1 DEF IsRefs
<1>6. \A o : Count(more, o) = Count(refs, o) + Unit(n, o)
  <2> SUFFICES ASSUME NEW o PROVE Count(more, o) = Count(refs, o) + Unit(n, o)
    OBVIOUS
  <2>1. CASE o \in DOMAIN more
    BY <1>3, <2>1 DEF Count
  <2>2. CASE o \notin DOMAIN more
    <3>1. o # n /\ o \notin DOMAIN refs
      BY <1>2, <2>2
    <3> QED
      BY <1>4, <2>2, <3>1 DEF Count, Unit
  <2> QED
    BY <2>1, <2>2
<1> QED
  BY <1>1, <1>5, <1>6

LEMMA CountRemoved ==
    ASSUME NEW refs, IsRefs(refs), NEW n \in DOMAIN refs
    PROVE  /\ IsRefs(refs (-) One(n))
           /\ \A o : Count(refs (-) One(n), o) = Count(refs, o) - Unit(n, o)
<1>1. PICK less : less = refs (-) One(n)
  OBVIOUS
<1> DEFINE Left(o) == Count(refs, o) - Unit(n, o)
<1>2. \A o \in DOMAIN refs : Count(refs, o) = refs[o] /\ refs[o] \in Nat \ {0}
  BY DEF IsRefs, Count
<1>3. less = [o \in {d \in DOMAIN refs : Left(d) > 0} |-> Left(o)]
  <2> DEFINE B == [e \in DOMAIN refs |-> IF e \in DOMAIN One(n) THEN refs[e] - One(n)[e]
                                                               ELSE refs[e]]
  <2>1. \A o \in DOMAIN refs : B[o] = Left(o)
    <3>1. DOMAIN One(n) = {n} /\ One(n)[n] = 1
      BY DEF One, SetToBag
    <3> QED
      BY <1>2, <3>1 DEF Unit
  <2>2. less = [e \in {d \in DOMAIN B : B[d] > 0} |-> B[e]]
    BY <1>1 DEF (-)
  <2>3. DOMAIN B = DOMAIN refs
    OBVIOUS
  <2> HIDE DEF B
  <2>4. {d \in DOMAIN B : B[d] > 0} = {d \in DOMAIN refs : Left(d) > 0}
    BY <2>1, <2>3
  <2> QED
    BY <2>1, <2>2, <2>4
<1>4. IsRefs(less)
  <2>1. \A o \in DOMAIN refs : Left(o) \in Int
    BY <1>2 DEF Unit
  <2>2. \A o \in DOMAIN less : less[o] \in Nat \ {0}
    BY <1>3, <2>1
  <2> QED
    BY <1>3, <2>2 DEF IsRefs
<1>5. \A o : Count(less, o) = Left(o)
  <2> SUFFICES ASSUME NEW o PROVE Count(less, o) = Left(o)
    OBVIOUS
  <2>1. CASE o \in DOMAIN less
    BY <1>3, <2>1 DEF Count
  <2>2. CASE o \notin DOMAIN less /\ o \in DOMAIN refs
    <3>1. ~(Left(o) > 0) /\ Left(o) >= 0
      BY <1>2, <1>3, <2>2 DEF Unit
    <3>2. Left(o) \in Int
      BY <1>2, <2>2 DEF Unit
    <3> QED
      BY <2>2, <3>1, <3>2 DEF Count
  <2>3. CASE o \notin DOMAIN less /\ o \notin DOMAIN refs
    BY <2>3 DEF Count, Unit
  <2> QED
    BY <2>1, <2>2, <2>3
<1> QED
  BY <1>1, <1>4, <1>5

-----------------------------------------------------------------------------
(* Counts of handles.                                                      *)

Holders(hs, o) == {k \in 1 .. Len(hs) : hs[k].obj = o}

LEMMA HeldIsNat ==
    ASSUME NEW hs \in Seq(Handle), NEW o
    PROVE  IsFiniteSet(Holders(hs, o)) /\ Held(hs, o) \in Nat
<1>1. PICK n \in Nat : n = Len(hs)
  BY LenProperties
<1>2. IsFiniteSet(1 .. n)
  BY FS_Interval
<1>3. Holders(hs, o) \subseteq 1 .. n
  BY <1>1 DEF Holders
<1>4. IsFiniteSet(Holders(hs, o)) /\ Cardinality(Holders(hs, o)) \in Nat
  BY <1>2, <1>3, FS_Subset, FS_CardinalityType
<1> QED
  BY <1>4 DEF Holders, Held

LEMMA HeldOnce ==
    ASSUME NEW hs \in Seq(Handle), NEW k \in 1 .. Len(hs),
           \A i \in 1 .. Len(hs) : hs[i].obj = hs[k].obj => i = k
    PROVE  Held(hs, hs[k].obj) = 1
<1>1. Holders(hs, hs[k].obj) = {k}
  BY DEF Holders
<1>2. Cardinality({k}) = 1
  BY FS_Singleton
<1> QED
  BY <1>1, <1>2 DEF Holders, Held

LEMMA HeldSome ==
    ASSUME NEW hs \in Seq(Handle), NEW k \in 1 .. Len(hs)
    PROVE  Held(hs, hs[k].obj) > 0
<1>1. k \in Holders(hs, hs[k].obj)
  BY DEF Holders
<1>2. IsFiniteSet(Holders(hs, hs[k].obj)) /\ Held(hs, hs[k].obj) \in Nat
  BY HeldIsNat
<1>3. Cardinality(Holders(hs, hs[k].obj)) # 0
  BY <1>1, <1>2, FS_EmptySet
<1> QED
  BY <1>2, <1>3 DEF Holders, Held

LEMMA HeldAppended ==
    ASSUME NEW hs \in Seq(Handle), NEW h \in Handle, NEW o
    PROVE  Held(Append(hs, h), o) = Held(hs, o) + Unit(h.obj, o)
<1>1. PICK n \in Nat : n = Len(hs)
  BY LenProperties
<1>2. PICK more : more = Append(hs, h)
  OBVIOUS
<1>3. Len(more) = n + 1 /\ more[n + 1] = h /\ \A k \in 1 .. n : more[k] = hs[k]
  BY <1>1, <1>2, AppendProperties
<1>4. IsFiniteSet(Holders(hs, o))
  BY HeldIsNat
<1>5. n + 1 \notin Holders(hs, o)
  BY <1>1 DEF Holders
<1>6. CASE h.obj = o
  <2>1. Holders(more, o) = Holders(hs, o) \cup {n + 1}
    BY <1>1, <1>3, <1>6 DEF Holders
  <2>2. Cardinality(Holders(more, o)) = Cardinality(Holders(hs, o)) + 1
    BY <1>4, <1>5, <2>1, FS_AddElement
  <2> QED
    BY <1>2, <1>6, <2>2 DEF Holders, Held, Unit
<1>7. CASE h.obj # o
  <2>1. Holders(more, o) = Holders(hs, o)
    BY <1>1, <1>3, <1>7 DEF Holders
  <2>2. Cardinality(Holders(hs, o)) \in Nat
    BY <1>4, FS_CardinalityType
  <2>3. Held(more, o) = Held(hs, o) /\ Held(hs, o) \in Nat
    BY <2>1, <2>2 DEF Holders, Held
  <2> QED
    BY <1>2, <1>7, <2>3 DEF Unit
<1> QED
  BY <1>6, <1>7

LEMMA FrontIs ==
    ASSUME NEW S, NEW s \in Seq(S), s # <<>>
    PROVE  /\ Front(s) \in Seq(S) /\ Last(s) \in S
           /\ Len(Front(s)) = Len(s) - 1 /\ Len(s) \in Nat \ {0}
           /\ \A k \in 1 .. Len(s) - 1 : Front(s)[k] = s[k]
           /\ Append(Front(s), Last(s)) = s
<1>1. PICK n \in Nat : n = Len(s)
  BY LenProperties
<1>2. n # 0
  BY <1>1, EmptySeq
<1>3. n - 1 \in 0 .. n
  BY <1>2
<1>4. SubSeq(s, 1, n - 1) \in Seq(S) /\ Len(SubSeq(s, 1, n - 1)) = n - 1
      /\ \A k \in 1 .. n - 1 : SubSeq(s, 1, n - 1)[k] = s[k]
  <2>1. \A k \in 1 .. n - 1 : s[k] \in S
    BY <1>1, ElementOfSeq
  <2> QED
    BY <1>1, <1>2, <1>3, <2>1
<1>5. Front(s) = SubSeq(s, 1, n - 1) /\ Last(s) = s[n] /\ s[n] \in S
  BY <1>1, <1>2, ElementOfSeq DEF Front, Last
<1>6. PICK f \in Seq(S) : f = Front(s)
  BY <1>4, <1>5
<1>7. Append(f, s[n]) = s
  <2>1. PICK g : g = Append(f, s[n])
    OBVIOUS
  <2>2. g \in Seq(S) /\ Len(g) = n /\ g[n] = s[n] /\ \A k \in 1 .. n - 1 : g[k] = s[k]
    <3>1. Len(f) = n - 1
      BY <1>4, <1>5, <1>6
    <3>2. /\ g \in Seq(S) /\ Len(g) = Len(f) + 1 /\ g[Len(f) + 1] = s[n]
          /\ \A k \in 1 .. Len(f) : g[k] = f[k]
      BY <1>5, <1>6, <2>1, AppendProperties
    <3>3. Len(f) + 1 = n
      BY <1>1, <3>1
    <3> QED
      BY <1>4, <1>5, <1>6, <3>1, <3>2, <3>3
  <2>3. \A k \in 1 .. n : g[k] = s[k]
    BY <2>2
  <2> QED
    BY <1>1, <2>1, <2>2, <2>3, SeqEqual
<1> QED
  BY <1>1, <1>2, <1>4, <1>5, <1>6, <1>7

LEMMA HeldFront ==
    ASSUME NEW hs \in Seq(Handle), hs # <<>>, NEW o
    PROVE  Held(Front(hs), o) = Held(hs, o) - Unit(Last(hs).obj, o)
<1>1. Front(hs) \in Seq(Handle) /\ Last(hs) \in Handle /\ Append(Front(hs), Last(hs)) = hs
  BY FrontIs
<1>2. Held(Append(Front(hs), Last(hs)), o) = Held(Front(hs), o) + Unit(Last(hs).obj, o)
  BY <1>1, HeldAppended
<1>3. Held(Front(hs), o) \in Nat /\ Unit(Last(hs).obj, o) \in Nat
  BY <1>1, HeldIsNat DEF Unit
<1> QED
  BY <1>1, <1>2, <1>3

\* A handle is assigned another object.
Reassigned(hs, i, n) == [hs EXCEPT ![i].obj = n]

LEMMA HeldAssigned ==
    ASSUME NEW hs \in Seq(Handle), NEW i \in 1 .. Len(hs), NEW n, NEW o,
           NEW new, new = Reassigned(hs, i, n)
    PROVE  Held(new, o) = Held(hs, o) - Unit(hs[i].obj, o) + Unit(n, o)
<1>1. /\ Len(new) = Len(hs)
      /\ \A k \in 1 .. Len(hs) : new[k].obj = IF k = i THEN n ELSE hs[k].obj
  <2>1. \A k \in 1 .. Len(hs) : hs[k] \in Handle
    BY ElementOfSeq
  <2>2. Len(new) = Len(hs) /\ new = [hs EXCEPT ![i] = [hs[i] EXCEPT !.obj = n]]
    BY DEF Reassigned
  <2> QED
    BY <2>1, <2>2 DEF Handle
<1>2. IsFiniteSet(Holders(hs, o)) /\ Cardinality(Holders(hs, o)) \in Nat
  BY HeldIsNat, FS_CardinalityType
<1> DEFINE Others == Holders(hs, o) \ {i}
<1>3. Holders(hs, o) = IF hs[i].obj = o THEN Others \cup {i} ELSE Others
  BY DEF Holders
<1>4. Holders(new, o) = IF n = o THEN Others \cup {i} ELSE Others
  BY <1>1 DEF Holders
<1>5. i \notin Others /\ IsFiniteSet(Others)
  BY <1>2, FS_Subset
<1> HIDE DEF Others
<1>6. /\ Cardinality(Others) \in Nat
      /\ Cardinality(Others \cup {i}) = Cardinality(Others) + 1
  BY <1>5, FS_AddElement, FS_CardinalityType
<1>7. Cardinality(Holders(hs, o)) = Cardinality(Others) + Unit(hs[i].obj, o)
  BY <1>3, <1>6 DEF Unit
<1>8. Cardinality(Holders(new, o)) = Cardinality(Others) + Unit(n, o)
  BY <1>4, <1>6 DEF Unit
<1>9. Unit(n, o) \in Nat /\ Unit(hs[i].obj, o) \in Nat
  BY DEF Unit
<1> QED
  BY <1>6, <1>7, <1>8, <1>9 DEF Holders, Held

-----------------------------------------------------------------------------
(* What the functions of the API do when nothing is misused.               *)

With(z, r) == [z EXCEPT !.refs = r]

LEMMA WithIs ==
    ASSUME NEW z, IsZ3(z), NEW r
    PROVE  /\ IsZ3(With(z, r)) /\ With(z, r).refs = r
           /\ With(z, r).open = z.open /\ With(z, r).misuse = z.misuse
           /\ With(z, r).asserted = z.asserted
           /\ With(z, r).limited = z.limited /\ With(z, r).timed = z.timed
BY DEF With, IsZ3

LEMMA MadeIs ==
    ASSUME NEW z, IsZ3(z), z.open, NEW o
    PROVE  Made(z, o) = With(z, z.refs (+) One(o))
BY DEF Made, With

LEMMA IncRefIs ==
    ASSUME NEW z, IsZ3(z), z.open, NEW o \in DOMAIN z.refs, o # Null
    PROVE  Z3_inc_ref(z, o) = With(z, z.refs (+) One(o))
BY DEF Z3_inc_ref, Checked, IsLive, BagIn, BagToSet, With

LEMMA DecRefIs ==
    ASSUME NEW z, IsZ3(z), z.open, NEW o \in DOMAIN z.refs
    PROVE  Z3_dec_ref(z, o) = With(z, z.refs (-) One(o))
BY DEF Z3_dec_ref, Checked, IsLive, BagIn, BagToSet, With

Losing(r, z, terms, n) == IF n = 0 THEN z ELSE Z3_dec_ref(r[n - 1], terms[n])

AllLost(r, z, terms, n) == r = [k \in 0 .. n |-> Losing(r, z, terms, k)]

LEMMA ReleasedIs ==
    ASSUME NEW z, NEW terms, NEW n, Len(terms) = n,
           NEW r, AllLost(r, z, terms, n)
    PROVE  \E q : AllLost(q, z, terms, n) /\ Released(z, terms) = q[n]
<1> DEFINE q == CHOOSE q : q = [k \in 0 .. n |-> Losing(q, z, terms, k)]
<1>1. q = [k \in 0 .. n |-> Losing(q, z, terms, k)]
  BY DEF AllLost
<1>2. Released(z, terms) = q[n]
  BY DEF Released, Losing
<1> QED
  BY <1>1, <1>2 DEF AllLost

LEMMA NoneReleased ==
    ASSUME NEW z
    PROVE  Released(z, <<>>) = z
<1> DEFINE r == [k \in 0 .. 0 |-> z]
<1>1. AllLost(r, z, <<>>, 0)
  BY DEF AllLost, Losing
<1>2. PICK q : AllLost(q, z, <<>>, 0) /\ Released(z, <<>>) = q[0]
  <2>1. Len(<<>>) = 0
    OBVIOUS
  <2> HIDE DEF r
  <2> QED
    BY <1>1, <2>1, ReleasedIs
<1> QED
  BY <1>2 DEF AllLost, Losing

LEMMA OneReleased ==
    ASSUME NEW z, NEW t
    PROVE  Released(z, <<t>>) = Z3_dec_ref(z, t)
<1> DEFINE r == [k \in 0 .. 1 |-> IF k = 0 THEN z ELSE Z3_dec_ref(z, t)]
<1>1. PICK terms : terms = <<t>>
  OBVIOUS
<1>2. Len(terms) = 1 /\ terms[1] = t /\ 1 - 1 = 0
  BY <1>1
<1>3. AllLost(r, z, terms, 1)
  <2>1. r[0] = z /\ r[1] = Z3_dec_ref(z, t)
    OBVIOUS
  <2>2. r = [k \in 0 .. 1 |-> r[k]]
    OBVIOUS
  <2> HIDE DEF r
  <2>3. Losing(r, z, terms, 0) = z /\ Losing(r, z, terms, 1) = Z3_dec_ref(z, t)
    BY <1>2, <2>1 DEF Losing
  <2>4. \A k \in 0 .. 1 : k = 0 \/ k = 1
    OBVIOUS
  <2>5. \A k \in 0 .. 1 : r[k] = Losing(r, z, terms, k)
    BY <2>1, <2>3, <2>4
  <2> QED
    BY <2>2, <2>5 DEF AllLost
<1> HIDE DEF r
<1>4. PICK q : AllLost(q, z, terms, 1) /\ Released(z, terms) = q[1]
  BY <1>2, <1>3, ReleasedIs
<1>5. q[0] = z /\ q[1] = Losing(q, z, terms, 1)
  BY <1>4 DEF AllLost, Losing
<1> QED
  BY <1>1, <1>2, <1>4, <1>5 DEF Losing

LEMMA NotNone ==
    ASSUME NEW o
    PROVE  << <<o>> >> # <<>>
<1>1. PICK s : s = <<o>>
  OBVIOUS
<1>2. Len(<<s>>) = 1 /\ Len(<<>>) = 0
  OBVIOUS
<1> QED
  BY <1>1, <1>2

\* The assertions of a solver with no frame, an empty one and one with a term.
LEMMA FlatNone == FlattenSeq(<<>>) = <<>>
BY DEF FlattenSeq

LEMMA FlatOne ==
    ASSUME NEW s
    PROVE  FlattenSeq(<<s>>) = s
<1> DEFINE Flat(f, i) == IF i = 1 THEN <<s>>[i] ELSE f[i - 1] \o <<s>>[i]
           g == CHOOSE f : f = [i \in 1 .. 1 |-> Flat(f, i)]
           w == [i \in 1 .. 1 |-> s]
<1>1. w = [i \in 1 .. 1 |-> Flat(w, i)]
  OBVIOUS
<1>2. g = [i \in 1 .. 1 |-> Flat(g, i)]
  BY <1>1
<1>3. g[1] = s
  BY <1>2
<1>4. Len(<<s>>) = 1
  OBVIOUS
<1>5. FlattenSeq(<<s>>) = g[1]
  BY <1>4 DEF FlattenSeq
<1> QED
  BY <1>3, <1>5

-----------------------------------------------------------------------------
(* The calls and the handles of a state.                                   *)

Gone(c, l) == [c EXCEPT ![Len(c)].at = l]

LEMMA GoToIs ==
    ASSUME NEW c \in Seq(Frame), c # <<>>, NEW l \in Labels,
           NEW d, d = Gone(c, l)
    PROVE  /\ d \in Seq(Frame) /\ Len(d) = Len(c) /\ Len(c) \in Nat \ {0}
           /\ \A i \in 1 .. Len(c) :
                /\ d[i].function = c[i].function /\ d[i].base = c[i].base
                /\ d[i].asked = c[i].asked
                /\ d[i].at = IF i = Len(c) THEN l ELSE c[i].at
<1>1. PICK n \in Nat : n = Len(c)
  BY LenProperties
<1>2. n # 0
  BY <1>1, EmptySeq
<1>3. \A i \in 1 .. n : c[i] \in Frame
  BY <1>1, ElementOfSeq
<1>4. PICK f \in Frame : f = c[n]
  BY <1>2, <1>3
<1>5. PICK g \in Frame : g = [f EXCEPT !.at = l]
  BY DEF Frame
<1>6. d = [c EXCEPT ![n] = g]
  BY <1>1, <1>4, <1>5 DEF Gone
<1>7. d \in Seq(Frame) /\ Len(d) = n /\ \A i \in 1 .. n : d[i] = IF i = n THEN g ELSE c[i]
  BY <1>1, <1>2, <1>6, ExceptSeq
<1>8. g.function = f.function /\ g.base = f.base /\ g.asked = f.asked /\ g.at = l
  BY <1>5 DEF Frame
<1> QED
  BY <1>1, <1>2, <1>4, <1>7, <1>8

Entered(f, b, l) == [function |-> f, base |-> b, at |-> l, asked |-> Null]

LEMMA EnterIs ==
    ASSUME NEW c \in Seq(Frame), NEW l \in Labels, NEW b \in Nat,
           NEW f \in Called,
           NEW d, d = Append(c, Entered(f, b, l))
    PROVE  /\ d \in Seq(Frame) /\ Len(d) = Len(c) + 1 /\ Len(c) \in Nat
           /\ \A i \in 1 .. Len(c) : d[i] = c[i]
           /\ d[Len(c) + 1].function = f /\ d[Len(c) + 1].base = b
           /\ d[Len(c) + 1].at = l
<1>1. PICK g : g = Entered(f, b, l)
  OBVIOUS
<1>2. g \in Frame /\ g.function = f /\ g.base = b /\ g.at = l
  BY <1>1 DEF Entered, Frame, Called
<1>3. /\ d \in Seq(Frame) /\ Len(d) = Len(c) + 1 /\ d[Len(c) + 1] = g
      /\ \A i \in 1 .. Len(c) : d[i] = c[i]
  BY <1>1, <1>2, AppendProperties
<1> QED
  BY <1>1, <1>2, <1>3, LenProperties

LEMMA SolverIs ==
    ASSUME Typed, NEW k \in 1 .. Len(handles), handles[k].class = "solver",
           \A i \in 1 .. Len(handles) : i > k => handles[i].class # "solver"
    PROVE  solver = handles[k].obj
<1>1. PICK n \in Nat : n = Len(handles)
  BY LenProperties DEF Typed
<1> DEFINE I == {i \in 1 .. Len(handles) : handles[i].class = "solver"}
<1>2. k \in I /\ \A i \in I : k >= i /\ i \in Int
  BY <1>1
<1> HIDE DEF I
<1>3. Max(I) = k
  <2>1. PICK m : m = Max(I)
    OBVIOUS
  <2>2. m \in I /\ \A i \in I : m >= i
    BY <1>2, <2>1 DEF Max
  <2>3. m >= k /\ k >= m /\ m \in Int /\ k \in Int
    BY <1>2, <2>2
  <2> QED
    BY <2>1, <2>3
<1>4. SelectLastInSeq(handles, LAMBDA h : h.class = "solver") = Max(I)
  BY <1>2 DEF SelectLastInSeq, I
<1> QED
  BY <1>3, <1>4 DEF solver

\* What a handle is of is alive.
LEMMA HandleIsLive ==
    ASSUME IInv, NEW k \in 1 .. Len(handles), handles[k].obj # Null
    PROVE  z3.open /\ handles[k].obj \in DOMAIN z3.refs
<1>1. handles \in Seq(Handle) /\ IsRefs(z3.refs)
  BY DEF IInv, Typed, Balanced
<1>2. Held(handles, handles[k].obj) > 0 /\ Held(handles, handles[k].obj) \in Nat
  BY <1>1, HeldSome, HeldIsNat
<1>3. Count(z3.refs, handles[k].obj)
        = Held(handles, handles[k].obj) + AssertedBy(z3, Len(handles), handles[k].obj)
  BY DEF IInv, Balanced
<1>4. Count(z3.refs, handles[k].obj) > 0
  BY <1>2, <1>3 DEF AssertedBy
<1>5. handles # <<>>
  OBVIOUS
<1> QED
  BY <1>1, <1>4, <1>5, CountIsNat DEF IInv

\* A step of the calls alone.
LEMMA OnlyCalls ==
    ASSUME IInv, UNCHANGED <<z3, handles, unwinding>>, ~unwinding,
           calls' \in Seq(Frame), Places(calls', Len(handles)),
           (Constructing' <=> Constructing) \/ Len(handles) <= 2,
           Len(handles) >= 5 => Stack(calls') = Stack(calls),
           InTime'
    PROVE  IInv'
<1>1. Typed' /\ IsZ3(z3')
  BY DEF IInv, Typed
<1>2. Placed'
  <2>1. PICK n \in Nat : n = Len(handles)
    BY LenProperties DEF IInv, Typed
  <2>2. CASE Constructing' <=> Constructing
    BY <2>1, <2>2 DEF IInv, Placed, Class
  <2>3. CASE n <= 2
    <3>1. \A k \in 1 .. n : Class(k)' = Class(k) /\ k <= 3
      BY <2>3 DEF Class
    <3> QED
      BY <2>1, <3>1 DEF IInv, Placed
  <2> QED
    BY <2>1, <2>2, <2>3
<1>3. Stacked'
  BY DEF IInv, Stacked
<1>4. Balanced'
  BY DEF IInv, Balanced
<1> QED
  BY <1>1, <1>2, <1>3, <1>4 DEF IInv

LEMMA Throws ==
    ASSUME IInv, Throw
    PROVE  IInv'
<1>1. Typed'
  BY DEF IInv, Typed, Throw
<1>2. Placed'
  BY DEF IInv, Placed, Class, Constructing, Throw
<1>3. Stacked'
  BY DEF IInv, Stacked, Throw
<1>4. Balanced'
  BY DEF IInv, Balanced, Throw
<1> QED
  BY <1>1, <1>2, <1>3, <1>4 DEF IInv, Throw, InTime

LEMMA Stutters ==
    ASSUME IInv, UNCHANGED vars
    PROVE  IInv'
BY DEF vars, IInv, Typed, Placed, Class, Constructing, Stacked, InTime, Balanced

LEMMA InitIs == Init => IInv
<1> SUFFICES ASSUME Init PROVE IInv
  OBVIOUS
<1>1. Typed
  BY EmptySeq DEF Init, NoContext, Typed, IsZ3
<1>2. Balanced
  <2>1. \A o : Held(<<>>, o) = 0
    <3>1. \A o : Holders(<<>>, o) = {}
      BY DEF Holders
    <3> QED
      BY <3>1, FS_EmptySet DEF Held, Holders
  <2>2. DOMAIN EmptyBag = {}
    BY DEF EmptyBag, SetToBag
  <2> QED
    BY <2>1, <2>2 DEF Init, NoContext, Balanced, IsRefs, Count, AssertedBy
<1> QED
  BY <1>1, <1>2 DEF Init, NoContext, IInv, Placed, Places, Stacked, InTime

-----------------------------------------------------------------------------
(* The actions that only change the calls.                                 *)

LEMMA Lengths ==
    ASSUME Typed
    PROVE  Len(calls) \in Nat /\ Len(handles) \in Nat /\ (Len(calls) = 0 <=> calls = <<>>)
           /\ (Len(handles) = 0 <=> handles = <<>>)
BY LenProperties, EmptySeq DEF Typed

LEMMA Returns ==
    ASSUME IInv, Return
    PROVE  IInv'
<1>1. Typed /\ ~unwinding /\ calls # <<>> /\ Places(calls, Len(handles)) /\ calls' = Front(calls)
      /\ calls[Len(calls)].at = "return" /\ Len(handles) = calls[Len(calls)].base
      /\ UNCHANGED <<z3, handles, unwinding>>
  BY DEF IInv, Return, At, Top, Last, Base
<1>2. PICK m \in Nat, n \in Nat : m = Len(calls) /\ n = Len(handles) /\ m # 0
  BY <1>1, Lengths
<1>3. PICK c \in Seq(Frame) : c = calls'
  BY <1>1, FrontIs DEF Typed
<1>4. Len(c) = m - 1 /\ \A i \in 1 .. m - 1 : c[i] = calls[i]
  BY <1>1, <1>2, <1>3, FrontIs DEF Typed
<1>5. m - 1 = 0 <=> c = <<>>
  BY <1>3, <1>4, EmptySeq, LenProperties
<1>6. \/ m = 1 /\ n \in {0, 2}
      \/ m = 2 /\ n = 4 /\ Splitting(calls)
      \/ /\ m = 3 /\ n >= 7 /\ Splitting(calls)
         /\ calls[2].function = "compare" /\ calls[2].base = 4 /\ calls[2].at = "machines"
  <2>1. CASE InConstructor(calls, n)
    BY <1>1, <1>2, <2>1 DEF InConstructor
  <2>2. CASE InDestructor(calls, n)
    BY <1>1, <1>2, <2>2 DEF InDestructor
  <2>3. CASE InSplit(calls, n)
    BY <1>1, <1>2, <2>3 DEF InSplit
  <2>4. CASE InCompare(calls, n)
    BY <1>1, <1>2, <2>4 DEF InCompare
  <2>5. CASE InEquivalent(calls, n)
    BY <1>1, <1>2, <2>5 DEF InEquivalent
  <2> QED
    BY <1>1, <1>2, <2>1, <2>2, <2>3, <2>4, <2>5 DEF Places
<1>7. Places(c, n)
  <2>1. CASE m = 1
    BY <1>5, <1>6, <2>1 DEF Places
  <2>2. CASE m = 2
    BY <1>4, <1>6, <2>2 DEF Places, InSplit, Splitting
  <2>3. CASE m = 3
    BY <1>4, <1>6, <2>3 DEF Places, InCompare, Splitting
  <2> QED
    BY <1>6, <2>1, <2>2, <2>3
<1>8. (Constructing' <=> Constructing) \/ n <= 2
  BY <1>1, <1>2, <1>3, <1>4, <1>5, <1>6 DEF Constructing
<1>9. n >= 5 => Stack(c) = Stack(calls)
  <2>1. Stack(calls) = <<>>
    BY <1>1, <1>2, <1>6 DEF Stack
  <2> QED
    BY <1>4, <1>6, <2>1 DEF Stack
<1>10. InTime'
  BY <1>1, <1>2, <1>3, <1>4, <1>6 DEF IInv, InTime
<1> QED
  BY <1>1, <1>2, <1>3, <1>7, <1>8, <1>9, <1>10, OnlyCalls

LEMMA Calling ==
    ASSUME IInv, process_sequences \/ End
    PROVE  IInv'
<1>1. Typed /\ ~unwinding /\ Places(calls, Len(handles)) /\ UNCHANGED <<z3, handles, unwinding>>
  BY DEF IInv, process_sequences, End, At
<1>2. PICK m \in Nat, n \in Nat : m = Len(calls) /\ n = Len(handles) /\ (m = 0 <=> calls = <<>>)
  BY <1>1, Lengths
<1>3. calls \in Seq(Frame)
  BY <1>1 DEF Typed
<1>4. PICK c : c = calls'
  OBVIOUS
<1>5. CASE calls = <<>>
  <2>1. n = 2
    <3>1. n # 0
      BY <1>1, <1>2, <1>5, Lengths DEF process_sequences, End, At
    <3> QED
      BY <1>1, <1>2, <1>5, <3>1
         DEF Places, InConstructor, InDestructor, InSplit, InCompare, InEquivalent
  <2>2. /\ c \in Seq(Frame) /\ Len(c) = 1
        /\ \/ c[1].function = "split" /\ c[1].base = 2 /\ c[1].at = "solver"
           \/ c[1].function = "destructor" /\ c[1].base = 0 /\ c[1].at = "return"
    <3>1. CASE process_sequences
      <4>1. c = Append(calls, Entered("split", n, "solver"))
        BY <1>2, <1>4, <1>5, <3>1 DEF process_sequences, Enter, Entered, At
      <4> QED
        <5>1. n \in Nat /\ "split" \in Called /\ "solver" \in Labels
          BY DEF Called, Labels
        <5>2. /\ c \in Seq(Frame) /\ Len(c) = m + 1
              /\ c[m + 1].function = "split" /\ c[m + 1].base = n /\ c[m + 1].at = "solver"
          BY <1>2, <1>3, <4>1, <5>1, EnterIs
        <5> QED
          BY <1>2, <1>5, <2>1, <5>2
    <3>2. CASE End
      <4>1. c = Append(calls, Entered("destructor", 0, "return"))
        BY <1>4, <3>2 DEF End, Enter, Entered
      <4> QED
        <5>1. 0 \in Nat /\ "destructor" \in Called /\ "return" \in Labels
          BY DEF Called, Labels
        <5>2. /\ c \in Seq(Frame) /\ Len(c) = m + 1
              /\ c[m + 1].function = "destructor" /\ c[m + 1].base = 0 /\ c[m + 1].at = "return"
          BY <1>2, <1>3, <4>1, <5>1, EnterIs
        <5> QED
          BY <1>2, <1>5, <5>2
    <3> QED
      BY <3>1, <3>2
  <2>3. Places(c, n)
    BY <2>1, <2>2 DEF Places, InSplit, InDestructor
  <2>4. InTime'
    BY <1>4, <2>2 DEF InTime
  <2> QED
    BY <1>1, <1>2, <1>4, <2>1, <2>2, <2>3, <2>4, OnlyCalls
<1>6. CASE calls # <<>>
  <2>1. process_sequences /\ calls[m].at = "split"
    BY <1>2, <1>6 DEF process_sequences, End, At, Top, Last
  <2>2. m = 1 /\ n = 4 /\ Splitting(calls)
    BY <1>1, <1>2, <1>6, <2>1
       DEF Places, InConstructor, InDestructor, InSplit, InCompare, InEquivalent, Splitting
  <2>3. c = Append(calls, Entered("compare", n, "solver"))
    BY <1>2, <1>4, <1>6, <2>1 DEF process_sequences, Enter, Entered
  <2>4. /\ c \in Seq(Frame) /\ Len(c) = 2 /\ c[1] = calls[1]
        /\ c[2].function = "compare" /\ c[2].base = 4 /\ c[2].at = "solver"
    <3>1. n \in Nat /\ "compare" \in Called /\ "solver" \in Labels
      BY DEF Called, Labels
    <3>2. /\ c \in Seq(Frame) /\ Len(c) = m + 1 /\ \A i \in 1 .. m : c[i] = calls[i]
          /\ c[m + 1].function = "compare" /\ c[m + 1].base = n /\ c[m + 1].at = "solver"
      BY <1>2, <1>3, <2>3, <3>1, EnterIs
    <3> QED
      BY <2>2, <3>2
  <2>5. Places(c, n)
    BY <2>2, <2>4 DEF Places, InCompare, Splitting
  <2>6. c # <<>>
    BY <2>4, EmptySeq
  <2>7. Constructing' <=> Constructing
    BY <1>4, <1>6, <2>4, <2>6 DEF Constructing
  <2>8. InTime'
    BY <1>4, <2>4 DEF InTime
  <2> QED
    BY <1>1, <1>2, <1>4, <2>2, <2>4, <2>5, <2>7, <2>8, OnlyCalls
<1> QED
  BY <1>5, <1>6

LEMMA Leaves ==
    ASSUME IInv, Leave
    PROVE  IInv'
<1>1. Typed /\ ~unwinding /\ calls # <<>> /\ Places(calls, Len(handles))
      /\ calls[Len(calls)].at \in {"split", "machines"} /\ UNCHANGED <<z3, handles, unwinding>>
      /\ calls' = Gone(calls, "return")
  BY DEF IInv, Leave, At, Top, Last, GoTo, Gone
<1>2. PICK m \in Nat, n \in Nat : m = Len(calls) /\ n = Len(handles) /\ (m = 0 <=> calls = <<>>)
  BY <1>1, Lengths
<1>3. "return" \in Labels /\ calls \in Seq(Frame)
  BY <1>1 DEF Labels, Typed
<1>4. PICK c : c = calls'
  OBVIOUS
<1>5. /\ c \in Seq(Frame) /\ Len(c) = m
      /\ \A i \in 1 .. m :
           /\ c[i].function = calls[i].function /\ c[i].base = calls[i].base
           /\ c[i].at = IF i = m THEN "return" ELSE calls[i].at
  BY <1>1, <1>2, <1>3, <1>4, GoToIs
<1>6. \/ InSplit(calls, n) /\ m = 1 /\ n = 4
      \/ InCompare(calls, n) /\ m = 2 /\ n >= 6
  <2>1. ~InConstructor(calls, n) /\ ~InDestructor(calls, n) /\ ~InEquivalent(calls, n)
    BY <1>1, <1>2 DEF InConstructor, InDestructor, InEquivalent
  <2>2. InSplit(calls, n) => m = 1 /\ n = 4
    BY <1>1, <1>2 DEF InSplit
  <2>3. InCompare(calls, n) => m = 2 /\ n >= 6
    BY <1>1, <1>2 DEF InCompare
  <2> QED
    BY <1>1, <1>2, <2>1, <2>2, <2>3 DEF Places
<1>7. Places(c, n)
  <2>1. CASE InSplit(calls, n) /\ m = 1 /\ n = 4
    BY <1>2, <1>5, <2>1 DEF Places, InSplit
  <2>2. CASE InCompare(calls, n) /\ m = 2 /\ n >= 6
    BY <1>2, <1>5, <2>2 DEF Places, InCompare, Splitting
  <2> QED
    BY <1>6, <2>1, <2>2
<1>8. Constructing' <=> Constructing
  <2>1. c # <<>>
    BY <1>5, <1>6, EmptySeq
  <2> QED
    BY <1>1, <1>4, <1>5, <1>6, <2>1 DEF Constructing
<1>9. Stack(c) = Stack(calls)
  <2>1. Len(c) # 3 /\ Len(calls) # 3
    BY <1>2, <1>5, <1>6
  <2> QED
    BY <2>1 DEF Stack
<1>10. InTime'
  BY <1>4, <1>5, <1>6 DEF InTime
<1> QED
  BY <1>1, <1>2, <1>4, <1>5, <1>7, <1>8, <1>9, <1>10, OnlyCalls

LEMMA Asks ==
    ASSUME IInv, equivalent
    PROVE  IInv'
<1>1. Typed /\ ~unwinding /\ calls # <<>> /\ Places(calls, Len(handles))
      /\ calls[Len(calls)].at = "machines" /\ UNCHANGED <<z3, handles, unwinding>>
      /\ calls' = Append(calls, Entered("equivalent", Len(handles), "push")) /\ Own # {}
  BY DEF IInv, equivalent, At, Top, Last, Enter, Entered
<1>2. PICK m \in Nat, n \in Nat : m = Len(calls) /\ n = Len(handles) /\ (m = 0 <=> calls = <<>>)
  BY <1>1, Lengths
<1>3. "push" \in Labels /\ "equivalent" \in Called /\ calls \in Seq(Frame)
  BY <1>1 DEF Labels, Called, Typed
<1>4. PICK c : c = calls'
  OBVIOUS
<1>5. /\ c \in Seq(Frame) /\ Len(c) = m + 1 /\ \A i \in 1 .. m : c[i] = calls[i]
      /\ c[m + 1].function = "equivalent" /\ c[m + 1].base = n /\ c[m + 1].at = "push"
  BY <1>1, <1>2, <1>3, <1>4, EnterIs
<1>6. InCompare(calls, n) /\ m = 2 /\ n >= 6
  <2>1. ~InConstructor(calls, n) /\ ~InDestructor(calls, n) /\ ~InEquivalent(calls, n)
        /\ ~InSplit(calls, n)
    BY <1>1, <1>2 DEF InConstructor, InDestructor, InEquivalent, InSplit
  <2>2. InCompare(calls, n) => m = 2 /\ n >= 6
    BY <1>1, <1>2 DEF InCompare
  <2> QED
    BY <1>1, <1>2, <2>1, <2>2 DEF Places
<1>7. n >= 7
  <2>1. PICK k \in 1 .. n : handles[k].class = "expr"
    BY <1>1, <1>2 DEF Own
  <2>2. ~Constructing
    BY <1>6 DEF InCompare, Splitting, Constructing
  <2>3. Class(k) = "expr"
    BY <1>2, <2>1 DEF IInv, Placed
  <2>4. k \notin 1 .. 6
    BY <2>2, <2>3 DEF Class
  <2> QED
    BY <2>1, <2>4
<1>8. Places(c, n)
  BY <1>1, <1>2, <1>5, <1>6, <1>7 DEF Places, InCompare, InEquivalent, Splitting
<1>9. Constructing' <=> Constructing
  <2>1. Len(c) = 3
    BY <1>5, <1>6
  <2>2. c # <<>>
    BY <2>1
  <2> QED
    BY <1>1, <1>4, <1>5, <1>6, <2>2 DEF Constructing
<1>10. Stack(c) = Stack(calls)
  BY <1>2, <1>5, <1>6 DEF Stack
<1>11. InTime'
  BY <1>1, <1>2, <1>4, <1>5, <1>6 DEF IInv, InTime
<1> QED
  BY <1>1, <1>2, <1>4, <1>5, <1>8, <1>9, <1>10, <1>11, OnlyCalls

-----------------------------------------------------------------------------
(* The actions that make a handle.                                         *)

\* Where an object is that has the k-th place.
Place(k, class, o) ==
    /\ class = Class(k)
    /\ o \in CASE k = 1 -> {Null}
               [] k \in 2 .. 6 -> {<<Class(k), k>>}
               [] OTHER -> Term \cup {Null}
    /\ Constructing => k <= 3

LEMMA AddsHandle ==
    ASSUME IInv, ~unwinding, UNCHANGED unwinding,
           NEW n \in Nat, n = Len(handles),
           NEW h \in Handle, handles' = Append(handles, h), Place(n + 1, h.class, h.obj)',
           (Constructing' <=> Constructing) \/ n = 0,
           IsZ3(z3'), z3'.open, ~z3'.misuse,
           z3'.refs = IF h.obj = Null THEN z3.refs ELSE z3.refs (+) One(h.obj),
           z3'.asserted = IF h.class = "solver" THEN Started(z3.asserted, h.obj)
                                                ELSE z3.asserted,
           calls' \in Seq(Frame), Places(calls', n + 1),
           n >= 5 => Stack(calls') = Stack(calls), n = 4 => Stack(calls') = <<>>,
           InTime'
    PROVE  IInv'
<1>1. handles \in Seq(Handle)
  BY DEF IInv, Typed
<1>2. PICK hs : hs = handles'
  OBVIOUS
<1>3. /\ hs \in Seq(Handle) /\ Len(hs) = n + 1 /\ hs[n + 1] = h
      /\ \A k \in 1 .. n : hs[k] = handles[k]
  BY <1>1, <1>2, AppendProperties
<1>4. Typed'
  BY <1>2, <1>3 DEF IInv, Typed
<1>5. Placed'
  <2>1. \A k \in 1 .. n + 1 : Place(k, hs[k].class, hs[k].obj)'
    <3> SUFFICES ASSUME NEW k \in 1 .. n + 1 PROVE Place(k, hs[k].class, hs[k].obj)'
      OBVIOUS
    <3>1. CASE k = n + 1
      BY <1>3, <3>1
    <3>2. CASE k # n + 1
      <4>1. k \in 1 .. n /\ n # 0 /\ hs[k] = handles[k]
        BY <1>3, <3>2
      <4>2. Place(k, handles[k].class, handles[k].obj)
        BY <4>1 DEF IInv, Placed, Place
      <4> QED
        BY <4>1, <4>2 DEF Place, Class
    <3> QED
      BY <3>1, <3>2
  <2> QED
    BY <1>2, <1>3, <2>1 DEF Placed, Place
<1>6. n >= 5 => h.class # "solver"
  BY DEF Place, Class
<1>7. n = 4 => h.class = "solver" /\ h.obj = Comparer
  BY DEF Place, Class, Comparer
<1>8. \A o : (h.class = "solver" /\ o = h.obj) \/ o \in DOMAIN z3.asserted =>
        /\ o \in DOMAIN z3'.asserted
        /\ z3'.asserted[o] = IF h.class = "solver" /\ o = h.obj THEN <<>> ELSE z3.asserted[o]
  BY DEF Started
<1>9. Stacked'
  <2>1. \A k \in 1 .. n + 1 : hs[k].class = "solver" =>
            /\ hs[k].obj \in DOMAIN z3'.asserted
            /\ k # 5 => z3'.asserted[hs[k].obj] = <<>>
    <3> SUFFICES ASSUME NEW k \in 1 .. n + 1, hs[k].class = "solver"
                 PROVE  /\ hs[k].obj \in DOMAIN z3'.asserted
                        /\ k # 5 => z3'.asserted[hs[k].obj] = <<>>
      OBVIOUS
    <3>1. CASE k = n + 1
      BY <1>3, <1>8, <3>1
    <3>2. CASE k # n + 1
      <4>1. k \in 1 .. n /\ hs[k] = handles[k]
        BY <1>3, <3>2
      <4>2. /\ handles[k].obj \in DOMAIN z3.asserted
            /\ k # 5 => z3.asserted[handles[k].obj] = <<>>
        BY <4>1 DEF IInv, Stacked
      <4> QED
        BY <1>8, <4>1, <4>2
    <3> QED
      BY <3>1, <3>2
  <2>2. CASE n >= 5
    <3>1. z3'.asserted = z3.asserted
      BY <1>6, <2>2
    <3> QED
      BY <1>2, <1>3, <2>1, <2>2, <3>1 DEF IInv, Stacked
  <2>3. CASE n = 4
    <3>1. z3'.asserted[Comparer] = <<>> /\ Stack(calls') = <<>>
      BY <1>7, <1>8, <2>3
    <3> QED
      BY <1>2, <1>3, <2>1, <3>1 DEF Stacked
  <2>4. CASE n < 4
    BY <1>2, <1>3, <2>1, <2>4 DEF Stacked
  <2> QED
    BY <2>2, <2>3, <2>4
<1>10. Balanced'
  <2>1. IsRefs(z3.refs) /\ \A o : o # Null =>
          Count(z3.refs, o) = Held(handles, o) + AssertedBy(z3, n, o)
    BY DEF IInv, Balanced
  <2>2. /\ IsRefs(z3'.refs)
        /\ \A o : o # Null => Count(z3'.refs, o) = Count(z3.refs, o) + Unit(h.obj, o)
    <3>1. CASE h.obj = Null
      <4>1. \A o : o # Null => Unit(h.obj, o) = 0 /\ Count(z3.refs, o) \in Nat
        BY <2>1, <3>1, CountIsNat DEF Unit
      <4> QED
        BY <2>1, <3>1, <4>1
    <3>2. CASE h.obj # Null
      BY <2>1, <3>2, CountAdded
    <3> QED
      BY <3>1, <3>2
  <2>3. \A o : Held(hs, o) = Held(handles, o) + Unit(h.obj, o) /\ Held(handles, o) \in Nat
    BY <1>1, <1>2, HeldAppended, HeldIsNat
  <2>4. \A o : AssertedBy(z3', n + 1, o) = AssertedBy(z3, n, o) /\ AssertedBy(z3, n, o) \in Nat
    <3>1. CASE n >= 5
      BY <1>6, <3>1 DEF AssertedBy
    <3>2. CASE n = 4
      <4>1. z3'.asserted[Comparer] = <<>>
        BY <1>7, <1>8, <3>2
      <4>2. \A o : z3'.asserted[Comparer] # << <<o>> >>
        BY <4>1, NotNone
      <4> QED
        BY <3>2, <4>2 DEF AssertedBy
    <3>3. CASE n < 4
      BY <3>3 DEF AssertedBy
    <3> QED
      BY <3>1, <3>2, <3>3
  <2>5. \A o : Unit(h.obj, o) \in Nat
    BY DEF Unit
  <2>6. \A o : o # Null => Count(z3'.refs, o) = Held(hs, o) + AssertedBy(z3', n + 1, o)
    <3> SUFFICES ASSUME NEW o, o # Null
                 PROVE  Count(z3'.refs, o) = Held(hs, o) + AssertedBy(z3', n + 1, o)
      OBVIOUS
    <3>1. PICK a \in Nat, b \in Nat, d \in Nat :
            a = Held(handles, o) /\ b = AssertedBy(z3, n, o) /\ d = Unit(h.obj, o)
      BY <2>3, <2>4, <2>5
    <3>2. Count(z3'.refs, o) = a + b + d
      BY <2>1, <2>2, <3>1
    <3>3. Held(hs, o) + AssertedBy(z3', n + 1, o) = a + d + b
      BY <2>3, <2>4, <3>1
    <3> QED
      BY <3>2, <3>3
  <2> QED
    BY <1>2, <1>3, <2>2, <2>6 DEF Balanced
<1>11. (~unwinding => Places(calls, Len(handles)))' /\ (handles # <<>> => z3.open)'
  BY <1>2, <1>3
<1> QED
  BY <1>4, <1>5, <1>9, <1>10, <1>11 DEF IInv

LEMMA MakesContext ==
    ASSUME IInv, ThreadContext
    PROVE  IInv'
<1>1. /\ Typed /\ ~unwinding /\ UNCHANGED unwinding /\ calls = <<>> /\ handles = <<>>
      /\ z3' = [z3 EXCEPT !.open = TRUE] /\ ~z3.misuse /\ IsZ3(z3)
      /\ calls' = Append(calls, Entered("constructor", 2, "solver"))
  BY DEF IInv, Typed, ThreadContext, Construct, Z3_mk_context_rc, Enter, Entered
<1>2. PICK h : h = [class |-> "context", obj |-> Null]
  OBVIOUS
<1>3. h \in Handle /\ h.class = "context" /\ h.obj = Null /\ handles' = Append(handles, h)
  BY <1>2 DEF Handle, ThreadContext, Construct
<1>4. /\ IsZ3(z3') /\ z3'.open /\ ~z3'.misuse
      /\ z3'.refs = z3.refs /\ z3'.asserted = z3.asserted
  BY <1>1 DEF IsZ3
<1>5. PICK c : c = calls'
  OBVIOUS
<1>6. /\ c \in Seq(Frame) /\ Len(c) = 1
      /\ c[1].function = "constructor" /\ c[1].base = 2 /\ c[1].at = "solver"
  <2>1. 2 \in Nat /\ "constructor" \in Called /\ "solver" \in Labels
    BY DEF Called, Labels
  <2>2. PICK m \in Nat : m = Len(calls)
    BY <1>1
  <2>3. /\ c \in Seq(Frame) /\ Len(c) = m + 1 /\ c[m + 1].function = "constructor"
        /\ c[m + 1].base = 2 /\ c[m + 1].at = "solver"
    <3>1. calls \in Seq(Frame) /\ c = Append(calls, Entered("constructor", 2, "solver"))
      BY <1>1, <1>5 DEF Typed
    <3> QED
      BY <2>1, <2>2, <3>1, EnterIs
  <2>4. m = 0
    BY <1>1, <2>2
  <2> QED
    BY <2>3, <2>4
<1>7. PICK n \in Nat : n = 0 /\ n = Len(handles) /\ n + 1 = 1
  BY <1>1
<1>8. Places(c, n + 1)
  BY <1>6, <1>7 DEF Places, InConstructor
<1>9. InTime'
  BY <1>5, <1>6 DEF InTime
<1>10. Place(n + 1, h.class, h.obj)'
  BY <1>3, <1>7 DEF Place, Class
<1>11. /\ z3'.refs = IF h.obj = Null THEN z3.refs ELSE z3.refs (+) One(h.obj)
       /\ z3'.asserted = IF h.class = "solver" THEN Started(z3.asserted, h.obj) ELSE z3.asserted
  BY <1>3, <1>4
<1>12. ~(n >= 5) /\ n # 4
  BY <1>7
<1> QED
  BY <1>1, <1>3, <1>4, <1>5, <1>6, <1>7, <1>8, <1>9, <1>10, <1>11, <1>12, AddsHandle

LEMMA MakesSolver ==
    ASSUME IInv, NewSolver
    PROVE  IInv'
<1>1. /\ Typed /\ ~unwinding /\ UNCHANGED unwinding /\ calls # <<>>
      /\ Places(calls, Len(handles)) /\ calls[Len(calls)].at = "solver"
      /\ z3' = Z3_mk_solver(z3, New("solver")) /\ ~z3.misuse /\ IsZ3(z3)
      /\ calls' = Gone(calls, "params")
  BY DEF IInv, Typed, NewSolver, Construct, At, Top, Last, GoTo, Gone
<1>2. PICK m \in Nat, n \in Nat : m = Len(calls) /\ n = Len(handles) /\ (m = 0 <=> calls = <<>>)
                                  /\ (n = 0 <=> handles = <<>>)
  BY <1>1, Lengths
<1>3. PICK s : s = <<"solver", n + 1>>
  OBVIOUS
<1>4. PICK h : h = [class |-> "solver", obj |-> s]
  OBVIOUS
<1>5. h \in Handle /\ h.class = "solver" /\ h.obj = s /\ handles' = Append(handles, h)
  BY <1>2, <1>3, <1>4 DEF Handle, NewSolver, Construct, New
<1>6. PICK c : c = calls'
  OBVIOUS
<1>7. /\ c \in Seq(Frame) /\ Len(c) = m
      /\ \A i \in 1 .. m :
           /\ c[i].function = calls[i].function /\ c[i].base = calls[i].base
           /\ c[i].at = IF i = m THEN "params" ELSE calls[i].at
  <2>1. "params" \in Labels /\ calls \in Seq(Frame) /\ calls # <<>>
        /\ c = Gone(calls, "params")
    BY <1>1, <1>6 DEF Labels, Typed
  <2> QED
    BY <1>2, <2>1, GoToIs
<1>8. \/ InConstructor(calls, n) /\ m = 1 /\ n = 1
      \/ InSplit(calls, n) /\ m = 1 /\ n = 2
      \/ InCompare(calls, n) /\ m = 2 /\ n = 4
  <2>1. ~InDestructor(calls, n) /\ ~InEquivalent(calls, n)
    BY <1>1, <1>2 DEF InDestructor, InEquivalent
  <2>2. InConstructor(calls, n) => m = 1 /\ n = 1
    BY <1>1, <1>2 DEF InConstructor
  <2>3. InSplit(calls, n) => m = 1 /\ n = 2
    BY <1>1, <1>2 DEF InSplit
  <2>4. InCompare(calls, n) => m = 2 /\ n = 4
    BY <1>1, <1>2 DEF InCompare
  <2> QED
    BY <1>1, <1>2, <2>1, <2>2, <2>3, <2>4 DEF Places
<1>9. Places(c, n + 1)
  <2>1. CASE InConstructor(calls, n) /\ m = 1 /\ n = 1
    BY <1>7, <2>1 DEF Places, InConstructor
  <2>2. CASE InSplit(calls, n) /\ m = 1 /\ n = 2
    BY <1>7, <2>2 DEF Places, InSplit
  <2>3. CASE InCompare(calls, n) /\ m = 2 /\ n = 4
    BY <1>7, <2>3 DEF Places, InCompare, Splitting
  <2> QED
    BY <1>8, <2>1, <2>2, <2>3
<1>10. Constructing' <=> Constructing
  <2>1. c # <<>>
    BY <1>7, <1>8, EmptySeq
  <2> QED
    BY <1>1, <1>6, <1>7, <1>8, <2>1 DEF Constructing
<1>11. Place(n + 1, h.class, h.obj)'
  <2>1. n = 1 \/ n = 2 \/ n = 4
    BY <1>8
  <2>2. n = 1 => Constructing'
    BY <1>1, <1>8, <1>10 DEF InConstructor, InSplit, InCompare, Constructing
  <2>3. n # 1 => ~Constructing'
    BY <1>1, <1>8, <1>10 DEF InConstructor, InSplit, InCompare, Splitting, Constructing
  <2>4. Class(n + 1)' = "solver"
    BY <2>1, <2>3 DEF Class
  <2> QED
    BY <1>3, <1>5, <2>1, <2>2, <2>3, <2>4 DEF Place
<1>12. z3.open /\ s # Null
  <2>1. z3.open
    BY <1>2, <1>8 DEF IInv
  <2>2. s \in {"solver", "params"} \X Nat
    BY <1>2, <1>3
  <2> QED
    BY <2>1, <2>2, TermsAreNoSolvers
<1>13. /\ IsZ3(z3') /\ z3'.open /\ ~z3'.misuse
       /\ z3'.refs = z3.refs (+) One(s) /\ z3'.asserted = Started(z3.asserted, s)
  BY <1>1, <1>2, <1>3, <1>12 DEF Z3_mk_solver, Made, New, IsZ3
<1>14. InTime'
  BY <1>6, <1>7, <1>8 DEF InTime
<1>15. n = 4 => Stack(c) = <<>>
  <2>1. Len(c) # 3
    BY <1>7, <1>8
  <2> QED
    BY <2>1 DEF Stack
<1>16. ~(n >= 5)
  BY <1>8
<1> QED
  BY <1>1, <1>2, <1>5, <1>6, <1>7, <1>9, <1>10, <1>11, <1>12, <1>13, <1>14, <1>15, <1>16, AddsHandle


LEMMA MakesParams ==
    ASSUME IInv, NewParams
    PROVE  IInv'
<1>1. /\ Typed /\ ~unwinding /\ UNCHANGED unwinding /\ calls # <<>>
      /\ Places(calls, Len(handles)) /\ calls[Len(calls)].at = "params"
      /\ z3' = Z3_mk_params(z3, New("params")) /\ ~z3.misuse /\ IsZ3(z3)
      /\ calls' = Gone(calls, "set")
  BY DEF IInv, Typed, NewParams, Construct, At, Top, Last, GoTo, Gone
<1>2. PICK m \in Nat, n \in Nat : m = Len(calls) /\ n = Len(handles) /\ (m = 0 <=> calls = <<>>)
                                  /\ (n = 0 <=> handles = <<>>)
  BY <1>1, Lengths
<1>3. PICK s : s = <<"params", n + 1>>
  OBVIOUS
<1>4. PICK h : h = [class |-> "params", obj |-> s]
  OBVIOUS
<1>5. h \in Handle /\ h.class = "params" /\ h.obj = s /\ handles' = Append(handles, h)
  BY <1>2, <1>3, <1>4 DEF Handle, NewParams, Construct, New
<1>6. PICK c : c = calls'
  OBVIOUS
<1>7. /\ c \in Seq(Frame) /\ Len(c) = m
      /\ \A i \in 1 .. m :
           /\ c[i].function = calls[i].function /\ c[i].base = calls[i].base
           /\ c[i].at = IF i = m THEN "set" ELSE calls[i].at
  <2>1. "set" \in Labels /\ calls \in Seq(Frame) /\ calls # <<>>
        /\ c = Gone(calls, "set")
    BY <1>1, <1>6 DEF Labels, Typed
  <2> QED
    BY <1>2, <2>1, GoToIs
<1>8. \/ InConstructor(calls, n) /\ m = 1 /\ n = 2
      \/ InSplit(calls, n) /\ m = 1 /\ n = 3
      \/ InCompare(calls, n) /\ m = 2 /\ n = 5
  <2>1. ~InDestructor(calls, n) /\ ~InEquivalent(calls, n)
    BY <1>1, <1>2 DEF InDestructor, InEquivalent
  <2>2. InConstructor(calls, n) => m = 1 /\ n = 2
    BY <1>1, <1>2 DEF InConstructor
  <2>3. InSplit(calls, n) => m = 1 /\ n = 3
    BY <1>1, <1>2 DEF InSplit
  <2>4. InCompare(calls, n) => m = 2 /\ n = 5
    BY <1>1, <1>2 DEF InCompare
  <2> QED
    BY <1>1, <1>2, <2>1, <2>2, <2>3, <2>4 DEF Places
<1>9. Places(c, n + 1)
  <2>1. CASE InConstructor(calls, n) /\ m = 1 /\ n = 2
    BY <1>7, <2>1 DEF Places, InConstructor
  <2>2. CASE InSplit(calls, n) /\ m = 1 /\ n = 3
    BY <1>7, <2>2 DEF Places, InSplit
  <2>3. CASE InCompare(calls, n) /\ m = 2 /\ n = 5
    BY <1>7, <2>3 DEF Places, InCompare, Splitting
  <2> QED
    BY <1>8, <2>1, <2>2, <2>3
<1>10. Constructing' <=> Constructing
  <2>1. c # <<>>
    BY <1>7, <1>8, EmptySeq
  <2> QED
    BY <1>1, <1>6, <1>7, <1>8, <2>1 DEF Constructing
<1>11. Place(n + 1, h.class, h.obj)'
  <2>1. n = 2 \/ n = 3 \/ n = 5
    BY <1>8
  <2>2. n = 2 => Constructing'
    BY <1>1, <1>8, <1>10 DEF InConstructor, InSplit, InCompare, Constructing
  <2>3. n # 2 => ~Constructing'
    BY <1>1, <1>8, <1>10 DEF InConstructor, InSplit, InCompare, Splitting, Constructing
  <2>4. Class(n + 1)' = "params"
    BY <2>1, <2>2, <2>3 DEF Class
  <2> QED
    BY <1>3, <1>5, <2>1, <2>2, <2>3, <2>4 DEF Place
<1>12. z3.open /\ s # Null
  <2>1. z3.open
    BY <1>2, <1>8 DEF IInv
  <2>2. s \in {"solver", "params"} \X Nat
    BY <1>2, <1>3
  <2> QED
    BY <2>1, <2>2, TermsAreNoSolvers
<1>13. /\ IsZ3(z3') /\ z3'.open /\ ~z3'.misuse
       /\ z3'.refs = z3.refs (+) One(s) /\ z3'.asserted = z3.asserted
  BY <1>1, <1>2, <1>3, <1>12 DEF Z3_mk_params, Made, New, IsZ3
<1>14. InTime'
  BY <1>6, <1>7, <1>8 DEF InTime
<1>15. n >= 5 => Stack(c) = Stack(calls)
  <2>1. Len(c) # 3 /\ Len(calls) # 3
    BY <1>2, <1>7, <1>8
  <2> QED
    BY <2>1 DEF Stack
<1>16. n # 4
  BY <1>8
<1> QED
  BY <1>1, <1>2, <1>5, <1>6, <1>7, <1>9, <1>10, <1>11, <1>12, <1>13, <1>14, <1>15, <1>16, AddsHandle

\* The terms come after everything else.
LEMMA OwnIs ==
    ASSUME IInv, NEW i \in Own
    PROVE  i \in 1 .. Len(handles) /\ i >= 7 /\ handles[i].obj \in Term \cup {Null}
<1>1. i \in 1 .. Len(handles) /\ handles[i].class = "expr" /\ i \in Int
  BY Lengths DEF Own, IInv
<1>2. Class(i) = "expr" /\ (Constructing => i <= 3)
  BY <1>1 DEF IInv, Placed
<1>3. i >= 7
  BY <1>1, <1>2 DEF Class
<1>4. handles[i].obj \in CASE i = 1 -> {Null}
                           [] i \in 2 .. 6 -> {<<Class(i), i>>}
                           [] OTHER -> Term \cup {Null}
  BY <1>1 DEF IInv, Placed
<1>5. i # 1 /\ i \notin 2 .. 6
  BY <1>1, <1>3
<1> QED
  BY <1>1, <1>3, <1>4, <1>5

LEMMA Bases ==
    ASSUME Typed, NEW n \in Nat, InEquivalent(calls, n)
    PROVE  calls[3].base \in Nat /\ n >= 7
<1>1. Len(calls) = 3 /\ calls \in Seq(Frame)
  BY DEF Typed, InEquivalent
<1>2. calls[3] \in Frame
  BY <1>1, ElementOfSeq
<1>3. PICK b \in Nat : b = calls[3].base
  BY <1>2 DEF Frame
<1>4. b >= 7 /\ n >= b
  BY <1>3 DEF InEquivalent
<1> QED
  BY <1>3, <1>4

LEMMA AddsTerm ==
    ASSUME IInv, At({"machines", "query"}), UNCHANGED <<calls, unwinding>>,
           NEW o \in Term \cup {Null},
           handles' = Append(handles, [class |-> "expr", obj |-> o]),
           z3' = IF o = Null THEN z3 ELSE With(z3, z3.refs (+) One(o))
    PROVE  IInv'
<1>1. /\ Typed /\ ~unwinding /\ calls # <<>> /\ Places(calls, Len(handles))
      /\ calls[Len(calls)].at \in {"machines", "query"} /\ ~z3.misuse /\ IsZ3(z3)
  BY DEF IInv, Typed, At, Top, Last
<1>2. PICK m \in Nat, n \in Nat : m = Len(calls) /\ n = Len(handles) /\ (m = 0 <=> calls = <<>>)
                                  /\ (n = 0 <=> handles = <<>>)
  BY <1>1, Lengths
<1>3. PICK h : h = [class |-> "expr", obj |-> o]
  OBVIOUS
<1>4. h \in Handle /\ h.class = "expr" /\ h.obj = o /\ handles' = Append(handles, h)
  BY <1>3 DEF Handle
<1>5. \/ InCompare(calls, n) /\ n >= 6
      \/ InEquivalent(calls, n) /\ n >= 7
  <2>1. ~InConstructor(calls, n) /\ ~InDestructor(calls, n) /\ ~InSplit(calls, n)
    BY <1>1, <1>2 DEF InConstructor, InDestructor, InSplit
  <2>2. InCompare(calls, n) => n >= 6
    BY <1>1, <1>2 DEF InCompare
  <2>3. InEquivalent(calls, n) => n >= 7
    BY <1>1, Bases
  <2> QED
    BY <1>1, <1>2, <2>1, <2>2, <2>3 DEF Places
<1>6. Places(calls', n + 1)
  <2>1. CASE InCompare(calls, n) /\ n >= 6
    BY <1>1, <1>2, <2>1 DEF Places, InCompare
  <2>2. CASE InEquivalent(calls, n) /\ n >= 7
    <3>1. PICK b \in Nat : b = calls[3].base
      BY <1>1, <2>2, Bases
    <3> QED
      BY <1>1, <1>2, <2>2, <3>1 DEF Places, InEquivalent
  <2> QED
    BY <1>5, <2>1, <2>2
<1>7. ~Constructing
  BY <1>1, <1>5 DEF InCompare, InEquivalent, Splitting, Constructing
<1>8. (Constructing' <=> Constructing) /\ Stack(calls') = Stack(calls) /\ InTime'
  <2>1. z3'.timed = z3.timed
    BY <1>1, WithIs
  <2> QED
    BY <2>1 DEF Constructing, IInv, InTime
<1>9. Place(n + 1, h.class, h.obj)'
  BY <1>4, <1>5, <1>7, <1>8 DEF Place, Class
<1>10. z3.open
  BY <1>2, <1>5 DEF IInv
<1>11. /\ IsZ3(z3') /\ z3'.open /\ ~z3'.misuse
       /\ z3'.refs = IF h.obj = Null THEN z3.refs ELSE z3.refs (+) One(h.obj)
       /\ z3'.asserted = IF h.class = "solver" THEN Started(z3.asserted, h.obj) ELSE z3.asserted
  BY <1>1, <1>4, <1>10, WithIs
<1>12. n >= 5 /\ n # 4 /\ calls' \in Seq(Frame)
  BY <1>1, <1>5 DEF Typed
<1> QED
  BY <1>1, <1>2, <1>4, <1>6, <1>8, <1>9, <1>11, <1>12, AddsHandle

LEMMA Operates ==
    ASSUME IInv, Operator
    PROVE  IInv'
<1>1. At({"machines", "query"}) /\ IsZ3(z3) /\ (handles # <<>> => z3.open)
  BY DEF Operator, IInv, Typed
<1>2. ~Throw => z3.open
  <2>1. handles # <<>>
    <3>1. ~unwinding /\ calls # <<>> /\ Places(calls, Len(handles)) /\ Typed
          /\ calls[Len(calls)].at \in {"machines", "query"}
      BY <1>1 DEF At, Top, Last, IInv
    <3>2. PICK m \in Nat : m = Len(calls) /\ m # 0
      BY <3>1, Lengths
    <3>3. Len(handles) # 0
      <4>1. InCompare(calls, Len(handles)) \/ InEquivalent(calls, Len(handles))
        BY <3>1, <3>2 DEF Places, InConstructor, InDestructor, InSplit
      <4>2. ~InCompare(calls, 0)
        BY <3>1 DEF InCompare
      <4>3. ~InEquivalent(calls, 0)
        BY <3>1, Bases
      <4> QED
        BY <4>1, <4>2, <4>3
    <3> QED
      BY <3>3
  <2> QED
    BY <1>1, <2>1
<1>3. CASE Throw
  BY <1>3, Throws
<1>4. CASE ~Throw /\ \E t \in Term : Construct("expr", t, Made(z3, t)) /\ UNCHANGED <<calls, unwinding>>
  <2>1. PICK t \in Term : Construct("expr", t, Made(z3, t)) /\ UNCHANGED <<calls, unwinding>>
    BY <1>4
  <2>2. t \in Term \cup {Null} /\ t # Null
    BY NullIsNoTerm
  <2>3. z3' = IF t = Null THEN z3 ELSE With(z3, z3.refs (+) One(t))
    BY <1>1, <1>2, <1>4, <2>1, <2>2, MadeIs DEF Construct
  <2> QED
    BY <1>1, <2>1, <2>2, <2>3, AddsTerm DEF Construct
<1>5. CASE ~Throw /\ Construct("expr", Null, Z3_inc_ref(z3, Null)) /\ UNCHANGED <<calls, unwinding>>
  <2>1. z3' = z3 /\ Null \in Term \cup {Null}
    BY <1>2, <1>5 DEF Construct, Z3_inc_ref, Checked, IsLive
  <2> QED
    BY <1>1, <1>5, <2>1, AddsTerm DEF Construct
<1> QED
  BY <1>3, <1>4, <1>5 DEF Operator

LEMMA Duplicates ==
    ASSUME IInv, Copy
    PROVE  IInv'
<1>1. PICK i \in Own : Construct("expr", handles[i].obj, Z3_inc_ref(z3, handles[i].obj))
  BY DEF Copy
<1>2. PICK o : o = handles[i].obj
  OBVIOUS
<1>3. i \in 1 .. Len(handles) /\ o \in Term \cup {Null}
  BY <1>2, OwnIs
<1>4. z3.open /\ IsZ3(z3)
  <2>1. handles # <<>>
    BY <1>3
  <2> QED
    BY <2>1 DEF IInv, Typed
<1>5. z3' = IF o = Null THEN z3 ELSE With(z3, z3.refs (+) One(o))
  <2>1. CASE o = Null
    BY <1>1, <1>2, <1>4, <2>1 DEF Construct, Z3_inc_ref, Checked, IsLive
  <2>2. CASE o # Null
    <3>1. o \in DOMAIN z3.refs
      BY <1>2, <1>3, <2>2, HandleIsLive
    <3> QED
      BY <1>1, <1>2, <1>4, <2>2, <3>1, IncRefIs DEF Construct
  <2> QED
    BY <2>1, <2>2
<1>6. At({"machines", "query"}) /\ UNCHANGED <<calls, unwinding>>
  BY DEF Copy, At
<1> QED
  BY <1>1, <1>2, <1>3, <1>5, <1>6, AddsTerm DEF Construct

-----------------------------------------------------------------------------
(* The actions that tell the solver something.                             *)

LEMMA OfOne ==
    ASSUME NEW x
    PROVE  Front(<<x>>) = <<>> /\ Last(<<x>>) = x /\ Append(<<>>, x) = <<x>>
<1>1. Len(<<x>>) = 1 /\ <<x>>[1] = x
  OBVIOUS
<1>2. Front(<<x>>) = SubSeq(<<x>>, 1, 0)
  BY <1>1 DEF Front
<1>3. SubSeq(<<x>>, 1, 0) = <<>>
  OBVIOUS
<1> QED
  BY <1>1, <1>2, <1>3 DEF Last

LEMMA SetsTimeout ==
    ASSUME IInv, SetTimeout
    PROVE  IInv'
<1>1. /\ Typed /\ ~unwinding /\ calls # <<>> /\ Places(calls, Len(handles))
      /\ calls[Len(calls)].at = "set" /\ ~z3.misuse /\ IsZ3(z3)
  BY DEF IInv, Typed, SetTimeout, At, Top, Last
<1>2. CASE Throw
  BY <1>2, Throws
<1>3. CASE ~Throw
  <2>1. PICK m \in Nat, n \in Nat : m = Len(calls) /\ n = Len(handles) /\ (m = 0 <=> calls = <<>>)
                                    /\ (n = 0 <=> handles = <<>>)
    BY <1>1, Lengths
  <2>2. PICK p, s : p = handles[n].obj /\ s = solver
    OBVIOUS
  <2>3. PICK l : l = CASE Top.function = "constructor" -> "return"
                       [] Top.function = "split"       -> "split"
                       [] OTHER                        -> "machines"
    OBVIOUS
  <2>4. /\ z3' = Z3_solver_set_params(Z3_params_set_uint(z3, p), s, p)
        /\ UNCHANGED <<handles, unwinding>> /\ calls' = Gone(calls, l)
    BY <1>3, <2>1, <2>2, <2>3 DEF SetTimeout, Last, GoTo, Gone
  <2>5. \/ InConstructor(calls, n) /\ m = 1 /\ n = 3 /\ l = "return"
        \/ InSplit(calls, n) /\ m = 1 /\ n = 4 /\ l = "split"
        \/ InCompare(calls, n) /\ m = 2 /\ n = 6 /\ l = "machines"
    <3>1. ~InDestructor(calls, n) /\ ~InEquivalent(calls, n)
      BY <1>1, <2>1 DEF InDestructor, InEquivalent
    <3>2. InConstructor(calls, n) => m = 1 /\ n = 3 /\ l = "return"
      BY <1>1, <2>1, <2>3 DEF InConstructor, Top, Last
    <3>3. InSplit(calls, n) => m = 1 /\ n = 4 /\ l = "split"
      BY <1>1, <2>1, <2>3 DEF InSplit, Top, Last
    <3>4. InCompare(calls, n) => m = 2 /\ n = 6 /\ l = "machines"
      BY <1>1, <2>1, <2>3 DEF InCompare, Top, Last
    <3> QED
      BY <1>1, <2>1, <3>1, <3>2, <3>3, <3>4 DEF Places
  <2>6. PICK c : c = calls'
    OBVIOUS
  <2>7. /\ c \in Seq(Frame) /\ Len(c) = m
        /\ \A i \in 1 .. m :
             /\ c[i].function = calls[i].function /\ c[i].base = calls[i].base
             /\ c[i].at = IF i = m THEN l ELSE calls[i].at
    <3>1. l \in Labels /\ calls \in Seq(Frame)
      BY <1>1, <2>5 DEF Labels, Typed
    <3>2. calls # <<>> /\ c = Gone(calls, l)
      BY <1>1, <2>4, <2>6
    <3> QED
      BY <2>1, <3>1, <3>2, GoToIs
  <2>8. Places(c, n)
    <3>1. CASE InConstructor(calls, n) /\ m = 1 /\ n = 3 /\ l = "return"
      BY <2>7, <3>1 DEF Places, InConstructor
    <3>2. CASE InSplit(calls, n) /\ m = 1 /\ n = 4 /\ l = "split"
      BY <2>7, <3>2 DEF Places, InSplit
    <3>3. CASE InCompare(calls, n) /\ m = 2 /\ n = 6 /\ l = "machines"
      BY <2>7, <3>3 DEF Places, InCompare, Splitting
    <3> QED
      BY <2>5, <3>1, <3>2, <3>3
  <2>9. (Constructing <=> n = 3) /\ (Constructing' <=> Constructing)
    <3>1. c # <<>>
      BY <2>5, <2>7, EmptySeq
    <3>2. Constructing <=> n = 3
      BY <1>1, <2>5 DEF InConstructor, InSplit, InCompare, Splitting, Constructing
    <3> QED
      BY <1>1, <2>5, <2>6, <2>7, <3>1, <3>2 DEF Constructing
  <2>10. p = <<"params", n>> /\ handles[n].class = "params"
         /\ handles[n - 1].class = "solver" /\ handles[n - 1].obj = <<"solver", n - 1>>
    <3>1. n = 3 \/ n = 4 \/ n = 6
      BY <2>5
    <3>2. Class(n) = "params" /\ Class(n - 1) = "solver"
      BY <2>9, <3>1 DEF Class
    <3>3. n \in 1 .. Len(handles) /\ n - 1 \in 1 .. Len(handles)
      BY <2>1, <2>5
    <3>4. n \in 2 .. 6 /\ n - 1 \in 2 .. 6 /\ n # 1 /\ n - 1 # 1
      BY <3>1
    <3>5. handles[n].class = Class(n) /\ handles[n].obj = <<Class(n), n>>
      BY <3>3, <3>4 DEF IInv, Placed
    <3>6. handles[n - 1].class = Class(n - 1) /\ handles[n - 1].obj = <<Class(n - 1), n - 1>>
      BY <3>3, <3>4 DEF IInv, Placed
    <3> QED
      BY <2>2, <3>2, <3>5, <3>6
  <2>11. s = <<"solver", n - 1>>
    <3>1. n - 1 \in 1 .. Len(handles)
      BY <2>1, <2>5
    <3>2. \A i \in 1 .. Len(handles) : i > n - 1 => handles[i].class # "solver"
      BY <2>1, <2>10
    <3> QED
      BY <1>1, <2>2, <2>10, <3>1, <3>2, SolverIs
  <2>12. z3.open /\ p \in DOMAIN z3.refs /\ s \in DOMAIN z3.refs
    <3>1. p # Null /\ s # Null
      <4>1. p \in {"solver", "params"} \X Nat /\ s \in {"solver", "params"} \X Nat
        BY <2>1, <2>5, <2>10, <2>11
      <4> QED
        BY <4>1, TermsAreNoSolvers
    <3>2. n \in 1 .. Len(handles) /\ n - 1 \in 1 .. Len(handles)
      BY <2>1, <2>5
    <3>3. handles[n].obj = p /\ handles[n - 1].obj = s
      BY <2>2, <2>10, <2>11
    <3> QED
      BY <3>1, <3>2, <3>3, HandleIsLive
  <2>13. /\ IsZ3(z3') /\ z3'.open /\ ~z3'.misuse
         /\ z3'.refs = z3.refs /\ z3'.asserted = z3.asserted /\ z3'.timed = z3.timed \cup {s}
    <3>1. PICK y : y = [z3 EXCEPT !.limited = @ \cup {p}]
      OBVIOUS
    <3>2. Z3_params_set_uint(z3, p) = y
      BY <2>12, <3>1 DEF Z3_params_set_uint, Checked, IsLive, BagIn, BagToSet
    <3>3. /\ y.open /\ y.refs = z3.refs /\ y.asserted = z3.asserted /\ p \in y.limited
          /\ y.misuse = z3.misuse /\ y.timed = z3.timed /\ IsZ3(y)
      BY <1>1, <2>12, <3>1 DEF IsZ3
    <3>4. z3' = [y EXCEPT !.timed = @ \cup {s}]
      BY <2>4, <2>12, <3>2, <3>3 DEF Z3_solver_set_params, Checked, IsLive, BagIn, BagToSet
    <3> QED
      BY <1>1, <3>3, <3>4 DEF IsZ3
  <2>14. Typed'
    BY <1>1, <2>4, <2>6, <2>7, <2>13 DEF Typed
  <2>15. Placed'
    BY <2>4, <2>9 DEF IInv, Placed, Class
  <2>16. Stacked'
    <3>1. Len(c) # 3 /\ Len(calls) # 3
      BY <2>1, <2>5, <2>7
    <3>2. Stack(calls') = Stack(calls)
      BY <2>6, <3>1 DEF Stack
    <3> QED
      BY <2>4, <2>13, <3>2 DEF IInv, Stacked
  <2>17. InTime'
    <3>1. n = 6 => s = Comparer
      BY <2>11 DEF Comparer
    <3>2. n # 6 => Len(c) = 1
      BY <2>5, <2>7
    <3> QED
      BY <2>5, <2>6, <2>13, <3>1, <3>2 DEF InTime
  <2>18. Balanced'
    BY <2>4, <2>13 DEF IInv, Balanced, AssertedBy
  <2> QED
    BY <2>1, <2>4, <2>6, <2>8, <2>13, <2>14, <2>15, <2>16, <2>17, <2>18 DEF IInv
<1> QED
  BY <1>2, <1>3

Frames == {<<>>, << <<>> >>} \cup {<< <<t>> >> : t \in Term}

\* In a comparison the solver that is told is its own, and it is alive.
LEMMA Comparing ==
    ASSUME IInv, ~unwinding, calls # <<>>,
           calls[Len(calls)].at \in {"push", "query", "drop", "pop"}
    PROVE  /\ Len(calls) = 3 /\ InEquivalent(calls, Len(handles)) /\ Len(handles) >= 7
           /\ ~Constructing /\ solver = Comparer /\ z3.open
           /\ Comparer \in DOMAIN z3.refs /\ Comparer \in DOMAIN z3.asserted
           /\ z3.asserted[Comparer] \in Frames /\ z3.asserted[Comparer] = Stack(calls)
           /\ Comparer \in z3.timed
<1>1. Typed /\ Places(calls, Len(handles))
  BY DEF IInv
<1>2. PICK m \in Nat, n \in Nat : m = Len(calls) /\ n = Len(handles) /\ (m = 0 <=> calls = <<>>)
  BY <1>1, Lengths
<1>3. InEquivalent(calls, n) /\ m = 3
  <2>1. ~InConstructor(calls, n) /\ ~InDestructor(calls, n) /\ ~InSplit(calls, n)
        /\ ~InCompare(calls, n)
    BY <1>2 DEF InConstructor, InDestructor, InSplit, InCompare
  <2>2. InEquivalent(calls, n)
    BY <1>1, <1>2, <2>1 DEF Places
  <2> QED
    BY <1>2, <2>2 DEF InEquivalent
<1>4. n >= 7
  BY <1>1, <1>3, Bases
<1>5. ~Constructing
  BY <1>3 DEF InEquivalent, Splitting, Constructing
<1>6. 5 \in 1 .. Len(handles) /\ handles[5].class = "solver" /\ handles[5].obj = Comparer
  <2>1. 5 \in 1 .. Len(handles) /\ Class(5) = "solver"
    BY <1>2, <1>4 DEF Class
  <2>2. 5 \in 2 .. 6 /\ 5 # 1
    OBVIOUS
  <2> QED
    BY <2>1, <2>2 DEF IInv, Placed, Comparer
<1>7. \A i \in 1 .. Len(handles) : i > 5 => handles[i].class # "solver"
  <2>1. \A i \in 1 .. n : i > 5 => Class(i) # "solver"
    BY DEF Class
  <2> QED
    BY <1>2, <2>1 DEF IInv, Placed
<1>8. solver = Comparer
  BY <1>1, <1>6, <1>7, SolverIs
<1>9. Comparer # Null
  <2>1. Comparer \in {"solver", "params"} \X Nat
    BY DEF Comparer
  <2> QED
    BY <2>1, TermsAreNoSolvers
<1>10. z3.open /\ Comparer \in DOMAIN z3.refs
  BY <1>6, <1>9, HandleIsLive
<1>11. Comparer \in DOMAIN z3.asserted
  BY <1>6 DEF IInv, Stacked
<1>12. z3.asserted[Comparer] \in Frames /\ z3.asserted[Comparer] = Stack(calls)
  <2>1. Len(handles) >= 5
    BY <1>2, <1>4
  <2> QED
    BY <2>1 DEF IInv, Stacked, Frames
<1>13. Comparer \in z3.timed
  <2>1. Len(calls) >= 2 /\ calls[2].at = "machines"
    BY <1>2, <1>3 DEF InEquivalent
  <2> QED
    BY <2>1 DEF IInv, InTime
<1> QED
  BY <1>2, <1>3, <1>4, <1>5, <1>8, <1>10, <1>11, <1>12, <1>13

LEMMA StaysPlaced ==
    ASSUME Placed, UNCHANGED handles, calls # <<>>, calls' # <<>>,
           calls'[1].function = calls[1].function
    PROVE  Placed'
<1>1. Constructing' <=> Constructing
  BY DEF Constructing
<1>2. \A k \in 1 .. Len(handles) : Class(k)' = Class(k)
  BY <1>1 DEF Class
<1> QED
  BY <1>1, <1>2 DEF Placed

LEMMA NotEmpty ==
    ASSUME NEW c, Len(c) = 3
    PROVE  c # <<>>
OBVIOUS

\* The stacks are the same, but for that of the solver that compares.
Retold(old, new, q) ==
    /\ DOMAIN new = DOMAIN old
    /\ \A s \in DOMAIN old : new[s] = IF s = Comparer THEN q ELSE old[s]

\* The solver gets a new stack, and refers to a term accordingly.
LEMMA Tells ==
    ASSUME IInv, ~unwinding, Len(calls) = 3, InEquivalent(calls, Len(handles)),
           UNCHANGED <<handles, unwinding>>,
           calls' \in Seq(Frame), Len(calls') = 3, calls'[1] = calls[1], calls'[2] = calls[2],
           InEquivalent(calls', Len(handles)),
           IsZ3(z3'), z3'.open, ~z3'.misuse, z3'.timed = z3.timed,
           NEW q \in Frames, q = Stack(calls'),
           Retold(z3.asserted, z3'.asserted, q),
           Comparer \in DOMAIN z3.asserted,
           IsRefs(z3'.refs),
           \A o : o # Null =>
              Count(z3'.refs, o) = Held(handles, o) + (IF q = << <<o>> >> THEN 1 ELSE 0)
    PROVE  IInv'
<1>1. Typed'
  BY DEF IInv, Typed
<1>2. calls # <<>> /\ calls' # <<>>
  BY NotEmpty
<1>3. Placed'
  BY <1>2, StaysPlaced DEF IInv
<1>4. z3'.asserted[Comparer] = q /\ DOMAIN z3'.asserted = DOMAIN z3.asserted
      /\ \A s \in DOMAIN z3.asserted : s # Comparer => z3'.asserted[s] = z3.asserted[s]
  BY DEF Retold
<1>5. Len(handles) \in Nat /\ Len(handles) >= 7
  BY Bases, Lengths DEF IInv
<1>6. Stacked'
  <2>1. \A k \in 1 .. Len(handles) : handles[k].class = "solver" /\ k # 5 => handles[k].obj # Comparer
    <3> SUFFICES ASSUME NEW k \in 1 .. Len(handles), handles[k].class = "solver", k # 5
                 PROVE  handles[k].obj # Comparer
      OBVIOUS
    <3>1. Class(k) = "solver"
      BY DEF IInv, Placed
    <3>2. k \in 2 .. 6 /\ k # 1
      BY <1>5, <3>1 DEF Class
    <3>3. handles[k].obj = <<Class(k), k>>
      BY <3>2 DEF IInv, Placed
    <3> QED
      BY <3>3 DEF Comparer
  <2>2. \A k \in 1 .. Len(handles) : handles[k].class = "solver" =>
            /\ handles[k].obj \in DOMAIN z3'.asserted
            /\ k # 5 => z3'.asserted[handles[k].obj] = <<>>
    BY <1>4, <2>1 DEF IInv, Stacked
  <2> QED
    BY <1>4, <2>2 DEF Stacked, Frames
<1>7. InTime'
  <2>1. calls'[2].at = calls[2].at
    OBVIOUS
  <2> QED
    BY <2>1 DEF IInv, InTime
<1>8. Balanced'
  BY <1>4, <1>5 DEF Balanced, AssertedBy
<1>9. Places(calls', Len(handles)) /\ z3'.open
  BY DEF Places
<1> QED
  BY <1>1, <1>3, <1>6, <1>7, <1>8, <1>9 DEF IInv

\* The comparison goes on to its next step.
LEMMA GoesOn ==
    ASSUME Typed, Len(calls) = 3, NEW n \in Nat, InEquivalent(calls, n),
           NEW l \in Labels, NEW c, c = Gone(calls, l),
           l \in {"push", "pop", "return"} => n = calls[3].base,
           l \in {"push", "pop", "return", "query", "drop"}
    PROVE  /\ c \in Seq(Frame) /\ Len(c) = 3 /\ c[1] = calls[1] /\ c[2] = calls[2]
           /\ c[3].at = l /\ c[3].asked = calls[3].asked /\ InEquivalent(c, n)
<1>1. calls \in Seq(Frame) /\ calls # <<>>
  BY NotEmpty DEF Typed
<1>2. /\ c \in Seq(Frame) /\ Len(c) = 3
      /\ \A i \in 1 .. 3 :
           /\ c[i].function = calls[i].function /\ c[i].base = calls[i].base
           /\ c[i].asked = calls[i].asked
           /\ c[i].at = IF i = 3 THEN l ELSE calls[i].at
  <2>1. /\ c \in Seq(Frame) /\ Len(c) = Len(calls)
        /\ \A i \in 1 .. Len(calls) :
             /\ c[i].function = calls[i].function /\ c[i].base = calls[i].base
             /\ c[i].asked = calls[i].asked
             /\ c[i].at = IF i = Len(calls) THEN l ELSE calls[i].at
    BY <1>1, GoToIs
  <2> QED
    BY <2>1
<1>3. \A i \in 1 .. 2 : c[i] = calls[i]
  <2>1. \A i \in 1 .. 3 : calls[i] \in Frame
    BY <1>1, ElementOfSeq
  <2> QED
    BY <1>1, <2>1 DEF Gone
<1>4. n >= c[3].base /\ c[3].base >= 7
  <2>1. PICK b \in Nat : b = calls[3].base
    BY Bases
  <2>2. n >= b /\ b >= 7
    BY <2>1 DEF InEquivalent
  <2> QED
    BY <1>2, <2>1, <2>2
<1>5. InEquivalent(c, n)
  BY <1>2, <1>3, <1>4 DEF InEquivalent, Splitting
<1> QED
  BY <1>2, <1>3, <1>5

LEMMA Pushes ==
    ASSUME IInv, Push
    PROVE  IInv'
<1>1. CASE Throw
  BY <1>1, Throws
<1>2. CASE ~Throw
  <2>1. /\ Typed /\ ~unwinding /\ calls # <<>> /\ calls[Len(calls)].at = "push"
        /\ ~z3.misuse /\ IsZ3(z3) /\ IsRefs(z3.refs)
        /\ z3' = Z3_solver_push(z3, solver) /\ UNCHANGED <<handles, unwinding>>
        /\ calls' = Gone(calls, "query")
    BY <1>2 DEF Push, At, Top, Last, IInv, Typed, Balanced, GoTo, Gone
  <2>2. /\ Len(calls) = 3 /\ InEquivalent(calls, Len(handles))
        /\ solver = Comparer /\ z3.open
        /\ Comparer \in DOMAIN z3.refs /\ Comparer \in DOMAIN z3.asserted
        /\ z3.asserted[Comparer] = Stack(calls) /\ Len(handles) >= 7
    BY <2>1, Comparing
  <2>3. Len(handles) \in Nat
    BY <2>1, Lengths
  <2>4. PICK c : c = calls'
    OBVIOUS
  <2>5. /\ c \in Seq(Frame) /\ Len(c) = 3 /\ c[1] = calls[1] /\ c[2] = calls[2]
        /\ c[3].at = "query" /\ InEquivalent(c, Len(handles))
    BY <2>1, <2>2, <2>3, <2>4, GoesOn DEF Labels
  <2>6. z3.asserted[Comparer] = <<>>
    BY <2>1, <2>2 DEF Stack
  <2>7. PICK q : q = << <<>> >>
    OBVIOUS
  <2>8. q \in Frames /\ q = Stack(c) /\ \A o : q # << <<o>> >>
    <3>1. \A o : <<>> # <<o>>
      OBVIOUS
    <3>2. \A o : q[1] = <<>> /\ << <<o>> >>[1] = <<o>>
      BY <2>7
    <3> QED
      BY <2>5, <2>7, <3>1, <3>2 DEF Frames, Stack
  <2>9. z3' = [z3 EXCEPT !.asserted[Comparer] = q]
    <3>1. Append(z3.asserted[Comparer], <<>>) = q
      BY <2>6, <2>7, OfOne
    <3> QED
      BY <2>1, <2>2, <3>1 DEF Z3_solver_push, Checked, IsLive, BagIn, BagToSet
  <2>10. /\ IsZ3(z3') /\ z3'.open /\ ~z3'.misuse /\ z3'.timed = z3.timed /\ z3'.refs = z3.refs
         /\ Retold(z3.asserted, z3'.asserted, q)
    BY <2>1, <2>2, <2>9 DEF IsZ3, Retold
  <2>11. \A o : o # Null =>
           Count(z3'.refs, o) = Held(handles, o) + (IF q = << <<o>> >> THEN 1 ELSE 0)
    <3>1. \A o : AssertedBy(z3, Len(handles), o) = 0
      BY <2>6, NotNone DEF AssertedBy
    <3> QED
      BY <2>8, <2>10, <3>1 DEF IInv, Balanced
  <2> QED
    BY <2>1, <2>2, <2>4, <2>5, <2>8, <2>10, <2>11, Tells
<1> QED
  BY <1>1, <1>2

LEMMA Checks ==
    ASSUME IInv, Check
    PROVE  IInv'
<1>1. CASE Throw
  BY <1>1, Throws
<1>2. CASE ~Throw
  <2>1. /\ Typed /\ ~unwinding /\ calls # <<>> /\ calls[Len(calls)].at = "drop"
        /\ ~z3.misuse /\ IsZ3(z3) /\ IsRefs(z3.refs) /\ Len(handles) = calls[Len(calls)].base
        /\ z3' = Z3_solver_check(z3, solver) /\ UNCHANGED <<handles, unwinding>>
        /\ calls' = Gone(calls, "pop")
    BY <1>2 DEF Check, At, Top, Last, IInv, Typed, Balanced, GoTo, Gone, Base
  <2>2. /\ Len(calls) = 3 /\ InEquivalent(calls, Len(handles))
        /\ solver = Comparer /\ z3.open
        /\ Comparer \in DOMAIN z3.refs /\ Comparer \in DOMAIN z3.asserted
        /\ z3.asserted[Comparer] \in Frames
        /\ z3.asserted[Comparer] = Stack(calls) /\ Len(handles) >= 7
    BY <2>1, Comparing
  <2>3. Len(handles) \in Nat
    BY <2>1, Lengths
  <2>4. PICK c : c = calls'
    OBVIOUS
  <2>5. /\ c \in Seq(Frame) /\ Len(c) = 3 /\ c[1] = calls[1] /\ c[2] = calls[2]
        /\ c[3].at = "pop" /\ c[3].asked = calls[3].asked /\ InEquivalent(c, Len(handles))
    BY <2>1, <2>2, <2>3, <2>4, GoesOn DEF Labels
  <2>6. PICK q : q = z3.asserted[Comparer]
    OBVIOUS
  <2>7. q \in Frames /\ q = Stack(c)
    BY <2>1, <2>2, <2>5, <2>6 DEF Stack
  <2>8. z3' = z3
    BY <2>1, <2>2 DEF Z3_solver_check, Checked, IsLive, BagIn, BagToSet
  <2>9. Retold(z3.asserted, z3'.asserted, q)
    BY <2>6, <2>8 DEF Retold
  <2>10. \A o : o # Null =>
           Count(z3'.refs, o) = Held(handles, o) + (IF q = << <<o>> >> THEN 1 ELSE 0)
    BY <2>2, <2>6, <2>8 DEF IInv, Balanced, AssertedBy
  <2> QED
    BY <2>1, <2>2, <2>4, <2>5, <2>7, <2>8, <2>9, <2>10, Tells
<1> QED
  BY <1>1, <1>2

LEMMA AssertsQuery ==
    ASSUME IInv, AssertQuery
    PROVE  IInv'
<1>1. CASE Throw
  BY <1>1, Throws
<1>2. CASE ~Throw
  <2>1. PICK t : t = Last(handles).obj
    OBVIOUS
  <2>2. /\ Typed /\ ~unwinding /\ calls # <<>> /\ calls[Len(calls)].at = "query"
        /\ ~z3.misuse /\ IsZ3(z3) /\ IsRefs(z3.refs) /\ Len(handles) > calls[Len(calls)].base
        /\ t # Null /\ z3' = Z3_solver_assert(z3, solver, t) /\ UNCHANGED <<handles, unwinding>>
        /\ calls' = [calls EXCEPT ![Len(calls)] = [@ EXCEPT !.at = "drop", !.asked = t]]
    BY <1>2, <2>1 DEF AssertQuery, At, Top, Last, IInv, Typed, Balanced, Base
  <2>3. /\ Len(calls) = 3 /\ InEquivalent(calls, Len(handles))
        /\ solver = Comparer /\ z3.open /\ ~Constructing
        /\ Comparer \in DOMAIN z3.refs /\ Comparer \in DOMAIN z3.asserted
        /\ z3.asserted[Comparer] = Stack(calls)
    BY <2>2, Comparing
  <2>4. PICK n \in Nat : n = Len(handles)
    BY <2>2, Lengths
  <2>5. PICK b \in Nat : b = calls[3].base /\ b >= 7 /\ n > b
    <3>1. calls[3].base \in Nat /\ calls[3].base >= 7
      BY <2>2, <2>3, <2>4, Bases DEF InEquivalent
    <3> QED
      BY <2>2, <2>3, <2>4, <3>1
  <2>6. t \in Term /\ t \in DOMAIN z3.refs
    <3>1. n \in 1 .. Len(handles) /\ n >= 7 /\ t = handles[n].obj
      BY <2>1, <2>4, <2>5 DEF Last
    <3>2. n \in Own
      <4>1. Class(n) = "expr"
        BY <3>1 DEF Class
      <4> QED
        BY <3>1, <4>1 DEF IInv, Placed, Own
    <3> QED
      BY <2>2, <3>1, <3>2, OwnIs, HandleIsLive
  <2>7. PICK c : c = calls'
    OBVIOUS
  <2>8. /\ c \in Seq(Frame) /\ Len(c) = 3 /\ c[1] = calls[1] /\ c[2] = calls[2]
        /\ c[3].at = "drop" /\ c[3].asked = t /\ InEquivalent(c, n)
    <3>1. PICK f \in Frame : f = calls[3]
      <4>1. calls \in Seq(Frame) /\ 3 \in 1 .. Len(calls)
        BY <2>2, <2>3 DEF Typed
      <4> QED
        BY <4>1, ElementOfSeq
    <3>2. PICK g : g = [f EXCEPT !.at = "drop", !.asked = t]
      OBVIOUS
    <3>3. g \in Frame /\ g.at = "drop" /\ g.asked = t /\ g.function = f.function /\ g.base = b
      BY <2>5, <2>6, <3>1, <3>2 DEF Frame, Labels
    <3>4. c = [calls EXCEPT ![3] = g]
      BY <2>2, <2>3, <2>7, <3>1, <3>2
    <3>5. c \in Seq(Frame) /\ Len(c) = 3 /\ c[3] = g /\ c[1] = calls[1] /\ c[2] = calls[2]
      BY <2>2, <2>3, <3>3, <3>4, ExceptSeq DEF Typed
    <3>6. n >= b
      BY <2>5
    <3> QED
      BY <2>3, <2>5, <3>1, <3>3, <3>5, <3>6 DEF InEquivalent, Splitting
  <2>9. z3.asserted[Comparer] = << <<>> >>
    BY <2>2, <2>3 DEF Stack
  <2>10. PICK q : q = << <<t>> >>
    OBVIOUS
  <2>11. q \in Frames /\ q = Stack(c) /\ \A o : q = << <<o>> >> <=> o = t
    <3>1. q \in Frames /\ q = Stack(c)
      BY <2>6, <2>8, <2>10 DEF Frames, Stack
    <3>2. \A o : << <<o>> >>[1] = <<o>> /\ <<o>>[1] = o
      OBVIOUS
    <3> QED
      BY <2>10, <3>1, <3>2
  <2>12. PICK y : y = With(z3, z3.refs (+) One(t))
    OBVIOUS
  <2>13. /\ IsZ3(y) /\ y.refs = z3.refs (+) One(t) /\ y.open /\ ~y.misuse
         /\ y.asserted = z3.asserted /\ y.timed = z3.timed
    BY <2>2, <2>3, <2>12, WithIs
  <2>14. z3' = [y EXCEPT !.asserted[Comparer] = q]
    <3>1. Z3_inc_ref(z3, t) = y
      BY <2>2, <2>3, <2>6, <2>12, IncRefIs
    <3>2. Append(Front(y.asserted[Comparer]), Append(Last(y.asserted[Comparer]), t)) = q
      <4>1. y.asserted[Comparer] = << <<>> >>
        BY <2>9, <2>13
      <4>2. Front(<< <<>> >>) = <<>> /\ Last(<< <<>> >>) = <<>>
        BY OfOne
      <4>3. Append(<<>>, t) = <<t>> /\ Append(<<>>, <<t>>) = q
        BY <2>10, OfOne
      <4> QED
        BY <4>1, <4>2, <4>3
    <3> QED
      BY <2>2, <2>3, <3>1, <3>2 DEF Z3_solver_assert, Checked, IsLive, BagIn, BagToSet
  <2>15. /\ IsZ3(z3') /\ z3'.open /\ ~z3'.misuse /\ z3'.timed = z3.timed /\ z3'.refs = y.refs
         /\ Retold(z3.asserted, z3'.asserted, q)
    BY <2>3, <2>13, <2>14 DEF IsZ3, Retold
  <2>16. IsRefs(y.refs) /\ \A o : Count(y.refs, o) = Count(z3.refs, o) + Unit(t, o)
    BY <2>2, <2>13, CountAdded
  <2>17. \A o : o # Null =>
           Count(z3'.refs, o) = Held(handles, o) + (IF q = << <<o>> >> THEN 1 ELSE 0)
    <3> SUFFICES ASSUME NEW o, o # Null
                 PROVE  Count(z3'.refs, o) = Held(handles, o) + (IF q = << <<o>> >> THEN 1 ELSE 0)
      OBVIOUS
    <3>1. \A s : << <<>> >> # << <<s>> >>
      <4>1. \A s : <<>> # <<s>> /\ << <<>> >>[1] = <<>> /\ << <<s>> >>[1] = <<s>>
        OBVIOUS
      <4> QED
        BY <4>1
    <3>2. AssertedBy(z3, n, o) = 0
      BY <2>9, <3>1 DEF AssertedBy
    <3>3. PICK a \in Nat : a = Held(handles, o)
      BY <2>2, HeldIsNat DEF Typed
    <3>4. Count(z3.refs, o) = a
      BY <2>4, <3>2, <3>3 DEF IInv, Balanced
    <3>5. Count(z3'.refs, o) = a + Unit(t, o)
      BY <2>15, <2>16, <3>4
    <3>6. Unit(t, o) = IF q = << <<o>> >> THEN 1 ELSE 0
      BY <2>11 DEF Unit
    <3> QED
      BY <3>3, <3>5, <3>6
  <2> QED
    BY <2>2, <2>3, <2>4, <2>7, <2>8, <2>11, <2>15, <2>16, <2>17, Tells
<1> QED
  BY <1>1, <1>2

LEMMA Pops ==
    ASSUME IInv, Pop
    PROVE  IInv'
<1>1. CASE Throw
  BY <1>1, Throws
<1>2. CASE ~Throw
  <2>1. /\ Typed /\ ~unwinding /\ calls # <<>> /\ calls[Len(calls)].at = "pop"
        /\ ~z3.misuse /\ IsZ3(z3) /\ IsRefs(z3.refs)
        /\ z3' = Z3_solver_pop(z3, solver) /\ UNCHANGED <<handles, unwinding>>
        /\ calls' = Gone(calls, "return")
    BY <1>2 DEF Pop, At, Top, Last, IInv, Typed, Balanced, GoTo, Gone
  <2>2. /\ Len(calls) = 3 /\ InEquivalent(calls, Len(handles))
        /\ solver = Comparer /\ z3.open
        /\ Comparer \in DOMAIN z3.refs /\ Comparer \in DOMAIN z3.asserted
        /\ z3.asserted[Comparer] \in Frames
        /\ z3.asserted[Comparer] = Stack(calls) /\ Len(handles) >= 7
    BY <2>1, Comparing
  <2>3. PICK n \in Nat : n = Len(handles) /\ n >= 5
    BY <2>1, <2>2, Lengths
  <2>4. PICK c : c = calls'
    OBVIOUS
  <2>5. /\ c \in Seq(Frame) /\ Len(c) = 3 /\ c[1] = calls[1] /\ c[2] = calls[2]
        /\ c[3].at = "return" /\ InEquivalent(c, n)
    <3>1. n = calls[3].base
      BY <2>1, <2>2, <2>3 DEF InEquivalent
    <3> QED
      BY <2>1, <2>2, <2>3, <2>4, <3>1, GoesOn DEF Labels
  <2>6. PICK t \in Term : z3.asserted[Comparer] = << <<t>> >>
    <3>1. z3.asserted[Comparer] = << <<calls[3].asked>> >>
      BY <2>1, <2>2 DEF Stack
    <3>2. PICK a : a = calls[3].asked
      OBVIOUS
    <3>3. << <<a>> >> # <<>> /\ << <<a>> >> # << <<>> >>
      <4>1. <<>> # <<a>> /\ << <<>> >>[1] = <<>> /\ << <<a>> >>[1] = <<a>>
        OBVIOUS
      <4> QED
        BY <4>1, NotNone
    <3> QED
      BY <2>2, <3>1, <3>2, <3>3 DEF Frames
  <2>7. \A o : << <<t>> >> = << <<o>> >> <=> o = t
    <3>1. \A o : << <<o>> >>[1] = <<o>> /\ <<o>>[1] = o
      OBVIOUS
    <3> QED
      BY <3>1
  <2>8. \A o : AssertedBy(z3, n, o) = Unit(t, o)
    BY <2>3, <2>6, <2>7 DEF AssertedBy, Unit
  <2>9. t # Null /\ t \in DOMAIN z3.refs
    <3>1. t # Null
      BY NullIsNoTerm
    <3>2. Held(handles, t) \in Nat /\ Unit(t, t) = 1
      BY <2>1, HeldIsNat DEF Typed, Unit
    <3>3. Count(z3.refs, t) = Held(handles, t) + 1
      BY <2>3, <2>8, <3>1, <3>2 DEF IInv, Balanced
    <3>4. Count(z3.refs, t) > 0
      BY <3>2, <3>3
    <3> QED
      BY <2>1, <3>1, <3>4, CountIsNat
  <2>10. PICK q : q = <<>>
    OBVIOUS
  <2>11. q \in Frames /\ q = Stack(c) /\ \A o : q # << <<o>> >>
    BY <2>5, <2>10, NotNone DEF Frames, Stack
  <2>12. PICK y : y = With(z3, z3.refs (-) One(t))
    OBVIOUS
  <2>13. /\ IsZ3(y) /\ y.refs = z3.refs (-) One(t) /\ y.open /\ ~y.misuse
         /\ y.asserted = z3.asserted /\ y.timed = z3.timed
    BY <2>1, <2>2, <2>12, WithIs
  <2>14. z3' = [y EXCEPT !.asserted[Comparer] = q]
    <3>1. Released(z3, Last(z3.asserted[Comparer])) = y
      <4>1. Last(z3.asserted[Comparer]) = <<t>>
        BY <2>6, OfOne
      <4>2. Released(z3, <<t>>) = Z3_dec_ref(z3, t)
        BY OneReleased
      <4>3. Z3_dec_ref(z3, t) = y
        BY <2>1, <2>2, <2>9, <2>12, DecRefIs
      <4> QED
        BY <4>1, <4>2, <4>3
    <3>2. Front(y.asserted[Comparer]) = q
      BY <2>6, <2>10, <2>13, OfOne
    <3> QED
      BY <2>1, <2>2, <3>1, <3>2 DEF Z3_solver_pop, Checked, IsLive, BagIn, BagToSet
  <2>15. /\ IsZ3(z3') /\ z3'.open /\ ~z3'.misuse /\ z3'.timed = z3.timed /\ z3'.refs = y.refs
         /\ Retold(z3.asserted, z3'.asserted, q)
    BY <2>2, <2>13, <2>14 DEF IsZ3, Retold
  <2>16. IsRefs(y.refs) /\ \A o : Count(y.refs, o) = Count(z3.refs, o) - Unit(t, o)
    BY <2>1, <2>9, <2>13, CountRemoved
  <2>17. \A o : o # Null =>
           Count(z3'.refs, o) = Held(handles, o) + (IF q = << <<o>> >> THEN 1 ELSE 0)
    <3> SUFFICES ASSUME NEW o, o # Null
                 PROVE  Count(z3'.refs, o) = Held(handles, o)
      BY <2>1, <2>11, HeldIsNat DEF Typed
    <3>1. PICK a \in Nat, d \in Nat : a = Held(handles, o) /\ d = Unit(t, o)
      BY <2>1, HeldIsNat DEF Typed, Unit
    <3>2. Count(z3.refs, o) = a + d
      BY <2>3, <2>8, <3>1 DEF IInv, Balanced
    <3> QED
      BY <2>15, <2>16, <3>1, <3>2
  <2> QED
    BY <2>1, <2>2, <2>3, <2>4, <2>5, <2>11, <2>15, <2>16, <2>17, Tells
<1> QED
  BY <1>1, <1>2

-----------------------------------------------------------------------------
(* The assignment of a term.                                               *)

LEMMA Assigns ==
    ASSUME IInv, Assign
    PROVE  IInv'
<1>1. PICK i \in Own, j \in Own :
        /\ z3' = Assigned(z3, handles[i].obj, handles[j].obj)
        /\ handles' = [handles EXCEPT ![i].obj = handles[j].obj]
  BY DEF Assign
<1>2. PICK old, new : old = handles[i].obj /\ new = handles[j].obj
  OBVIOUS
<1>3. /\ i \in 1 .. Len(handles) /\ j \in 1 .. Len(handles) /\ i >= 7
      /\ old \in Term \cup {Null} /\ new \in Term \cup {Null}
  BY <1>2, OwnIs
<1>4. /\ UNCHANGED <<calls, unwinding>> /\ handles \in Seq(Handle) /\ IsZ3(z3) /\ ~z3.misuse
      /\ IsRefs(z3.refs) /\ handles # <<>> /\ z3.open
  BY <1>3 DEF Assign, IInv, Typed, Balanced
<1>5. old # Null => old \in DOMAIN z3.refs
  BY <1>2, <1>3, HandleIsLive
<1>6. new # Null => new \in DOMAIN z3.refs
  BY <1>2, <1>3, HandleIsLive
<1>7. PICK kept : kept = Z3_inc_ref(z3, new)
  OBVIOUS
<1>8. /\ IsZ3(kept) /\ kept.open /\ ~kept.misuse /\ kept.asserted = z3.asserted
      /\ kept.timed = z3.timed /\ IsRefs(kept.refs)
      /\ \A o : o # Null => Count(kept.refs, o) = Count(z3.refs, o) + Unit(new, o)
  <2>1. CASE new = Null
    <3>1. kept = z3
      BY <1>4, <1>7, <2>1 DEF Z3_inc_ref, Checked, IsLive
    <3>2. \A o : o # Null => Unit(new, o) = 0 /\ Count(z3.refs, o) \in Nat
      BY <1>4, <2>1, CountIsNat DEF Unit
    <3> QED
      BY <1>4, <3>1, <3>2
  <2>2. CASE new # Null
    <3>1. kept = With(z3, z3.refs (+) One(new))
      BY <1>4, <1>6, <1>7, <2>2, IncRefIs
    <3>2. /\ IsZ3(kept) /\ kept.open /\ ~kept.misuse /\ kept.asserted = z3.asserted
          /\ kept.timed = z3.timed /\ kept.refs = z3.refs (+) One(new)
      BY <1>4, <3>1, WithIs
    <3> QED
      BY <1>4, <2>2, <3>2, CountAdded
  <2> QED
    BY <2>1, <2>2
<1>9. /\ IsZ3(z3') /\ z3'.open /\ ~z3'.misuse /\ z3'.asserted = z3.asserted
      /\ z3'.timed = z3.timed /\ IsRefs(z3'.refs)
      /\ \A o : o # Null =>
           Count(z3'.refs, o) = Count(z3.refs, o) + Unit(new, o) - Unit(old, o)
  <2>1. CASE old = Null
    <3>1. z3' = kept
      BY <1>1, <1>2, <1>7, <2>1 DEF Assigned
    <3>2. \A o : o # Null => Unit(old, o) = 0 /\ Count(z3.refs, o) \in Nat /\ Unit(new, o) \in Nat
      BY <1>4, <2>1, CountIsNat DEF Unit
    <3> QED
      BY <1>8, <3>1, <3>2
  <2>2. CASE old # Null
    <3>1. old \in DOMAIN kept.refs
      <4>1. Count(z3.refs, old) \in Nat /\ Count(z3.refs, old) > 0 /\ Unit(new, old) \in Nat
        BY <1>4, <1>5, <2>2, CountIsNat DEF Unit
      <4>2. Count(kept.refs, old) > 0
        BY <1>8, <2>2, <4>1
      <4> QED
        BY <1>8, <4>2, CountIsNat
    <3>2. z3' = With(kept, kept.refs (-) One(old))
      <4>1. z3' = Z3_dec_ref(kept, old)
        BY <1>1, <1>2, <1>7, <2>2 DEF Assigned
      <4> QED
        BY <1>8, <3>1, <4>1, DecRefIs
    <3>3. /\ IsZ3(z3') /\ z3'.open /\ ~z3'.misuse /\ z3'.asserted = z3.asserted
          /\ z3'.timed = z3.timed /\ z3'.refs = kept.refs (-) One(old)
      BY <1>8, <3>2, WithIs
    <3>4. /\ IsRefs(z3'.refs)
          /\ \A o : Count(z3'.refs, o) = Count(kept.refs, o) - Unit(old, o)
      BY <1>8, <3>1, <3>3, CountRemoved
    <3>5. \A o : o # Null =>
            Count(z3'.refs, o) = Count(z3.refs, o) + Unit(new, o) - Unit(old, o)
      <4> SUFFICES ASSUME NEW o, o # Null
                   PROVE  Count(z3'.refs, o) = Count(z3.refs, o) + Unit(new, o) - Unit(old, o)
        OBVIOUS
      <4>1. Count(kept.refs, o) = Count(z3.refs, o) + Unit(new, o)
        BY <1>8
      <4>2. Count(z3'.refs, o) = Count(kept.refs, o) - Unit(old, o)
        BY <3>4
      <4>3. /\ Count(z3.refs, o) \in Nat /\ Unit(new, o) \in Nat /\ Unit(old, o) \in Nat
        BY <1>4, CountIsNat DEF Unit
      <4> QED
        BY <4>1, <4>2, <4>3
    <3> QED
      BY <3>3, <3>4, <3>5
  <2> QED
    BY <2>1, <2>2
<1>10. PICK hs : hs = handles'
  OBVIOUS
<1>11. /\ hs \in Seq(Handle) /\ Len(hs) = Len(handles)
       /\ \A k \in 1 .. Len(handles) :
            hs[k].class = handles[k].class /\ hs[k].obj = IF k = i THEN new ELSE handles[k].obj
  <2>1. \A k \in 1 .. Len(handles) : handles[k] \in Handle
    BY <1>4, ElementOfSeq
  <2>2. PICK h \in Handle : h = handles[i]
    BY <1>3, <2>1
  <2>3. PICK g : g = [h EXCEPT !.obj = new]
    OBVIOUS
  <2>4. g \in Handle /\ g.class = h.class /\ g.obj = new
    BY <1>3, <2>3 DEF Handle
  <2>5. hs = [handles EXCEPT ![i] = g]
    BY <1>1, <1>2, <1>10, <2>2, <2>3
  <2>6. /\ hs \in Seq(Handle) /\ Len(hs) = Len(handles)
        /\ \A k \in 1 .. Len(handles) : hs[k] = IF k = i THEN g ELSE handles[k]
    BY <1>3, <1>4, <2>4, <2>5, ExceptSeq
  <2> QED
    BY <2>2, <2>4, <2>6
<1>12. Typed'
  BY <1>4, <1>9, <1>10, <1>11 DEF IInv, Typed
<1>13. i \in Int /\ handles[i].class = "expr"
  BY <1>3 DEF Own
<1>14. Placed'
  <2>1. \A k \in 1 .. Len(handles) : Class(k)' = Class(k) /\ (Constructing' <=> Constructing)
    BY <1>4 DEF Class, Constructing
  <2>2. \A k \in 1 .. Len(handles) : Place(k, hs[k].class, hs[k].obj)'
    <3> SUFFICES ASSUME NEW k \in 1 .. Len(handles) PROVE Place(k, hs[k].class, hs[k].obj)'
      OBVIOUS
    <3>1. Place(k, handles[k].class, handles[k].obj)
      BY DEF IInv, Placed, Place
    <3>2. CASE k = i
      <4>1. k # 1 /\ k \notin 2 .. 6
        BY <1>3, <1>13, <3>2
      <4> QED
        BY <1>3, <1>11, <2>1, <3>1, <3>2, <4>1 DEF Place
    <3>3. CASE k # i
      BY <1>11, <2>1, <3>1, <3>3 DEF Place
    <3> QED
      BY <3>2, <3>3
  <2> QED
    BY <1>10, <1>11, <2>2 DEF Placed, Place
<1>15. Stacked'
  <2>1. \A k \in 1 .. Len(handles) : handles[k].class = "solver" => hs[k].obj = handles[k].obj
    BY <1>11, <1>13
  <2> QED
    BY <1>4, <1>9, <1>10, <1>11, <2>1 DEF IInv, Stacked
<1>16. Balanced'
  <2>1. \A o : Held(hs, o) = Held(handles, o) - Unit(old, o) + Unit(new, o)
    <3>1. hs = Reassigned(handles, i, new)
      BY <1>1, <1>2, <1>10 DEF Reassigned
    <3> QED
      BY <1>2, <1>3, <1>4, <3>1, HeldAssigned
  <2>2. \A o : o # Null => Count(z3'.refs, o) = Held(hs, o) + AssertedBy(z3', Len(handles), o)
    <3> SUFFICES ASSUME NEW o, o # Null
                 PROVE  Count(z3'.refs, o) = Held(hs, o) + AssertedBy(z3', Len(handles), o)
      OBVIOUS
    <3>1. PICK a \in Nat, b \in Nat, d \in Nat, e \in Nat :
            /\ a = Held(handles, o) /\ b = AssertedBy(z3, Len(handles), o)
            /\ d = Unit(old, o) /\ e = Unit(new, o)
      BY <1>4, HeldIsNat DEF AssertedBy, Unit
    <3>2. Count(z3.refs, o) = a + b
      BY <3>1 DEF IInv, Balanced
    <3>3. AssertedBy(z3', Len(handles), o) = b
      BY <1>9, <3>1 DEF AssertedBy
    <3>4. Count(z3'.refs, o) = a + b + e - d
      BY <1>9, <3>1, <3>2
    <3>5. Held(hs, o) = a - d + e
      BY <2>1, <3>1
    <3> QED
      BY <3>1, <3>3, <3>4, <3>5
  <2> QED
    BY <1>9, <1>10, <1>11, <2>2 DEF Balanced
<1>17. InTime' /\ (~unwinding => Places(calls, Len(handles)))'
  BY <1>4, <1>9, <1>10, <1>11 DEF IInv, InTime
<1> QED
  BY <1>9, <1>12, <1>14, <1>15, <1>16, <1>17 DEF IInv

-----------------------------------------------------------------------------
(* The destructors.                                                        *)

\* What is left when the last handle is gone, if the count of its object is
\* one less.
LEMMA Drops ==
    ASSUME IInv, NEW n \in Nat, n = Len(handles), n # 0, handles' = Front(handles),
           UNCHANGED <<calls, unwinding>>,
           ~unwinding => Places(calls, n - 1),
           ~unwinding /\ Len(calls) >= 2 /\ calls[2].at = "machines" => n >= 7,
           IsZ3(z3'), ~z3'.misuse, n > 1 => z3'.open,
           DOMAIN z3'.asserted = DOMAIN z3.asserted,
           \A k \in 1 .. n - 1 : handles[k].class = "solver" =>
              z3'.asserted[handles[k].obj] = z3.asserted[handles[k].obj],
           n >= 7 => z3'.timed = z3.timed,
           IsRefs(z3'.refs),
           \A o : o # Null =>
              Count(z3'.refs, o) = Held(handles', o) + AssertedBy(z3', n - 1, o)
    PROVE  IInv'
<1>1. handles \in Seq(Handle) /\ handles # <<>>
  BY DEF IInv, Typed
<1>2. PICK hs : hs = handles'
  OBVIOUS
<1>3. hs \in Seq(Handle) /\ Len(hs) = n - 1 /\ \A k \in 1 .. n - 1 : hs[k] = handles[k]
  BY <1>1, <1>2, FrontIs
<1>4. Typed'
  BY <1>2, <1>3 DEF IInv, Typed
<1>5. Placed'
  <2>1. Constructing' <=> Constructing
    BY DEF Constructing
  <2>2. \A k \in 1 .. n - 1 : Place(k, hs[k].class, hs[k].obj)'
    <3> SUFFICES ASSUME NEW k \in 1 .. n - 1 PROVE Place(k, hs[k].class, hs[k].obj)'
      OBVIOUS
    <3>1. Place(k, handles[k].class, handles[k].obj)
      <4>1. k \in 1 .. Len(handles)
        OBVIOUS
      <4> QED
        BY <4>1 DEF IInv, Placed, Place
    <3>2. hs[k] = handles[k] /\ Class(k)' = Class(k)
      BY <1>3, <2>1 DEF Class
    <3> QED
      BY <2>1, <3>1, <3>2 DEF Place
  <2> QED
    BY <1>2, <1>3, <2>2 DEF Placed, Place
<1>6. Stacked'
  <2>1. \A k \in 1 .. n - 1 : handles[k].class = "solver" =>
            /\ handles[k].obj \in DOMAIN z3'.asserted
            /\ k # 5 => z3'.asserted[handles[k].obj] = <<>>
    BY DEF IInv, Stacked
  <2>2. n - 1 >= 5 => z3'.asserted[Comparer] = z3.asserted[Comparer]
    <3> SUFFICES ASSUME n - 1 >= 5 PROVE z3'.asserted[Comparer] = z3.asserted[Comparer]
      OBVIOUS
    <3>1. 5 \in 1 .. n - 1 /\ 5 \in 1 .. Len(handles) /\ 5 # 1 /\ 5 \in 2 .. 6
      OBVIOUS
    <3>2. Class(5) = "solver"
      BY DEF Class
    <3>3. handles[5].class = "solver" /\ handles[5].obj = Comparer
      BY <3>1, <3>2 DEF IInv, Placed, Comparer
    <3> QED
      BY <3>1, <3>3
  <2>3. n - 1 >= 5 => Len(handles) >= 5
    OBVIOUS
  <2>4. Stack(calls') = Stack(calls)
    OBVIOUS
  <2> QED
    BY <1>2, <1>3, <2>1, <2>2, <2>3, <2>4 DEF IInv, Stacked
<1>7. InTime'
  BY DEF IInv, InTime
<1>8. Balanced'
  BY <1>2, <1>3 DEF Balanced
<1>9. (handles # <<>> => z3.open)' /\ (~unwinding => Places(calls, Len(handles)))'
  <2>1. hs # <<>> => n > 1
    BY <1>3, EmptySeq
  <2> QED
    BY <1>2, <1>3, <2>1
<1> QED
  BY <1>4, <1>5, <1>6, <1>7, <1>8, <1>9 DEF IInv

\* A count of references less one, for an object that only goes with its handle.
LEMMA LosesOne ==
    ASSUME IInv, NEW n \in Nat, n = Len(handles), n # 0, handles' = Front(handles),
           NEW h, h = Last(handles), h.obj # Null,
           NEW y, y = Z3_dec_ref(z3, h.obj)
    PROVE  /\ IsZ3(y) /\ y.open /\ ~y.misuse /\ y.asserted = z3.asserted /\ y.timed = z3.timed
           /\ IsRefs(y.refs)
           /\ \A o : o # Null =>
                Count(y.refs, o) = Held(handles', o) + AssertedBy(z3, n, o)
<1>1. handles \in Seq(Handle) /\ handles # <<>> /\ IsZ3(z3) /\ ~z3.misuse /\ IsRefs(z3.refs)
  BY DEF IInv, Typed, Balanced
<1>2. n \in 1 .. Len(handles) /\ h = handles[n]
  BY DEF Last
<1>3. z3.open /\ h.obj \in DOMAIN z3.refs
  BY <1>2, HandleIsLive
<1>4. y = With(z3, z3.refs (-) One(h.obj))
  BY <1>1, <1>3, DecRefIs
<1>5. /\ IsZ3(y) /\ y.open /\ ~y.misuse /\ y.asserted = z3.asserted /\ y.timed = z3.timed
      /\ y.refs = z3.refs (-) One(h.obj)
  BY <1>1, <1>3, <1>4, WithIs
<1>6. IsRefs(y.refs) /\ \A o : Count(y.refs, o) = Count(z3.refs, o) - Unit(h.obj, o)
  BY <1>1, <1>3, <1>5, CountRemoved
<1>7. \A o : Held(handles', o) = Held(handles, o) - Unit(h.obj, o)
  BY <1>1, HeldFront
<1>8. \A o : o # Null => Count(y.refs, o) = Held(handles', o) + AssertedBy(z3, n, o)
  <2> SUFFICES ASSUME NEW o, o # Null
               PROVE  Count(y.refs, o) = Held(handles', o) + AssertedBy(z3, n, o)
    OBVIOUS
  <2>1. PICK a \in Nat, b \in Nat, d \in Nat :
          a = Held(handles, o) /\ b = AssertedBy(z3, n, o) /\ d = Unit(h.obj, o)
    BY <1>1, HeldIsNat DEF AssertedBy, Unit
  <2>2. Count(z3.refs, o) = a + b
    BY <2>1 DEF IInv, Balanced
  <2>3. Count(y.refs, o) = a + b - d
    BY <1>6, <2>1, <2>2
  <2>4. Held(handles', o) = a - d
    BY <1>7, <2>1
  <2> QED
    BY <2>1, <2>3, <2>4
<1> QED
  BY <1>5, <1>6, <1>8

\* A solver that goes has one reference, and it gives back what is asserted.
LEMMA SolverGoes ==
    ASSUME IInv, NEW n \in Nat, n = Len(handles), n # 0, handles' = Front(handles),
           NEW h, h = Last(handles), h.class = "solver",
           NEW y, y = Z3_solver_dec_ref(z3, h.obj)
    PROVE  /\ IsZ3(y) /\ y.open /\ ~y.misuse /\ DOMAIN y.asserted = DOMAIN z3.asserted
           /\ \A s \in DOMAIN z3.asserted : s # h.obj => y.asserted[s] = z3.asserted[s]
           /\ n \in 2 .. 5 /\ h.obj = <<"solver", n>>
           /\ IsRefs(y.refs)
           /\ \A o : o # Null => Count(y.refs, o) = Held(handles', o)
<1>1. handles \in Seq(Handle) /\ handles # <<>> /\ IsZ3(z3) /\ ~z3.misuse /\ IsRefs(z3.refs)
  BY DEF IInv, Typed, Balanced
<1>2. n \in 1 .. Len(handles) /\ h = handles[n]
  BY DEF Last
<1>3. n \in 2 .. 5 /\ h.obj = <<"solver", n>> /\ (n # 5 => n < 5)
  <2>1. Class(n) = "solver"
    BY <1>2 DEF IInv, Placed
  <2>2. n \in 2 .. 5 /\ n \in 2 .. 6 /\ n # 1
    BY <2>1 DEF Class
  <2>3. h.obj = <<Class(n), n>>
    BY <1>2, <2>2 DEF IInv, Placed
  <2> QED
    BY <2>1, <2>2, <2>3
<1>4. PICK s : s = h.obj
  OBVIOUS
<1>5. s # Null /\ s \notin Term
  <2>1. s \in {"solver", "params"} \X Nat
    BY <1>3, <1>4
  <2> QED
    BY <2>1, TermsAreNoSolvers
<1>6. PICK last : last = Z3_dec_ref(z3, s)
  OBVIOUS
<1>7. /\ IsZ3(last) /\ last.open /\ ~last.misuse /\ last.asserted = z3.asserted
      /\ last.timed = z3.timed /\ IsRefs(last.refs)
      /\ \A o : o # Null => Count(last.refs, o) = Held(handles', o) + AssertedBy(z3, n, o)
  BY <1>4, <1>5, <1>6, LosesOne
<1>8. s \in DOMAIN z3.asserted /\ (n # 5 => z3.asserted[s] = <<>>)
  BY <1>2, <1>4 DEF IInv, Stacked
<1>9. n = 5 => s = Comparer /\ z3.asserted[s] \in Frames
  <2>1. n = 5 => s = Comparer
    BY <1>3, <1>4 DEF Comparer
  <2> QED
    BY <2>1 DEF IInv, Stacked, Frames
<1>10. AssertedBy(z3, n, s) = 0
  <2>1. CASE n # 5
    BY <1>3, <2>1 DEF AssertedBy
  <2>2. CASE n = 5
    <3>1. z3.asserted[Comparer] # << <<s>> >>
      <4>1. SUFFICES ASSUME << <<s>> >> \in Frames PROVE FALSE
        BY <1>9, <2>2
      <4>2. <<>> # <<s>> /\ << <<>> >>[1] = <<>> /\ \A t : << <<t>> >>[1] = <<t>> /\ <<t>>[1] = t
        OBVIOUS
      <4>3. << <<s>> >> # <<>>
        BY NotNone
      <4> QED
        BY <1>5, <4>1, <4>2, <4>3 DEF Frames
    <3> QED
      BY <3>1 DEF AssertedBy
  <2> QED
    BY <2>1, <2>2
<1>11. Held(handles', s) = 0
  <2>1. Held(handles, s) = 1
    <3>1. \A i \in 1 .. Len(handles) : handles[i].obj = s => i = n
      <4> SUFFICES ASSUME NEW i \in 1 .. Len(handles), handles[i].obj = s PROVE i = n
        OBVIOUS
      <4>1. handles[i].obj \in CASE i = 1 -> {Null}
                                 [] i \in 2 .. 6 -> {<<Class(i), i>>}
                                 [] OTHER -> Term \cup {Null}
        BY DEF IInv, Placed
      <4>2. i \in 2 .. 6 /\ s = <<Class(i), i>>
        BY <1>5, <4>1
      <4> QED
        BY <1>3, <1>4, <4>2
    <3> QED
      BY <1>1, <1>2, <1>4, <3>1, HeldOnce
  <2>2. Held(handles', s) = Held(handles, s) - Unit(h.obj, s)
    BY <1>1, HeldFront
  <2>3. Unit(h.obj, s) = 1
    BY <1>4 DEF Unit
  <2> QED
    BY <2>1, <2>2, <2>3
<1>12. ~BagIn(s, last.refs)
  <2>1. Count(last.refs, s) = 0
    BY <1>5, <1>7, <1>10, <1>11
  <2> QED
    BY <1>7, <2>1, CountIsNat DEF BagIn, BagToSet
<1>13. PICK rest : rest = Released(last, Assertions(z3, s))
  OBVIOUS
<1>14. y = [rest EXCEPT !.asserted[s] = <<>>, !.timed = @ \ {s}]
  BY <1>4, <1>6, <1>12, <1>13 DEF Z3_solver_dec_ref
<1>15. /\ IsZ3(rest) /\ rest.open /\ ~rest.misuse /\ rest.asserted = z3.asserted
       /\ IsRefs(rest.refs)
       /\ \A o : o # Null => Count(rest.refs, o) = Held(handles', o)
  <2>1. handles' \in Seq(Handle)
    BY <1>1, FrontIs
  <2>2. CASE Assertions(z3, s) = <<>> /\ \A o : AssertedBy(z3, n, o) = 0
    <3>1. rest = last
      BY <1>13, <2>2, NoneReleased
    <3>2. \A o : Held(handles', o) \in Nat
      BY <2>1, HeldIsNat
    <3> QED
      BY <1>7, <2>2, <3>1, <3>2
  <2>3. CASE \E t \in Term : z3.asserted[s] = << <<t>> >> /\ n = 5
    <3>1. PICK t \in Term : z3.asserted[s] = << <<t>> >> /\ n = 5
      BY <2>3
    <3>2. Assertions(z3, s) = <<t>>
      <4>1. PICK f : f = <<t>>
        OBVIOUS
      <4>2. FlattenSeq(<<f>>) = f
        BY FlatOne
      <4> QED
        BY <3>1, <4>1, <4>2 DEF Assertions
    <3>3. \A o : AssertedBy(z3, n, o) = Unit(t, o)
      <4>1. \A o : << <<o>> >>[1] = <<o>> /\ <<o>>[1] = o
        OBVIOUS
      <4>2. \A o : << <<t>> >> = << <<o>> >> <=> t = o
        BY <4>1
      <4> QED
        BY <1>9, <3>1, <4>2 DEF AssertedBy, Unit
    <3>4. t # Null /\ t \in DOMAIN last.refs
      <4>1. t # Null
        BY NullIsNoTerm
      <4>2. Held(handles', t) \in Nat /\ Unit(t, t) = 1
        BY <2>1, HeldIsNat DEF Unit
      <4>3. Count(last.refs, t) = Held(handles', t) + 1
        BY <1>7, <3>3, <4>1, <4>2
      <4>4. Count(last.refs, t) > 0
        BY <4>2, <4>3
      <4> QED
        BY <1>7, <4>1, <4>4, CountIsNat
    <3>5. rest = With(last, last.refs (-) One(t))
      BY <1>7, <1>13, <3>2, <3>4, OneReleased, DecRefIs
    <3>6. /\ IsZ3(rest) /\ rest.open /\ ~rest.misuse /\ rest.asserted = z3.asserted
          /\ rest.refs = last.refs (-) One(t)
      BY <1>7, <3>5, WithIs
    <3>7. IsRefs(rest.refs) /\ \A o : Count(rest.refs, o) = Count(last.refs, o) - Unit(t, o)
      BY <1>7, <3>4, <3>6, CountRemoved
    <3>8. \A o : o # Null => Count(rest.refs, o) = Held(handles', o)
      <4> SUFFICES ASSUME NEW o, o # Null PROVE Count(rest.refs, o) = Held(handles', o)
        OBVIOUS
      <4>1. PICK a \in Nat, d \in Nat : a = Held(handles', o) /\ d = Unit(t, o)
        BY <2>1, HeldIsNat DEF Unit
      <4>2. Count(last.refs, o) = a + d
        BY <1>7, <3>3, <4>1
      <4> QED
        BY <3>7, <4>1, <4>2
    <3> QED
      BY <3>6, <3>7, <3>8
  <2>4. \/ z3.asserted[s] = <<>>
        \/ n = 5 /\ z3.asserted[s] = << <<>> >>
        \/ \E t \in Term : z3.asserted[s] = << <<t>> >> /\ n = 5
    BY <1>8, <1>9 DEF Frames
  <2>5. CASE z3.asserted[s] = <<>>
    <3>1. Assertions(z3, s) = <<>>
      BY <2>5, FlatNone DEF Assertions
    <3>2. \A o : AssertedBy(z3, n, o) = 0
      <4>1. CASE n # 5
        BY <1>3, <4>1 DEF AssertedBy
      <4>2. CASE n = 5
        <5>1. z3.asserted[Comparer] = <<>>
          BY <1>9, <2>5, <4>2
        <5> QED
          BY <5>1, NotNone DEF AssertedBy
      <4> QED
        BY <4>1, <4>2
    <3> QED
      BY <2>2, <3>1, <3>2
  <2>6. CASE n = 5 /\ z3.asserted[s] = << <<>> >>
    <3>1. Assertions(z3, s) = <<>>
      BY <2>6, FlatOne DEF Assertions
    <3>2. \A o : AssertedBy(z3, n, o) = 0
      <4>1. \A o : <<>> # <<o>> /\ << <<>> >>[1] = <<>> /\ << <<o>> >>[1] = <<o>>
        OBVIOUS
      <4>2. \A o : << <<>> >> # << <<o>> >>
        BY <4>1
      <4> QED
        BY <1>9, <2>6, <4>2 DEF AssertedBy
    <3> QED
      BY <2>2, <3>1, <3>2
  <2> QED
    BY <2>3, <2>4, <2>5, <2>6
<1>16. /\ IsZ3(y) /\ y.open /\ ~y.misuse /\ DOMAIN y.asserted = DOMAIN z3.asserted
       /\ \A r \in DOMAIN z3.asserted : r # s => y.asserted[r] = z3.asserted[r]
       /\ y.refs = rest.refs
  BY <1>14, <1>15 DEF IsZ3
<1> QED
  BY <1>3, <1>4, <1>15, <1>16

\* Nothing is held when there is no handle.
LEMMA NoneHeld ==
    ASSUME NEW o
    PROVE  Held(<<>>, o) = 0
<1>1. Holders(<<>>, o) = {}
  BY DEF Holders
<1> QED
  BY <1>1, FS_EmptySet DEF Held, Holders

LEMMA ClassIs ==
    ASSUME NEW k \in Nat
    PROVE  /\ k = 5 => Class(k) = "solver"
           /\ k # 1 => Class(k) # "context"
           /\ Class(k) = "params" => k \in 2 .. 6
BY DEF Class

LEMMA Destroys ==
    ASSUME IInv, NEW n \in Nat, n = Len(handles), n # 0, handles' = Front(handles),
           z3' = Destroyed(Last(handles)), UNCHANGED <<calls, unwinding>>,
           ~unwinding => Places(calls, n - 1),
           ~unwinding /\ Len(calls) >= 2 /\ calls[2].at = "machines" => n >= 7
    PROVE  IInv'
<1>1. handles \in Seq(Handle) /\ handles # <<>> /\ IsZ3(z3) /\ ~z3.misuse /\ IsRefs(z3.refs)
      /\ z3.open
  BY DEF IInv, Typed, Balanced
<1>2. PICK h : h = Last(handles)
  OBVIOUS
<1>3. n \in 1 .. Len(handles) /\ h = handles[n] /\ h \in Handle
  BY <1>1, <1>2, FrontIs DEF Last
<1>4. h.class = Class(n)
  BY <1>3 DEF IInv, Placed
<1>5. h.obj \in CASE n = 1 -> {Null}
                  [] n \in 2 .. 6 -> {<<Class(n), n>>}
                  [] OTHER -> Term \cup {Null}
  BY <1>3 DEF IInv, Placed
<1>6. CASE n = 1
  <2>1. h.class = "context"
    BY <1>4, <1>6 DEF Class
  <2>2. z3' = Z3_del_context(z3)
    BY <1>2, <2>1 DEF Destroyed
  <2>3. /\ IsZ3(z3') /\ ~z3'.misuse /\ z3'.asserted = z3.asserted /\ z3'.refs = EmptyBag
    BY <1>1, <2>2 DEF Z3_del_context, IsZ3
  <2>4. handles' = <<>>
    <3>1. PICK f : f = Front(handles)
      OBVIOUS
    <3>2. f \in Seq(Handle) /\ Len(f) = n - 1
      BY <1>1, <3>1, FrontIs
    <3>3. Len(f) = 0
      BY <1>6, <3>2
    <3> QED
      BY <3>1, <3>2, <3>3, EmptySeq
  <2>5. DOMAIN EmptyBag = {}
    BY DEF EmptyBag, SetToBag
  <2>6. IsRefs(z3'.refs)
    BY <2>3, <2>5 DEF IsRefs
  <2>7. \A o : o # Null =>
          Count(z3'.refs, o) = Held(handles', o) + AssertedBy(z3', n - 1, o)
    BY <1>6, <2>3, <2>4, <2>5, NoneHeld DEF Count, AssertedBy
  <2>8. ~(n > 1) /\ ~(n >= 7)
    BY <1>6
  <2> QED
    BY <2>3, <2>6, <2>7, <2>8, Drops
<1>7. CASE h.class = "solver"
  <2>1. z3' = Z3_solver_dec_ref(z3, h.obj)
    BY <1>2, <1>7 DEF Destroyed
  <2>2. /\ IsZ3(z3') /\ z3'.open /\ ~z3'.misuse /\ DOMAIN z3'.asserted = DOMAIN z3.asserted
        /\ \A s \in DOMAIN z3.asserted : s # h.obj => z3'.asserted[s] = z3.asserted[s]
        /\ n \in 2 .. 5 /\ h.obj = <<"solver", n>>
        /\ IsRefs(z3'.refs)
        /\ \A o : o # Null => Count(z3'.refs, o) = Held(handles', o)
    BY <1>2, <1>7, <2>1, SolverGoes
  <2>3. \A k \in 1 .. n - 1 : handles[k].class = "solver" =>
              z3'.asserted[handles[k].obj] = z3.asserted[handles[k].obj]
    <3> SUFFICES ASSUME NEW k \in 1 .. n - 1, handles[k].class = "solver"
                 PROVE  z3'.asserted[handles[k].obj] = z3.asserted[handles[k].obj]
      OBVIOUS
    <3>1. k \in 1 .. Len(handles) /\ k # n
      OBVIOUS
    <3>2. handles[k].obj \in DOMAIN z3.asserted
      BY <3>1 DEF IInv, Stacked
    <3>3. Class(k) = "solver"
      BY <3>1 DEF IInv, Placed
    <3>4. k \in 2 .. 6 /\ k # 1
      BY <2>2, <3>3 DEF Class
    <3>5. handles[k].obj = <<Class(k), k>>
      BY <3>1, <3>4 DEF IInv, Placed
    <3>6. handles[k].obj # h.obj
      BY <2>2, <3>1, <3>5
    <3> QED
      BY <2>2, <3>2, <3>6
  <2>4. ~(n >= 7) /\ ~(n - 1 >= 5)
    BY <2>2
  <2>5. \A o : o # Null =>
          Count(z3'.refs, o) = Held(handles', o) + AssertedBy(z3', n - 1, o)
    <3>1. \A o : AssertedBy(z3', n - 1, o) = 0
      BY <2>4 DEF AssertedBy
    <3>2. \A o : Held(handles', o) \in Nat
      <4>1. handles' \in Seq(Handle)
        BY <1>1, FrontIs
      <4> QED
        BY <4>1, HeldIsNat
    <3> QED
      BY <2>2, <3>1, <3>2
  <2> QED
    BY <2>2, <2>3, <2>4, <2>5, Drops
<1>8. CASE n # 1 /\ h.class # "solver"
  <2>1. h.class # "context" /\ n # 5
    BY <1>4, <1>8, ClassIs
  <2>2. \A y : y.asserted = z3.asserted => \A o : AssertedBy(y, n - 1, o) = AssertedBy(z3, n, o)
    <3>1. n - 1 >= 5 <=> n >= 5
      BY <2>1
    <3> QED
      BY <3>1 DEF AssertedBy
  <2>3. CASE h.obj = Null
    <3>1. h.class # "params"
      <4> SUFFICES ASSUME h.class = "params" PROVE FALSE
        OBVIOUS
      <4>1. n \in 2 .. 6
        BY <1>4, ClassIs
      <4>2. Null = <<"params", n>>
        BY <1>4, <1>5, <1>8, <2>3, <4>1
      <4>3. Null \in {"solver", "params"} \X Nat
        BY <4>2
      <4> QED
        BY <4>3, TermsAreNoSolvers
    <3>2. z3' = z3
      BY <1>2, <1>8, <2>1, <2>3, <3>1 DEF Destroyed
    <3>3. \A o : o # Null =>
            Count(z3'.refs, o) = Held(handles', o) + AssertedBy(z3', n - 1, o)
      <4> SUFFICES ASSUME NEW o, o # Null
                   PROVE  Count(z3.refs, o) = Held(handles', o) + AssertedBy(z3, n - 1, o)
        BY <3>2
      <4>1. Held(handles', o) = Held(handles, o) - Unit(h.obj, o)
        BY <1>1, <1>2, HeldFront
      <4>2. Unit(h.obj, o) = 0 /\ Held(handles, o) \in Nat
        BY <1>1, <2>3, HeldIsNat DEF Unit
      <4>3. Count(z3.refs, o) = Held(handles, o) + AssertedBy(z3, n, o)
        BY DEF IInv, Balanced
      <4> QED
        BY <2>2, <4>1, <4>2, <4>3
    <3> QED
      BY <1>1, <3>2, <3>3, Drops
  <2>4. CASE h.obj # Null
    <3>1. z3' = Z3_dec_ref(z3, h.obj)
      BY <1>2, <1>8, <2>1, <2>4 DEF Destroyed
    <3>2. /\ IsZ3(z3') /\ z3'.open /\ ~z3'.misuse /\ z3'.asserted = z3.asserted
          /\ z3'.timed = z3.timed /\ IsRefs(z3'.refs)
          /\ \A o : o # Null =>
               Count(z3'.refs, o) = Held(handles', o) + AssertedBy(z3, n, o)
      BY <1>2, <2>4, <3>1, LosesOne
    <3>3. \A o : o # Null =>
            Count(z3'.refs, o) = Held(handles', o) + AssertedBy(z3', n - 1, o)
      BY <2>2, <3>2
    <3> QED
      BY <3>2, <3>3, Drops
  <2> QED
    BY <2>3, <2>4
<1> QED
  BY <1>6, <1>7, <1>8

LEMMA DestroysLast ==
    ASSUME IInv, Destroy \/ EndTemporary
    PROVE  IInv'
<1>1. /\ Typed /\ handles' = Front(handles) /\ z3' = Destroyed(Last(handles))
      /\ UNCHANGED <<calls, unwinding>> /\ (~unwinding => Places(calls, Len(handles)))
  BY DEF IInv, Destroy, EndTemporary
<1>2. PICK m \in Nat, n \in Nat : m = Len(calls) /\ n = Len(handles) /\ (m = 0 <=> calls = <<>>)
  BY <1>1, Lengths
<1>3. CASE unwinding
  <2>1. Destroy /\ Base = 0
    BY <1>3 DEF EndTemporary, At, Base
  <2>2. n # 0
    BY <1>2, <2>1 DEF Destroy
  <2> QED
    BY <1>1, <1>2, <1>3, <2>2, Destroys
<1>4. CASE ~unwinding /\ Destroy
  <2>1. /\ calls # <<>> /\ Places(calls, n) /\ calls[m].at \in {"drop", "return"}
        /\ n > calls[m].base
    BY <1>1, <1>2, <1>4 DEF Destroy, At, Top, Last, Base
  <2>2. CASE InConstructor(calls, n)
    <3>1. m = 1 /\ n - 1 \in {2, 3} /\ n = 3 /\ calls[1].at = "return"
      BY <1>2, <2>1, <2>2 DEF InConstructor
    <3>2. InConstructor(calls, n - 1) /\ n # 0 /\ ~(Len(calls) >= 2)
      BY <1>2, <2>2, <3>1 DEF InConstructor
    <3> QED
      BY <1>1, <1>2, <3>2, Destroys DEF Places
  <2>3. CASE InDestructor(calls, n)
    <3>1. m = 1 /\ n \in {1, 2}
      BY <1>2, <2>1, <2>3 DEF InDestructor
    <3>2. InDestructor(calls, n - 1) /\ n # 0 /\ ~(Len(calls) >= 2)
      BY <1>2, <2>3, <3>1 DEF InDestructor
    <3> QED
      BY <1>1, <1>2, <3>2, Destroys DEF Places
  <2>4. CASE InSplit(calls, n)
    <3>1. m = 1 /\ n \in {3, 4} /\ calls[1].at = "return"
      BY <1>2, <2>1, <2>4 DEF InSplit
    <3>2. InSplit(calls, n - 1) /\ n # 0 /\ ~(Len(calls) >= 2)
      BY <1>2, <2>4, <3>1 DEF InSplit
    <3> QED
      BY <1>1, <1>2, <3>2, Destroys DEF Places
  <2>5. CASE InCompare(calls, n)
    <3>1. m = 2 /\ n > 4 /\ calls[2].at = "return"
      BY <1>2, <2>1, <2>5 DEF InCompare
    <3>2. n - 1 >= 4 /\ n # 0 /\ calls[2].at # "machines"
      BY <3>1
    <3>3. InCompare(calls, n - 1)
      BY <1>2, <2>5, <3>1, <3>2 DEF InCompare
    <3> QED
      BY <1>1, <1>2, <3>2, <3>3, Destroys DEF Places
  <2>6. CASE InEquivalent(calls, n)
    <3>1. PICK b \in Nat : b = calls[3].base
      BY <1>1, <2>6, Bases
    <3>2. m = 3 /\ n > b /\ b >= 7 /\ n >= 7 /\ n # 0 /\ n - 1 >= b /\ calls[3].at = "drop"
      BY <1>2, <2>1, <2>6, <3>1 DEF InEquivalent
    <3>3. InEquivalent(calls, n - 1)
      BY <1>2, <2>6, <3>1, <3>2 DEF InEquivalent
    <3> QED
      BY <1>1, <1>2, <3>2, <3>3, Destroys DEF Places
  <2> QED
    BY <2>1, <2>2, <2>3, <2>4, <2>5, <2>6 DEF Places
<1>5. CASE ~unwinding /\ EndTemporary
  <2>1. /\ calls # <<>> /\ Places(calls, n) /\ calls[m].at = "machines"
        /\ handles[n].class = "expr"
    BY <1>1, <1>2, <1>5 DEF EndTemporary, At, Top, Last
  <2>2. InCompare(calls, n) /\ m = 2 /\ n >= 6
    <3>1. ~InConstructor(calls, n) /\ ~InDestructor(calls, n) /\ ~InEquivalent(calls, n)
          /\ ~InSplit(calls, n)
      BY <1>2, <2>1 DEF InConstructor, InDestructor, InEquivalent, InSplit
    <3>2. InCompare(calls, n) => m = 2 /\ n >= 6
      BY <1>2, <2>1 DEF InCompare
    <3> QED
      BY <2>1, <3>1, <3>2 DEF Places
  <2>3. n >= 7
    <3>1. n \in Own
      BY <1>2, <2>1, <2>2 DEF Own
    <3> QED
      BY <3>1, OwnIs
  <2>4. InCompare(calls, n - 1) /\ n # 0
    <3>1. n - 1 >= 6
      BY <2>3
    <3> QED
      BY <1>2, <2>1, <2>2, <2>3, <3>1 DEF InCompare
  <2> QED
    BY <1>1, <1>2, <2>3, <2>4, Destroys DEF Places
<1> QED
  BY <1>3, <1>4, <1>5

\* The handles are where the calls left them, no call misuses the API, each
\* count of references is that of the handles and assertions, and the solver
\* that compares has what the query under way has told it (z3++.h;
\* enumerator.cpp:41-63, 228-375).
THEOREM Invariant == Spec => []IInv
<1>1. IInv /\ [Next]_vars => IInv'
  <2> SUFFICES ASSUME IInv, [Next]_vars PROVE IInv'
    OBVIOUS
  <2>1. CASE Destroy \/ EndTemporary
    BY <2>1, DestroysLast
  <2>2. CASE Return
    BY <2>2, Returns
  <2>3. CASE ThreadContext
    BY <2>3, MakesContext
  <2>4. CASE NewSolver
    BY <2>4, MakesSolver
  <2>5. CASE NewParams
    BY <2>5, MakesParams
  <2>6. CASE SetTimeout
    BY <2>6, SetsTimeout
  <2>7. CASE process_sequences \/ End
    BY <2>7, Calling
  <2>8. CASE Leave
    BY <2>8, Leaves
  <2>9. CASE Operator
    BY <2>9, Operates
  <2>10. CASE Copy
    BY <2>10, Duplicates
  <2>11. CASE Assign
    BY <2>11, Assigns
  <2>12. CASE equivalent
    BY <2>12, Asks
  <2>13. CASE Push
    BY <2>13, Pushes
  <2>14. CASE AssertQuery
    BY <2>14, AssertsQuery
  <2>15. CASE Check
    BY <2>15, Checks
  <2>16. CASE Pop
    BY <2>16, Pops
  <2>17. CASE UNCHANGED vars
    BY <2>17, Stutters
  <2> QED
    BY <2>1, <2>2, <2>3, <2>4, <2>5, <2>6, <2>7, <2>8, <2>9, <2>10, <2>11, <2>12, <2>13, <2>14,
       <2>15, <2>16, <2>17 DEF Next
<1> QED
  BY <1>1, InitIs, PTL DEF Spec

-----------------------------------------------------------------------------
(* What follows.                                                           *)

\* When the solver is asked about two machines it is asked about nothing else,
\* about an expression, and with a time limit, whatever was thrown before
\* (equivalent and process_sequences, enumerator.cpp:41-63 and 243-246).
THEOREM AskedAlone == Spec => []QueryIsAlone
<1>1. IInv => QueryIsAlone
  <2> SUFFICES ASSUME IInv, NEW i \in 1 .. Len(calls), calls[i].at = "drop", ~unwinding
               PROVE  /\ Assertions(z3, solver) = <<calls[i].asked>>
                      /\ calls[i].asked \in Term
                      /\ solver \in z3.timed
    BY DEF QueryIsAlone
  <2>1. Typed /\ Places(calls, Len(handles))
    BY DEF IInv
  <2>2. PICK m \in Nat : m = Len(calls) /\ m # 0 /\ calls # <<>>
    BY <2>1, Lengths
  <2>3. i = m
    <3>1. CASE InConstructor(calls, Len(handles)) \/ InDestructor(calls, Len(handles))
               \/ InSplit(calls, Len(handles))
      BY <2>2, <3>1 DEF InConstructor, InDestructor, InSplit
    <3>2. CASE InCompare(calls, Len(handles))
      BY <2>2, <3>2 DEF InCompare, Splitting
    <3>3. CASE InEquivalent(calls, Len(handles))
      BY <2>2, <3>3 DEF InEquivalent, Splitting
    <3> QED
      BY <2>1, <2>2, <3>1, <3>2, <3>3 DEF Places
  <2>4. /\ Len(calls) = 3 /\ solver = Comparer /\ z3.asserted[Comparer] \in Frames
        /\ z3.asserted[Comparer] = Stack(calls) /\ Comparer \in z3.timed
    BY <2>2, <2>3, Comparing
  <2>5. PICK a : a = calls[i].asked
    OBVIOUS
  <2>6. z3.asserted[Comparer] = << <<a>> >>
    BY <2>2, <2>3, <2>4, <2>5 DEF Stack
  <2>7. a \in Term
    <3>1. <<>> # <<a>> /\ << <<>> >>[1] = <<>> /\ << <<a>> >>[1] = <<a>> /\ << <<a>> >> # <<>>
      BY NotNone
    <3>2. \A t : << <<t>> >>[1] = <<t>> /\ <<t>>[1] = t
      OBVIOUS
    <3> QED
      BY <2>4, <2>6, <3>1, <3>2 DEF Frames
  <2>8. Assertions(z3, solver) = <<a>>
    <3>1. PICK f : f = <<a>>
      OBVIOUS
    <3>2. FlattenSeq(<<f>>) = f
      BY FlatOne
    <3> QED
      BY <2>4, <2>6, <3>1, <3>2 DEF Assertions
  <2> QED
    BY <2>4, <2>5, <2>7, <2>8
<1> QED
  BY <1>1, Invariant, PTL

LEMMA AssertedIs ==
    ASSUME IInv, NEW o
    PROVE  Cardinality({a \in Asserted : Assertions(z3, a[1])[a[2]] = o})
             = AssertedBy(z3, Len(handles), o)
<1>1. PICK n \in Nat : n = Len(handles)
  BY Lengths DEF IInv
<1>2. \A s \in Solvers : s # Comparer => Assertions(z3, s) = <<>>
  <2> SUFFICES ASSUME NEW s \in Solvers, s # Comparer PROVE Assertions(z3, s) = <<>>
    OBVIOUS
  <2>1. PICK k \in 1 .. n : handles[k].class = "solver" /\ handles[k].obj = s
    BY <1>1 DEF Solvers
  <2>2. Class(k) = "solver"
    BY <1>1, <2>1 DEF IInv, Placed
  <2>3. k \in 2 .. 6 /\ k # 1
    BY <2>2 DEF Class
  <2>4. s = <<"solver", k>>
    BY <1>1, <2>1, <2>2, <2>3 DEF IInv, Placed
  <2>5. k # 5
    BY <2>4 DEF Comparer
  <2>6. z3.asserted[s] = <<>>
    BY <1>1, <2>1, <2>5 DEF IInv, Stacked
  <2> QED
    BY <2>6, FlatNone DEF Assertions
<1>3. Comparer \in Solvers <=> n >= 5
  <2>1. CASE n >= 5
    <3>1. 5 \in 1 .. Len(handles) /\ 5 \in 2 .. 6 /\ 5 # 1 /\ Class(5) = "solver"
      BY <1>1, <2>1 DEF Class
    <3>2. handles[5].class = "solver" /\ handles[5].obj = Comparer
      BY <3>1 DEF IInv, Placed, Comparer
    <3> QED
      BY <2>1, <3>1, <3>2 DEF Solvers
  <2>2. CASE ~(n >= 5)
    <3> SUFFICES ASSUME Comparer \in Solvers PROVE FALSE
      BY <2>2
    <3>1. PICK k \in 1 .. n : handles[k].class = "solver" /\ handles[k].obj = Comparer
      BY <1>1 DEF Solvers
    <3>2. Class(k) = "solver"
      BY <1>1, <3>1 DEF IInv, Placed
    <3>3. k \in 2 .. 6 /\ k # 1
      BY <3>2 DEF Class
    <3>4. Comparer = <<"solver", k>>
      BY <1>1, <3>1, <3>2, <3>3 DEF IInv, Placed
    <3> QED
      BY <2>2, <3>4 DEF Comparer
  <2> QED
    BY <2>1, <2>2
<1>4. \A a : a \in Asserted <=>
        \E s \in Solvers : \E k \in 1 .. Len(Assertions(z3, s)) : a = <<s, k>>
  BY DEF Asserted
<1>5. PICK As : As = {a \in Asserted : Assertions(z3, a[1])[a[2]] = o}
  OBVIOUS
<1>6. \A a \in Asserted : n >= 5 /\ a[1] = Comparer /\ \E k \in 1 .. Len(Assertions(z3, Comparer)) : a = <<Comparer, k>>
  <2> SUFFICES ASSUME NEW a \in Asserted
               PROVE  /\ n >= 5 /\ a[1] = Comparer
                      /\ \E k \in 1 .. Len(Assertions(z3, Comparer)) : a = <<Comparer, k>>
    OBVIOUS
  <2>1. PICK s \in Solvers : \E k \in 1 .. Len(Assertions(z3, s)) : a = <<s, k>>
    BY <1>4
  <2>2. PICK k \in 1 .. Len(Assertions(z3, s)) : a = <<s, k>>
    BY <2>1
  <2>3. s = Comparer
    <3> SUFFICES ASSUME s # Comparer PROVE FALSE
      OBVIOUS
    <3>1. Len(Assertions(z3, s)) = 0
      BY <1>2
    <3> QED
      BY <2>2, <3>1
  <2> QED
    BY <1>3, <2>2, <2>3
<1>7. CASE \E t \in Term : n >= 5 /\ z3.asserted[Comparer] = << <<t>> >>
  <2>1. PICK t \in Term : n >= 5 /\ z3.asserted[Comparer] = << <<t>> >>
    BY <1>7
  <2>2. PICK f : f = Assertions(z3, Comparer) /\ f = <<t>>
    <3>1. PICK g : g = <<t>>
      OBVIOUS
    <3>2. FlattenSeq(<<g>>) = g
      BY FlatOne
    <3> QED
      BY <2>1, <3>1, <3>2 DEF Assertions
  <2>3. Len(f) = 1 /\ f[1] = t
    BY <2>2
  <2>4. Asserted = {<<Comparer, 1>>}
    <3>1. <<Comparer, 1>> \in Asserted
      <4>1. Comparer \in Solvers
        BY <1>3, <2>1
      <4>2. 1 \in 1 .. Len(Assertions(z3, Comparer))
        BY <2>2, <2>3
      <4>3. \E s \in Solvers : \E k \in 1 .. Len(Assertions(z3, s)) : <<Comparer, 1>> = <<s, k>>
        BY <4>1, <4>2
      <4> QED
        BY <1>4, <4>3
    <3>2. \A a \in Asserted : a = <<Comparer, 1>>
      BY <1>6, <2>2, <2>3
    <3> QED
      BY <3>1, <3>2
  <2>5. As = IF t = o THEN {<<Comparer, 1>>} ELSE {}
    <3>1. PICK c : c = <<Comparer, 1>>
      OBVIOUS
    <3>2. Assertions(z3, c[1])[c[2]] = t
      BY <2>2, <2>3, <3>1
    <3> QED
      BY <1>5, <2>4, <3>1, <3>2
  <2>6. Cardinality(As) = Unit(t, o)
    <3>1. Cardinality({<<Comparer, 1>>}) = 1 /\ Cardinality({}) = 0
      BY FS_Singleton, FS_EmptySet
    <3> QED
      BY <2>5, <3>1 DEF Unit
  <2>7. AssertedBy(z3, n, o) = Unit(t, o)
    <3>1. << <<t>> >>[1] = <<t>> /\ << <<o>> >>[1] = <<o>> /\ <<t>>[1] = t /\ <<o>>[1] = o
      OBVIOUS
    <3>2. << <<t>> >> = << <<o>> >> <=> t = o
      BY <3>1
    <3> QED
      BY <2>1, <3>2 DEF AssertedBy, Unit
  <2> QED
    BY <1>1, <1>5, <2>6, <2>7
<1>8. CASE ~\E t \in Term : n >= 5 /\ z3.asserted[Comparer] = << <<t>> >>
  <2>1. n >= 5 => z3.asserted[Comparer] = <<>> \/ z3.asserted[Comparer] = << <<>> >>
    BY <1>1, <1>8 DEF IInv, Stacked
  <2>2. n >= 5 => Assertions(z3, Comparer) = <<>>
    BY <2>1, FlatNone, FlatOne DEF Assertions
  <2>3. Asserted = {}
    BY <1>6, <2>2
  <2>4. Cardinality(As) = 0
    <3>1. As = {}
      BY <1>5, <2>3
    <3> QED
      BY <3>1, FS_EmptySet
  <2>5. AssertedBy(z3, n, o) = 0
    <3>1. <<>> # <<o>> /\ << <<>> >>[1] = <<>> /\ << <<o>> >>[1] = <<o>>
      OBVIOUS
    <3>2. << <<o>> >> # <<>> /\ << <<o>> >> # << <<>> >>
      BY <3>1, NotNone
    <3> QED
      BY <2>1, <3>2 DEF AssertedBy
  <2> QED
    BY <1>1, <1>5, <2>4, <2>5
<1> QED
  BY <1>7, <1>8

\* No call is about what is gone, and every count is that of the handles and of
\* the assertions (ast::operator=, the destructors of z3++.h, and the members
\* of process_hashes_thread_context in their order).
THEOREM ReferencesCounted == Spec => []CountsHold
<1>1. IInv => CountsHold
  <2> SUFFICES ASSUME IInv PROVE CountsHold
    OBVIOUS
  <2>1. \A o \in Objects : o # Null
    BY DEF Objects, BagToSet, IInv, Balanced, IsRefs
  <2>2. \A o : o # Null => Copies(o) = References(o)
    <3> SUFFICES ASSUME NEW o, o # Null PROVE Copies(o) = References(o)
      OBVIOUS
    <3>1. Copies(o) = Held(handles, o) + AssertedBy(z3, Len(handles), o)
      BY DEF IInv, Balanced, Copies, Count
    <3>2. References(o) = Held(handles, o) + AssertedBy(z3, Len(handles), o)
      BY AssertedIs DEF References, Held
    <3> QED
      BY <3>1, <3>2
  <2> QED
    BY <2>1, <2>2 DEF IInv, CountsHold
<1> QED
  BY <1>1, Invariant, PTL
=============================================================================

----------------------------- MODULE Z3Objects -----------------------------
(***************************************************************************)
(* One thread's use of the solver: enumerator.cpp through the classes of   *)
(* z3++.h, each object of which holds a reference to an object of the API  *)
(* from its constructor to its destructor.                                 *)
(*                                                                         *)
(* handles are the objects of C++ that are alive, in the order in which    *)
(* they were made; calls the functions that run, each with the number of   *)
(* handles that it found and must leave.  A function of the API that fails *)
(* makes check_error throw, and every handle is destroyed on the way out.  *)
(* Two terms that are the same are one object of the API.                  *)
(***************************************************************************)
EXTENDS Integers, Sequences, SequencesExt, FiniteSets, Bags

CONSTANTS Term,        \* the expressions that are made
          Null,        \* the handle of a function that failed unnoticed
          MaxTerms     \* handles of terms that one call makes

ASSUME NullIsNoTerm == Null \notin Term
ASSUME TermsAreBounded == MaxTerms \in Nat
ASSUME TermsAreNoSolvers ==
    \A t \in Term \cup {Null} : t \notin {"solver", "params"} \X Nat

VARIABLES z3,          \* the context and its objects
          handles, calls,
          unwinding    \* an exception is on its way

vars == <<z3, handles, calls, unwinding>>

-----------------------------------------------------------------------------
\* The API: refs are the reference counts of what is alive, asserted the
\* stack of frames of each solver, limited the parameters that have a timeout,
\* timed the solvers they were given to; misuse tells of a call about an object
\* that is gone.
NoContext == [open |-> FALSE, refs |-> EmptyBag, asserted |-> <<>>,
              limited |-> {}, timed |-> {}, misuse |-> FALSE]

One(o) == SetToBag({o})

Z3_mk_context_rc(z) == [z EXCEPT !.open = TRUE]
Z3_del_context(z)   == [z EXCEPT !.open = FALSE, !.refs = EmptyBag]

IsLive(z, o) == z.open /\ (o = Null \/ BagIn(o, z.refs))
Checked(z, o, result) == IF IsLive(z, o) THEN result ELSE [z EXCEPT !.misuse = TRUE]

Z3_inc_ref(z, o) == Checked(z, o, IF o = Null THEN z ELSE [z EXCEPT !.refs = @ (+) One(o)])
Z3_dec_ref(z, o) == Checked(z, o, [z EXCEPT !.refs = @ (-) One(o)])

\* What is made is referred to at once: an object that existed already gets one
\* reference more.
Made(z, o) == IF z.open THEN [z EXCEPT !.refs = @ (+) One(o)] ELSE [z EXCEPT !.misuse = TRUE]

Z3_mk_params(z, p) == [Made(z, p) EXCEPT !.limited = @ \ {p}]

\* A solver starts without a frame.
Started(asserted, s) ==
    [r \in DOMAIN asserted \cup {s} |-> IF r = s THEN <<>> ELSE asserted[r]]

Z3_mk_solver(z, s) == [Made(z, s) EXCEPT !.asserted = Started(@, s)]

Assertions(z, s) == FlattenSeq(z.asserted[s])

\* The terms lose a reference, one after the other.
Released(z, terms) ==
    LET rest[n \in 0 .. Len(terms)] ==
          IF n = 0 THEN z ELSE Z3_dec_ref(rest[n - 1], terms[n])
    IN  rest[Len(terms)]

\* A solver that goes gives back its assertions.
Z3_solver_dec_ref(z, s) ==
    LET last == Z3_dec_ref(z, s)
    IN  IF BagIn(s, last.refs) THEN last
        ELSE [Released(last, Assertions(z, s))
                EXCEPT !.asserted[s] = <<>>, !.timed = @ \ {s}]

\* A solver takes over what the parameters are at that time.
Z3_params_set_uint(z, p)  == Checked(z, p, [z EXCEPT !.limited = @ \cup {p}])
Z3_solver_set_params(z, s, p) ==
    Checked(z, s, Checked(z, p, IF p \in z.limited THEN [z EXCEPT !.timed = @ \cup {s}] ELSE z))
Z3_solver_push(z, s)      == Checked(z, s, [z EXCEPT !.asserted[s] = Append(@, <<>>)])
Z3_solver_assert(z, s, t) ==
    Checked(z, s, [Z3_inc_ref(z, t) EXCEPT !.asserted[s] = Append(Front(@), Append(Last(@), t))])
Z3_solver_pop(z, s) ==
    Checked(z, s, [Released(z, Last(z.asserted[s]))
                     EXCEPT !.asserted[s] = Front(@)])
Z3_solver_check(z, s)     == Checked(z, s, z)

-----------------------------------------------------------------------------
Init == z3 = NoContext /\ handles = <<>> /\ calls = <<>> /\ unwinding = FALSE

Top == Last(calls)
At(labels) == ~unwinding /\ calls # <<>> /\ Top.at \in labels
GoTo(label) == calls' = [calls EXCEPT ![Len(calls)].at = label]
Enter(function, base, label) ==
    calls' = Append(calls, [function |-> function, base |-> base, at |-> label, asked |-> Null])

Construct(class, o, z) == z3' = z /\ handles' = Append(handles, [class |-> class, obj |-> o])

\* A new object of a class, named after its place.
New(class) == <<class, Len(handles) + 1>>

\* The solver of the call that runs, or of its caller.
solver == handles[SelectLastInSeq(handles, LAMBDA h : h.class = "solver")].obj

Throw == unwinding' = TRUE /\ UNCHANGED <<z3, handles, calls>>

\* The destructors; those of terms pass over a handle without an object.
Destroyed(h) ==
    CASE h.class = "context" -> Z3_del_context(z3)
      [] h.class = "solver"  -> Z3_solver_dec_ref(z3, h.obj)
      [] h.class = "params"  -> Z3_dec_ref(z3, h.obj)
      [] OTHER               -> IF h.obj = Null THEN z3 ELSE Z3_dec_ref(z3, h.obj)

Base == IF calls = <<>> \/ unwinding THEN 0 ELSE Top.base

Destroy ==
    /\ unwinding \/ At({"drop", "return"})
    /\ Len(handles) > Base
    /\ handles' = Front(handles)
    /\ z3' = Destroyed(Last(handles))
    /\ UNCHANGED <<calls, unwinding>>

Return ==
    /\ At({"return"})
    /\ Len(handles) = Base
    /\ calls' = Front(calls)
    /\ UNCHANGED <<z3, handles, unwinding>>

-----------------------------------------------------------------------------
\* process_hashes_thread_context(): the context, then a solver that stays.
ThreadContext ==
    /\ calls = <<>> /\ handles = <<>> /\ ~unwinding
    /\ Construct("context", Null, Z3_mk_context_rc(z3))
    /\ Enter("constructor", 2, "solver")
    /\ UNCHANGED unwinding

\* solver(c), params p(c), p.set(":timeout", ...), solver.set(p): in the
\* constructor and in process_sequences.
NewSolver ==
    /\ At({"solver"})
    /\ LET s == New("solver") IN Construct("solver", s, Z3_mk_solver(z3, s))
    /\ GoTo("params")
    /\ UNCHANGED unwinding

NewParams ==
    /\ At({"params"})
    /\ LET p == New("params") IN Construct("params", p, Z3_mk_params(z3, p))
    /\ GoTo("set")
    /\ UNCHANGED unwinding

SetTimeout ==
    /\ At({"set"})
    /\ \/ /\ LET p == Last(handles).obj
             IN  z3' = Z3_solver_set_params(Z3_params_set_uint(z3, p), solver, p)
          /\ GoTo(CASE Top.function = "constructor" -> "return"
                    [] Top.function = "split"       -> "split"
                    [] OTHER                        -> "machines")
          /\ UNCHANGED <<handles, unwinding>>
       \/ Throw

\* process_sequences with try_split, and the call that it makes of itself
\* through process_hashes_worker for each of the smaller buckets.
process_sequences ==
    /\ \/ /\ calls = <<>> /\ handles # <<>> /\ ~unwinding
          /\ Enter("split", Len(handles), "solver")
       \/ At({"split"}) /\ Enter("compare", Len(handles), "solver")
    /\ UNCHANGED <<z3, handles, unwinding>>

Leave ==
    /\ At({"split", "machines"})
    /\ GoTo("return")
    /\ UNCHANGED <<z3, handles, unwinding>>

\* The queue is destroyed with its stores, members last to first.
End ==
    /\ calls = <<>> /\ handles # <<>> /\ ~unwinding
    /\ Enter("destructor", 0, "return")
    /\ UNCHANGED <<z3, handles, unwinding>>

-----------------------------------------------------------------------------
\* The machines of a bucket, and the query about two of them.
Own == {i \in 1 .. Len(handles) : handles[i].class = "expr"}
Room == Cardinality({i \in Own : i > Top.base}) < MaxTerms

\* An operator on any of the terms.  Those that do not check for errors make
\* a handle of no object instead of an exception; a term made of that fails.
Operator ==
    /\ At({"machines", "query"}) /\ Room
    /\ \/ \E t \in Term : Construct("expr", t, Made(z3, t)) /\ UNCHANGED <<calls, unwinding>>
       \/ Construct("expr", Null, Z3_inc_ref(z3, Null)) /\ UNCHANGED <<calls, unwinding>>
       \/ Throw

Copy ==
    /\ At({"machines"}) /\ Room
    /\ \E i \in Own : Construct("expr", handles[i].obj, Z3_inc_ref(z3, handles[i].obj))
    /\ UNCHANGED <<calls, unwinding>>

\* Wrong: without the old reference there may be nothing to refer to.
AssignedLast(z, old, new) ==
    Z3_inc_ref(IF old = Null THEN z ELSE Z3_dec_ref(z, old), new)

\* The new object gets its reference before the old one loses its own.
Assigned(z, old, new) ==
    LET kept == Z3_inc_ref(z, new)
    IN  IF old = Null THEN kept ELSE Z3_dec_ref(kept, old)

Assign ==
    /\ At({"machines"})
    /\ \E i, j \in Own :
          /\ z3' = Assigned(z3, handles[i].obj, handles[j].obj)
          /\ handles' = [handles EXCEPT ![i].obj = handles[j].obj]
    /\ UNCHANGED <<calls, unwinding>>

\* The end of a temporary.
EndTemporary ==
    /\ At({"machines"})
    /\ Last(handles).class = "expr"
    /\ handles' = Front(handles)
    /\ z3' = Destroyed(Last(handles))
    /\ UNCHANGED <<calls, unwinding>>

equivalent ==
    /\ At({"machines"})
    /\ Own # {}
    /\ Enter("equivalent", Len(handles), "push")
    /\ UNCHANGED <<z3, handles, unwinding>>

\* s.push(), s.add(!(...)), s.check() and s.pop(), each of which may throw.
Push ==
    /\ At({"push"})
    /\ \/ z3' = Z3_solver_push(z3, solver) /\ GoTo("query") /\ UNCHANGED <<handles, unwinding>>
       \/ Throw

\* That e is a Boolean is asserted first, which throws without an object.
AssertQuery ==
    /\ At({"query"})
    /\ Len(handles) > Base
    /\ \/ /\ Last(handles).obj # Null
          /\ z3' = Z3_solver_assert(z3, solver, Last(handles).obj)
          /\ calls' = [calls EXCEPT ![Len(calls)] =
                          [@ EXCEPT !.at = "drop", !.asked = Last(handles).obj]]
          /\ UNCHANGED <<handles, unwinding>>
       \/ Throw

Check ==
    /\ At({"drop"})
    /\ Len(handles) = Base
    /\ \/ z3' = Z3_solver_check(z3, solver) /\ GoTo("pop") /\ UNCHANGED <<handles, unwinding>>
       \/ Throw

\* Wrong: the query stays.
PopForgotten == At({"pop"}) /\ GoTo("return") /\ UNCHANGED <<z3, handles, unwinding>>

Pop ==
    /\ At({"pop"})
    /\ \/ z3' = Z3_solver_pop(z3, solver) /\ GoTo("return") /\ UNCHANGED <<handles, unwinding>>
       \/ Throw

Next ==
    \/ Destroy \/ Return \/ ThreadContext \/ NewSolver \/ NewParams \/ SetTimeout
    \/ process_sequences \/ Leave \/ End
    \/ Operator \/ Copy \/ Assign \/ EndTemporary
    \/ equivalent \/ Push \/ AssertQuery \/ Check \/ Pop

Spec == Init /\ [][Next]_vars

-----------------------------------------------------------------------------
\* How many references there ought to be to an object: those of the handles,
\* and those of the solvers that it is asserted in.
Solvers == {handles[i].obj : i \in {k \in 1 .. Len(handles) : handles[k].class = "solver"}}

\* The assertions, each with its solver and its place.
Asserted == UNION {{s} \X (1 .. Len(Assertions(z3, s))) : s \in Solvers}

References(o) ==
    Cardinality({i \in 1 .. Len(handles) : handles[i].obj = o})
        + Cardinality({a \in Asserted : Assertions(z3, a[1])[a[2]] = o})

Copies(o) == IF o \in DOMAIN z3.refs THEN z3.refs[o] ELSE 0

Objects == BagToSet(z3.refs) \cup ({handles[i].obj : i \in 1 .. Len(handles)} \ {Null})

\* No call is about an object or a context that is gone, in any order of
\* copies, assignments, ends of temporaries and exceptions (ast, solver and
\* params of z3++.h); and nothing stays alive that no one refers to: every
\* count is the number of the handles and assertions (ast::operator=, the
\* destructors, and the members of process_hashes_thread_context in their
\* order).
CountsHold ==
    /\ ~z3.misuse
    /\ \A o \in Objects : Copies(o) = References(o)
    /\ handles # <<>> => z3.open

\* When the solver is asked about two machines, that is all it is asked about:
\* nothing is left of the queries before, answered or not, and of calls with an
\* exception, and the query is an expression; and it has been told when to give
\* up (equivalent and process_sequences, enumerator.cpp:41-63 and 243-246).
QueryIsAlone ==
    \A i \in 1 .. Len(calls) :
        calls[i].at = "drop" /\ ~unwinding =>
            /\ Assertions(z3, solver) = <<calls[i].asked>>
            /\ calls[i].asked \in Term
            /\ solver \in z3.timed
=============================================================================

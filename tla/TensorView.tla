----------------------------- MODULE TensorView -----------------------------
(***************************************************************************)
(* _TensorView of shim/bootstrap.py: what a program inside the interpreter *)
(* sees of an array of a worker.  The program indexes a view, then what    *)
(* that gave it, and so on; beside it stands the array it means, as an     *)
(* array library would index it.                                           *)
(***************************************************************************)
EXTENDS Integers, FiniteSets, SequencesExt

CONSTANTS Shapes,     \* the shapes of the arrays that workers return
          Indices,    \* the integers programs index with
          SliceSteps, \* the steps of their slices
          ItemSize,   \* the bytes of an element
          None        \* an end that a slice leaves out

ASSUME ShapesAssumption == \A s \in Shapes : s \in Seq(Nat)
ASSUME IndicesAssumption == Indices \subseteq Int
ASSUME StepsAssumption == SliceSteps \subseteq Int \ {0}
ASSUME ItemAssumption == ItemSize \in Nat \ {0}

VARIABLES got,    \* what the program has: a view, an element or an error
          meant,  \* what it would have of the array itself
          whole,  \* the bytes of the array came with it
          item    \* the bytes of an element, or 0 for a dtype unknown to views

vars == <<got, meant, whole, item>>

Size[shape \in Seq(Nat)] == IF shape = << >> THEN 1 ELSE shape[1] * Size[Tail(shape)]
-----------------------------------------------------------------------------
(* The array as its library knows it (external) *)

\* The indices of all elements in the order of tobytes: row by row.  They also
\* are the names of the elements.
Ndindex[shape \in Seq(Nat)] ==
    IF shape = << >> THEN << << >> >>
    ELSE LET row == Ndindex[Tail(shape)]
         IN FlattenSeq([i \in 1..shape[1] |-> [n \in DOMAIN row |-> <<i - 1>> \o row[n]]])

Array(shape, at) == [is |-> "array", shape |-> shape, at |-> at]
Failure(why) == [is |-> "error", why |-> why]
Element(e) == [is |-> "element", element |-> e]

AllTuples(shape) == ToSet(Ndindex[shape])

\* slice.indices: where a slice of n elements starts and stops.
SliceIndices(s, n) ==
    LET lower == IF s.step > 0 THEN 0 ELSE -1
        upper == IF s.step > 0 THEN n ELSE n - 1
        Clamp(i) == CASE i < 0 /\ i + n < lower -> lower
                      [] i < 0 /\ i + n >= lower -> i + n
                      [] i >= 0 /\ i > upper -> upper
                      [] i >= 0 /\ i <= upper -> i
    IN [start |-> IF s.start # None THEN Clamp(s.start)
                  ELSE IF s.step > 0 THEN lower ELSE upper,
        stop  |-> IF s.stop # None THEN Clamp(s.stop)
                  ELSE IF s.step > 0 THEN upper ELSE lower]

\* An array indexed with a tuple of integers.
At(a, idx) ==
    LET n == Len(idx)
        i == [k \in 1..n |-> IF idx[k] < 0 THEN idx[k] + a.shape[k] ELSE idx[k]]
        rest == SubSeq(a.shape, n + 1, Len(a.shape))
    IN IF \/ n > Len(a.shape)
          \/ \E k \in 1..n : idx[k] < -a.shape[k] \/ idx[k] >= a.shape[k]
       THEN Failure("IndexError")
       ELSE IF rest = << >> THEN Element(a.at[i])
       ELSE Array(rest, [t \in AllTuples(rest) |-> a.at[i \o t]])

\* An array sliced along its first axis: the rows in reach, in their order.
Sliced(a, s) ==
    LET n == a.shape[1]
        ends == SliceIndices(s, n)
        taken == {i \in 0..(n - 1) :
                     IF s.step > 0
                     THEN /\ ends.start <= i /\ i < ends.stop
                          /\ (i - ends.start) % s.step = 0
                     ELSE /\ ends.stop < i /\ i <= ends.start
                          /\ (ends.start - i) % (-s.step) = 0}
        Before(i) == {j \in taken : IF s.step > 0 THEN j < i ELSE j > i}
        order == [k \in 1..Cardinality(taken) |->
                     CHOOSE i \in taken : Cardinality(Before(i)) = k - 1]
        shape == <<Len(order)>> \o Tail(a.shape)
    IN IF a.shape = << >> THEN Failure("IndexError")
       ELSE Array(shape, [t \in AllTuples(shape) |-> a.at[<<order[t[1] + 1]>> \o Tail(t)]])
-----------------------------------------------------------------------------
(* Views *)

\* The bytes of an element, each with its place in it.
Bytes(e) == [b \in 1..ItemSize |-> <<e, b>>]

\* What an array holds, in order; and tobytes.
Elements(a) == [n \in DOMAIN Ndindex[a.shape] |-> a.at[Ndindex[a.shape][n]]]
ToBytes(a) == FlattenSeq([n \in DOMAIN Elements(a) |-> Bytes(Elements(a)[n])])

\* Python's data[from:to], clamped to what there is.
Cut(data, from, to) == SubSeq(data, from + 1, IF to < Len(data) THEN to ELSE Len(data))

View(data, shape) == [is |-> "view", data |-> data, shape |-> shape]
Views == [is : {"view"}, data : Seq(Seq(Nat) \X (1..ItemSize)), shape : Seq(Nat)]

\* What bytes of different elements decode to, which is no element.
Garbage == <<-1>>

\* _decode_at: no element unless its bytes are there.
DecodeAt(v, flat) ==
    LET bytes == Cut(v.data, flat * item, (flat + 1) * item)
    IN IF item = 0 \/ Len(bytes) < item THEN Failure("undecodable")
       ELSE IF bytes = Bytes(bytes[1][1]) THEN Element(bytes[1][1])
       ELSE Element(Garbage)

\* Faulty variant: a row is as long as the next axis.
GetInt_NextAxis(v, i) ==
    LET n == v.shape[1]
        at == IF i < 0 THEN i + n ELSE i
        tail == v.shape[2] * item
    IN IF v.shape = << >> \/ at < 0 \/ at >= n THEN Failure("IndexError")
       ELSE IF Len(v.shape) = 1 THEN DecodeAt(v, at)
       ELSE IF item = 0 THEN Failure("undecodable")
       ELSE View(Cut(v.data, at * tail, (at + 1) * tail), Tail(v.shape))

\* __getitem__ with an int.
GetInt(v, i) ==
    LET n == v.shape[1]
        at == IF i < 0 THEN i + n ELSE i
        tail == (Size[v.shape] \div n) * item
    IN IF v.shape = << >> \/ at < 0 \/ at >= n THEN Failure("IndexError")
       ELSE IF Len(v.shape) = 1 THEN DecodeAt(v, at)
       ELSE IF item = 0 THEN Failure("undecodable")
       ELSE View(Cut(v.data, at * tail, (at + 1) * tail), Tail(v.shape))

\* range.
Steps(start, stop, step) ==
    LET n == IF step > 0 THEN (stop - start + step - 1) \div step
                         ELSE (start - stop - step - 1) \div (-step)
    IN [k \in 1..n |-> start + (k - 1) * step]

\* __getitem__ with a slice.
GetSlice(v, s) ==
    LET ends == SliceIndices(s, v.shape[1])
        width == IF ends.stop > ends.start THEN ends.stop - ends.start ELSE 0
        taken == Steps(ends.start, ends.stop, s.step)
        pieces == [k \in 1..Len(taken) |->
                      Cut(v.data, taken[k] * item, (taken[k] + 1) * item)]
    IN IF Len(v.shape) # 1 THEN Failure("not implemented")
       ELSE IF item = 0 THEN Failure("undecodable")
       ELSE IF s.step = 1
            THEN View(Cut(v.data, ends.start * item, ends.stop * item), <<width>>)
            ELSE View(FlattenSeq(pieces), <<Len(pieces)>>)

\* The loop over the axes of a full tuple, from the last: the offset and the
\* stride, or an offset of -1 when an index is out of range.
Offset(shape, idx) ==
    LET n == Len(idx)
        i == [k \in 1..n |-> IF idx[k] < 0 THEN idx[k] + shape[k] ELSE idx[k]]
        Axis(at, k) ==
            IF at.flat = -1 \/ i[k] < 0 \/ i[k] >= shape[k] THEN [at EXCEPT !.flat = -1]
            ELSE [flat |-> at.flat + i[k] * at.stride, stride |-> at.stride * shape[k]]
        after[t \in 0..n] ==
            IF t = 0 THEN [flat |-> 0, stride |-> 1] ELSE Axis(after[t - 1], n - t + 1)
    IN after[n].flat

\* __getitem__ with a tuple of integers; a partial one goes row by row.
RowByRow(v, idx) ==
    LET after[t \in 0..Len(idx)] ==
            IF t = 0 THEN v
            ELSE IF after[t - 1].is = "view" THEN GetInt(after[t - 1], idx[t])
            ELSE after[t - 1]
    IN after[Len(idx)]

GetTuple(v, idx) ==
    IF Len(idx) > Len(v.shape) THEN Failure("IndexError")
    ELSE IF Len(idx) < Len(v.shape) THEN RowByRow(v, idx)
    ELSE IF Offset(v.shape, idx) = -1 THEN Failure("IndexError")
    ELSE DecodeAt(v, Offset(v.shape, idx))

\* tolist, one after the other what the nested lists hold; a failure among
\* them is what tolist raises.
ToList[v \in Views] ==
    IF v.shape = << >> THEN <<DecodeAt(v, 0)>>
    ELSE FlattenSeq([i \in 1..v.shape[1] |->
             LET u == GetInt(v, i - 1)
             IN IF u.is = "view" THEN ToList[u] ELSE <<u>>])

\* Faulty variant: the first element of any view.
Scalar_First(v) == DecodeAt(v, 0)

\* __float__, __int__, __bool__.
Scalar(v) == IF Size[v.shape] # 1 THEN Failure("TypeError") ELSE DecodeAt(v, 0)
-----------------------------------------------------------------------------
\* A worker's array comes with its bytes or, when the host could not read them,
\* without; its dtype may be one the view cannot decode.
Init ==
    \E shape \in Shapes :
        /\ whole \in BOOLEAN /\ item \in {0, ItemSize}
        /\ meant = Array(shape, [t \in AllTuples(shape) |-> t])
        /\ got = View(IF whole THEN ToBytes(meant) ELSE << >>, shape)

\* The program goes on with what it gets, unless that is an element or an error.
Select(i) ==
    /\ got.is = "view"
    /\ got' = GetInt(got, i) /\ meant' = At(meant, <<i>>)
    /\ UNCHANGED <<whole, item>>

SelectTuple(idx) ==
    /\ got.is = "view"
    /\ got' = GetTuple(got, idx) /\ meant' = At(meant, idx)
    /\ UNCHANGED <<whole, item>>

Ends == Indices \cup {None}

Slice(s) ==
    /\ got.is = "view"
    /\ got' = GetSlice(got, s) /\ meant' = Sliced(meant, s)
    /\ UNCHANGED <<whole, item>>

Next == \/ \E i \in Indices : Select(i)
        \/ \E n \in 0..3 : \E idx \in [1..n -> Indices] : SelectTuple(idx)
        \/ \E start \in Ends, stop \in Ends, step \in SliceSteps :
              Slice([start |-> start, stop |-> stop, step |-> step])

Spec == Init /\ [][Next]_vars
-----------------------------------------------------------------------------
(* Properties *)

\* However a program indexes and slices, it has the elements it would have of
\* the array, in their shape and byte for byte (which is what goes back to a
\* worker when it passes the view on), and an IndexError exactly when the array
\* gives one.  What views cannot do they refuse, and nothing else.
ViewFaithful ==
    \/ /\ got.is = "view" /\ meant.is = "array" /\ got.shape = meant.shape
       /\ got.data = IF whole THEN ToBytes(meant) ELSE << >>
    \/ got.is = "element" /\ got = meant
    \/ got = Failure("IndexError") /\ got = meant
    \/ got = Failure("undecodable") /\ (item = 0 \/ ~whole)
    \/ /\ got = Failure("not implemented")
       /\ meant = Failure("IndexError") \/ Len(meant.shape) > 1

\* tolist and the scalar conversions read the elements the view stands for; of
\* a view that has lost its bytes they read none rather than make one up.
ConversionsFaithful ==
    got.is = "view" =>
        LET elements == Elements(meant)
            readable == whole /\ item # 0
        IN /\ IF readable THEN ToList[got] = [n \in 1..Len(elements) |-> Element(elements[n])]
              ELSE \A x \in ToSet(ToList[got]) : x = Failure("undecodable")
           /\ Scalar(got) = IF Len(elements) # 1 THEN Failure("TypeError")
                            ELSE IF readable THEN Element(elements[1])
                            ELSE Failure("undecodable")
=============================================================================

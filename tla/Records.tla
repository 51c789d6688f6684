------------------------------ MODULE Records ------------------------------
(***************************************************************************)
(* The record-processing nodes: transform, decrypt and merge.              *)
(*                                                                         *)
(* Records are dicts that nodes share: the list a node returns is buffered *)
(* and handed to every node downstream, in every iteration.  The heap maps *)
(* addresses to dicts, field -> value.  A value is an atom (1, 2), a token *)
(* (-1, -2: encrypted), or a reference to a nested dict; 0 is a field that *)
(* is not there.  A path is a sequence of fields.                          *)
(***************************************************************************)
EXTENDS Integers, Sequences, FiniteSets, SequencesExt

CONSTANTS
    Pool,         \* the dicts that sources have read
    Lists,        \* what a source may return: lists of their addresses
    FieldOrder,   \* the order of the fields of a dict; bound: what a join reads
    MaxOps        \* bound: nodes that run after the two sources

VARIABLES
    heap,      \* the dicts
    buffers,   \* state.outputs: lists of addresses, in the order they were buffered
    made,      \* what made them: [op, ins], op.op = "source" for the inputs
    image      \* history: what they held when they were buffered

recordVars == <<heap, buffers, made, image>>

Missing == 0
Ref(a) == 100 + a
IsRef(x) == x > 100
Dict(x) == x - 100
Values(size) == (-2..2) \cup {Ref(a) : a \in 1..size}

\* A heap whose references lead somewhere.
Closed(h) == \A a \in 1..Len(h) : \A f \in DOMAIN h[a] : h[a][f] \in Values(Len(h))

Suffixed(f) == f \o "_right"

ASSUME RecordsAssumption ==
    /\ Pool = [a \in 1..Len(Pool) |-> Pool[a]] /\ Len(Pool) \in Nat /\ Closed(Pool)
    /\ Lists \subseteq Seq(1..Len(Pool))
    /\ FieldOrder \in Seq(STRING) /\ MaxOps \in Nat
    /\ \A i, j \in 1..Len(FieldOrder) : Suffixed(FieldOrder[i]) = Suffixed(FieldOrder[j]) => i = j

NoFields == [f \in {} |-> Missing]
Put(d, f, x) == [g \in DOMAIN d \cup {f} |-> IF g = f THEN x ELSE d[g]]

\* get_path with a default, on a path of one or two fields.  A list would be
\* a dict whose fields are indexes.
Field(h, x, f) == IF IsRef(x) /\ f \in DOMAIN h[Dict(x)] THEN h[Dict(x)][f] ELSE Missing
GetPath(h, a, path) ==
    LET x == Field(h, Ref(a), path[1]) IN IF Len(path) = 1 THEN x ELSE Field(h, x, path[2])

\* The dotted path: the name a selected field gets, and a key is known by.
Name(path) == IF Len(path) = 1 THEN path[1] ELSE "n.s"

\* The contents of a record, nested ones included.
Contents(h, a) ==
    [path \in {<<f>> : f \in DOMAIN h[a]} \cup {<<f, "s">> : f \in DOMAIN h[a]} |->
        LET x == GetPath(h, a, path) IN IF IsRef(x) THEN 100 ELSE x]
Snapshot(h, list) == [i \in 1..Len(list) |-> Contents(h, list[i])]

RecordsInit ==
    /\ heap = Pool
    /\ buffers \in Lists \X Lists
    /\ made = [i \in 1..2 |-> [op |-> [op |-> "source"], ins |-> <<>>]]
    /\ image = [i \in 1..2 |-> Snapshot(Pool, buffers[i])]

RecordsTypeOK ==
    /\ \A b \in 1..Len(buffers) : \A i \in 1..Len(buffers[b]) : buffers[b][i] \in 1..Len(heap)
    /\ Closed(heap)
    /\ Len(made) = Len(buffers) /\ Len(image) = Len(buffers)

\* A node ends: its output is buffered.
Buffer(op, ins, h, list) ==
    /\ heap' = h
    /\ buffers' = Append(buffers, list)
    /\ made' = Append(made, [op |-> op, ins |-> ins])
    /\ image' = Append(image, Snapshot(h, list))

\* One new dict per record.
Fresh(op, ins, dicts) ==
    Buffer(op, ins, heap \o dicts, [i \in 1..Len(dicts) |-> Len(heap) + i])

\* The elements of a list at the given positions, in their order.
Those(list, positions) ==
    FlattenSeq([i \in 1..Len(list) |-> IF i \in positions THEN <<list[i]>> ELSE <<>>])

\* The node may read buffer b.
CanRead(b) == b \in 1..Len(buffers) /\ Len(buffers) < MaxOps + 2

-----------------------------------------------------------------------------
(* transform: TransformNode._apply, one action per op.                     *)

\* The fields that are there, each under its path.
Projected(a, paths) ==
    LET found == {p \in paths : GetPath(heap, a, p) # Missing}
    IN  [f \in {Name(p) : p \in found} |-> GetPath(heap, a, CHOOSE p \in found : Name(p) = f)]

SelectFields(b, paths) ==
    /\ CanRead(b)
    /\ Fresh([op |-> "select"], <<b>>,
          [i \in 1..Len(buffers[b]) |-> Projected(buffers[b][i], paths)])

\* A dict comprehension: of two fields with one new name the later one stays.
Renamed(d, from, to) ==
    LET After(f, g) == \E i, j \in 1..Len(FieldOrder) :
                          i < j /\ FieldOrder[i] = g /\ FieldOrder[j] = f
        moved == from \in DOMAIN d
    IN  [f \in (DOMAIN d \ {from}) \cup (IF moved THEN {to} ELSE {}) |->
            IF f = to /\ moved /\ (to \in DOMAIN d => After(from, to)) THEN d[from] ELSE d[f]]

RenameField(b, from, to) ==
    /\ CanRead(b)
    /\ Fresh([op |-> "rename"], <<b>>,
          [i \in 1..Len(buffers[b]) |-> Renamed(heap[buffers[b][i]], from, to)])

\* eval_predicate on a condition: a missing field satisfies only not_exists.
\* Values that cannot be compared are different, and neither is the greater.
Holds(c, a) ==
    LET x == GetPath(heap, a, c.path) IN
    CASE c.op = "exists" -> x # Missing
      [] c.op = "not_exists" -> x = Missing
      [] OTHER -> /\ x # Missing
                  /\ CASE c.op = "eq" -> x = c.value
                       [] c.op = "ne" -> x # c.value
                       [] c.op = "gt" -> ~IsRef(x) /\ x > c.value

EvalPredicate(p, a) ==
    CASE p.is = "all" -> \A c \in p.of : Holds(c, a)
      [] p.is = "any" -> \E c \in p.of : Holds(c, a)
      [] p.is = "not" -> ~\A c \in p.of : Holds(c, a)

FilterRecords(b, p) ==
    /\ CanRead(b)
    /\ Buffer([op |-> "filter"], <<b>>, heap,
          Those(buffers[b], {i \in 1..Len(buffers[b]) : EvalPredicate(p, buffers[b][i])}))

\* An expression over field v: it fails the node on a record without a number.
\* An expression that fails leaves no output.
ComputeField(b, to) ==
    /\ CanRead(b)
    /\ \A i \in 1..Len(buffers[b]) : GetPath(heap, buffers[b][i], <<"v">>) \in {1, 2}
    /\ Fresh([op |-> "computed"], <<b>>,
          [i \in 1..Len(buffers[b]) |->
              LET d == heap[buffers[b][i]] IN Put(d, to, 3 - d["v"])])

-----------------------------------------------------------------------------
(* decrypt.                                                                *)

\* A missing field or something that is not a token fails the node.
Decryptable(list, onMissing) ==
    \A i \in 1..Len(list) :
        LET x == GetPath(heap, list[i], <<"n", "s">>)
        IN  x < 0 \/ (x = Missing /\ onMissing = "skip")

\* set_path on a copy: the value replaces the token in the nested dict.
Plain(d) == [f \in DOMAIN d |-> IF f = "s" /\ d[f] < 0 THEN -d[f] ELSE d[f]]

\* Mutant: a copy of the record only.
DecryptInPlace(b, onMissing) ==
    LET list == buffers[b]
        nested == {heap[list[i]]["n"] : i \in {i \in 1..Len(list) : "n" \in DOMAIN heap[list[i]]}}
        h == [a \in 1..Len(heap) |-> IF Ref(a) \in nested THEN Plain(heap[a]) ELSE heap[a]]
    IN
    /\ CanRead(b)
    /\ Decryptable(list, onMissing)
    /\ Buffer([op |-> "decrypt"], <<b>>, h \o [i \in 1..Len(list) |-> heap[list[i]]],
              [i \in 1..Len(list) |-> Len(heap) + i])

\* deepcopy: the record and what it holds.
Decrypt(b, onMissing) ==
    LET list == buffers[b]
        len == Len(list)
        Copy(i) == heap[list[i]]
        Nests(i) == "n" \in DOMAIN Copy(i) /\ IsRef(Copy(i)["n"])
        Child(i) == IF Nests(i) THEN heap[Dict(Copy(i)["n"])] ELSE NoFields
    IN
    /\ CanRead(b)
    /\ Decryptable(list, onMissing)
    /\ Buffer([op |-> "decrypt"], <<b>>,
          heap \o [i \in 1..len |-> IF Nests(i) THEN Put(Copy(i), "n", Ref(Len(heap) + len + i))
                                    ELSE Copy(i)]
               \o [i \in 1..len |-> Plain(Child(i))],
          [i \in 1..len |-> Len(heap) + i])

-----------------------------------------------------------------------------
(* merge.                                                                  *)

Concat(b, c) ==
    /\ CanRead(b) /\ CanRead(c)
    /\ Buffer([op |-> "concat"], <<b, c>>, heap, buffers[b] \o buffers[c])

\* Records with the same canonical form are one.
UnionOf(list) ==
    Those(list, {i \in 1..Len(list) :
                    \A j \in 1..(i - 1) : Contents(heap, list[j]) # Contents(heap, list[i])})

Union(b, c) ==
    /\ CanRead(b) /\ CanRead(c)
    /\ Buffer([op |-> "union"], <<b, c>>, heap, UnionOf(buffers[b] \o buffers[c]))

\* _key_of: Missing stands for None.  The code puts values in canonical form,
\* which matters for a dict only: no key of the records here holds one.
KeyOf(a, key) == GetPath(heap, a, key)

\* right_index.get(key)
Matches(a, right, key) ==
    Those(right, {j \in 1..Len(right) : KeyOf(a, key) # Missing /\ KeyOf(right[j], key) = KeyOf(a, key)})

\* Mutant: a colliding field replaces the one on the left.
CombineOver(l, r, key) ==
    LET added == DOMAIN heap[r] \ {Name(key)}
    IN  [f \in DOMAIN heap[l] \cup added |-> IF f \in added THEN heap[r][f] ELSE heap[l][f]]

\* The fields of the right record are added to a copy of the left one, the
\* keys left out; a field that is there already goes under its suffixed name.
Combine(l, r, key) ==
    LET combined[n \in 0..Len(FieldOrder)] ==
            IF n = 0 THEN heap[l]
            ELSE LET d == combined[n - 1]
                     f == FieldOrder[n]
                 IN  IF f \notin DOMAIN heap[r] \/ f = Name(key) THEN d
                     ELSE Put(d, IF f \in DOMAIN d THEN Suffixed(f) ELSE f, heap[r][f])
    IN  combined[Len(FieldOrder)]

JoinLeft(left, right, how, key) ==
    FlattenSeq([i \in 1..Len(left) |->
        LET m == Matches(left[i], right, key) IN
        IF m # <<>> THEN [j \in 1..Len(m) |-> Combine(left[i], m[j], key)]
        ELSE IF how = "inner" THEN <<>> ELSE <<heap[left[i]]>>])

\* What outer adds: the records of unmatched keys, by key, then the keyless.
Unmatched(left, right, key) ==
    LET Key(j) == KeyOf(right[j], key)
        first == {j \in 1..Len(right) : \A i \in 1..(j - 1) : Key(i) # Key(j)}
        alone == {j \in first : Key(j) # Missing /\ Matches(right[j], left, key) = <<>>}
        With(k) == Those(right, {i \in 1..Len(right) : Key(i) = k})
    IN  FlattenSeq([j \in 1..Len(right) |-> IF j \in alone THEN With(Key(j)) ELSE <<>>])
        \o With(Missing)

\* Bound: the fields of the records on the right, which a join goes through.
FieldsListed(right) == \A j \in 1..Len(right) : DOMAIN heap[right[j]] \subseteq Range(FieldOrder)

Join(b, c, how, key) ==
    /\ CanRead(b) /\ CanRead(c) /\ FieldsListed(buffers[c])
    /\ Fresh([op |-> "join", how |-> how, key |-> key], <<b, c>>,
          JoinLeft(buffers[b], buffers[c], how, key)
          \o IF how # "outer" THEN <<>>
             ELSE LET u == Unmatched(buffers[b], buffers[c], key)
                  IN  [i \in 1..Len(u) |-> heap[u[i]]])

-----------------------------------------------------------------------------
Has == [op |-> "exists", path |-> <<"n", "s">>]
Hasnt == [op |-> "not_exists", path |-> <<"k">>]
Cond(op, f) == [op |-> op, path |-> <<f>>, value |-> 1]
Predicates ==
    {[is |-> "all", of |-> {Has, Cond("eq", "v")}], [is |-> "any", of |-> {Hasnt, Cond("gt", "v")}],
     [is |-> "not", of |-> {Cond("ne", "n")}]}

RecordsStep ==
    \E b \in 1..Len(buffers) :
        \/ SelectFields(b, {<<"k">>, <<"n", "s">>, <<"n">>})
        \/ RenameField(b, "v", "k")
        \/ \E p \in Predicates : FilterRecords(b, p)
        \/ ComputeField(b, "v")
        \/ \E onMissing \in {"error", "skip"} : Decrypt(b, onMissing)
        \/ \E c \in 1..Len(buffers) :
              \/ Concat(b, c) \/ Union(b, c)
              \/ \E how \in {"inner", "left", "outer"}, key \in {<<"k">>, <<"n", "s">>} :
                    Join(b, c, how, key)

RecordsSpec == RecordsInit /\ [][RecordsStep]_recordVars

-----------------------------------------------------------------------------
(* Properties.                                                             *)

\* "Records are never mutated in place": what a node has buffered stays as it
\* was, however long the chain of nodes that share its dicts, although only
\* decrypt copies what a record holds and all others copy one level or none.
BuffersNeverChange ==
    \A b \in 1..Len(buffers) : Snapshot(heap, buffers[b]) = image[b]

\* A row of a join holds all of its left record, and the right one's fields
\* under their names or, where the left has the field, the suffixed ones.
\* The exception is a suffixed name that one of the records has already, as
\* the rows of an earlier join do: then a field with a suffixed name may be
\* lost, but none without one, and no field of the right that collides.
RowOf(row, l, r, key) ==
    LET added == DOMAIN r \ {Name(key)}
        place(f) == IF f \in DOMAIN l THEN Suffixed(f) ELSE f
        clash == {Suffixed(f) : f \in added \cap DOMAIN l} \cap (DOMAIN l \cup added)
        unsafe == IF clash = {} THEN {} ELSE {Suffixed(f) : f \in added}
    IN  /\ clash = {} => DOMAIN row = DOMAIN l \cup {place(f) : f \in added}
        /\ \A f \in DOMAIN l \ unsafe : f \in DOMAIN row /\ row[f] = l[f]
        /\ \A f \in added : f \in DOMAIN l \/ f \notin unsafe =>
              place(f) \in DOMAIN row /\ row[place(f)] = r[f]

\* Two records that match: a missing key matches nothing.
SameKey(h, a, c, key) ==
    GetPath(h, a, key) # Missing /\ GetPath(h, a, key) = GetPath(h, c, key)

\* The rows of a join, as pairs of positions: every pair with equal keys once
\* and, unless the join is inner, the records of the left that match nothing.
Rows(h, left, right, how, key) ==
    {p \in (1..Len(left)) \X (0..Len(right)) :
        IF p[2] # 0 THEN SameKey(h, left[p[1]], right[p[2]], key)
        ELSE how # "inner" /\ \A j \in 1..Len(right) : ~SameKey(h, left[p[1]], right[j], key)}
Place(p, rows) ==
    Cardinality({q \in rows : q[1] < p[1] \/ (q[1] = p[1] /\ q[2] <= p[2])})

\* The records of the right that match nothing.
Others(h, left, right, key) ==
    {j \in 1..Len(right) : \A i \in 1..Len(left) : ~SameKey(h, left[i], right[j], key)}

JoinIsRight(h, out, left, right, how, key) ==
    LET rows == Rows(h, left, right, how, key)
        others == Others(h, left, right, key)
    IN  /\ Len(out) = Cardinality(rows) + (IF how = "outer" THEN Cardinality(others) ELSE 0)
        /\ \A p \in rows :
              LET row == h[out[Place(p, rows)]] IN
              IF p[2] = 0 THEN row = h[left[p[1]]]
              ELSE RowOf(row, h[left[p[1]]], h[right[p[2]]], key)
        /\ how = "outer" => {h[out[m]] : m \in (Cardinality(rows) + 1)..Len(out)}
                              = {h[right[j]] : j \in others}

UnionIsRight(h, out, all) ==
    /\ Range(Snapshot(h, out)) = Range(Snapshot(h, all))
    /\ Len(out) = Cardinality(Range(Snapshot(h, out)))

DecryptIsRight(h, out, list) ==
    /\ Len(out) = Len(list)
    /\ \A i \in 1..Len(out) :
          /\ DOMAIN h[out[i]] = DOMAIN h[list[i]]
          /\ \A path \in DOMAIN Contents(h, out[i]) :
                LET x == GetPath(h, list[i], path) IN
                Contents(h, out[i])[path] = IF path = <<"n", "s">> /\ x < 0 THEN -x
                                            ELSE IF IsRef(x) THEN 100 ELSE x

\* merge and decrypt give what their strategy names, whatever the records
\* have been through before: a join the relational join, in which records
\* without the key match nothing; a union each record once; a decryption the
\* same records with the token replaced.
OutputsAreRight ==
    \A b \in 1..Len(buffers) :
        LET op == made[b].op
            in1 == buffers[made[b].ins[1]]
            in2 == buffers[made[b].ins[2]]
        IN  CASE op.op = "join" -> JoinIsRight(heap, buffers[b], in1, in2, op.how, op.key)
              [] op.op = "union" -> UnionIsRight(heap, buffers[b], in1 \o in2)
              [] op.op = "decrypt" -> DecryptIsRight(heap, buffers[b], in1)
              [] OTHER -> TRUE
=============================================================================

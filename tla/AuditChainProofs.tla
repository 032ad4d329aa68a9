-------------------------- MODULE AuditChainProofs --------------------------
(***************************************************************************)
(* Proofs about AuditChain, for any tables, any finite number of writers   *)
(* and any bounds on rows and failures.                                    *)
(***************************************************************************)
EXTENDS AuditChain, FiniteSetTheorems, TLAPS

USE ChainConstants

----------------------------------------------------------------------------
(* Facts about chains of rows *)

\* What Row says of a row, field by field.
LEMMA RowFields ==
    ASSUME NEW r \in Row
    PROVE  /\ r.id \in 1 .. MaxRows /\ r.id \in Nat /\ r.id # 0
           /\ r.prev \in Hashes /\ r.hash = Append(r.prev, r.id)
           /\ r.hash \in Hashes
           /\ r.value \in {r.id, Differs}
           /\ r = [id |-> r.id, prev |-> r.prev, hash |-> r.hash, value |-> r.value]
BY DEF Row, Hashes

\* The newest row is the one whose id no other exceeds: LastHash reads its hash.
LEMMA LastHashIsTip ==
    ASSUME NEW R \in SUBSET Row, NEW h, Tip(R, h),
           \A r, s \in R : r.id = s.id => r = s
    PROVE  LastHash(R) = h
<1>1. CASE R = {}
  BY <1>1 DEF Tip, LastHash
<1>2. CASE R # {}
  <2>1. PICK m \in R : h = m.hash /\ \A s \in R : s.id <= m.id
    BY <1>2 DEF Tip
  <2>2. Newest(R) \in R /\ \A s \in R : s.id <= Newest(R).id
    BY <2>1 DEF Newest
  <2>3. Newest(R).id = m.id
    BY <2>1, <2>2, RowFields
  <2>4. Newest(R) = m
    BY <2>1, <2>2, <2>3
  <2> QED  BY <1>2, <2>1, <2>4 DEF LastHash
<1> QED  BY <1>1, <1>2

\* A set of rows with a newest one has the hash LastHash reads as its tip.
LEMMA TipIsLastHash ==
    ASSUME NEW R \in SUBSET Row,
           R = {} \/ \E m \in R : \A s \in R : s.id <= m.id
    PROVE  Tip(R, LastHash(R)) /\ LastHash(R) \in Hashes
<1>1. CASE R = {}
  BY <1>1 DEF Tip, LastHash, GENESIS_HASH, Hashes
<1>2. CASE R # {}
  <2>1. Newest(R) \in R /\ \A s \in R : s.id <= Newest(R).id
    BY <1>2 DEF Newest
  <2> QED  BY <1>2, <2>1, RowFields DEF Tip, LastHash
<1> QED  BY <1>1, <1>2

\* A row that continues the tip can be added.
LEMMA LinkedExtend ==
    ASSUME NEW R \in SUBSET Row, NEW n \in Nat, Linked(R, n),
           NEW r \in Row, r.id = n + 1, Tip(R, r.prev)
    PROVE  Linked(R \cup {r}, n + 1)
<1> DEFINE S == R \cup {r}
<1>1. \A s \in R : s.id \in Nat /\ s.id <= n
  BY RowFields DEF Linked
<1>2. \A p, s \in S : p.id = s.id => p = s
  BY <1>1 DEF Linked
<1>3. \A s \in S : s.id <= n + 1
  BY <1>1
<1>4. {s \in S : s.id < r.id} = R
  BY <1>1
<1>5. Follows(S, r)
  BY <1>4 DEF Follows
<1>6. ASSUME NEW q \in R
      PROVE  Follows(S, q)
  <2>1. {s \in S : s.id < q.id} = {s \in R : s.id < q.id}
    BY <1>1
  <2> QED  BY <2>1 DEF Linked, Follows
<1>7. \A s \in S : s.id <= r.id
  BY <1>3
<1> HIDE DEF S
<1>8. r \in S /\ \A s \in S : s = r \/ s \in R
  BY DEF S
<1>9. Linked(S, n + 1)
  BY <1>2, <1>3, <1>5, <1>6, <1>7, <1>8 DEF Linked
<1> QED  BY <1>9 DEF S

\* A tip outlives the rewriting of a row's value.
LEMMA TipReplace ==
    ASSUME NEW R, NEW h, Tip(R, h), NEW r \in R, NEW q,
           q.id = r.id, q.hash = r.hash
    PROVE  Tip((R \ {r}) \cup {q}, h)
<1> DEFINE S == (R \ {r}) \cup {q}
<1>1. PICK m \in R : h = m.hash /\ \A s \in R : s.id <= m.id
  BY DEF Tip
<1>2. PICK k \in S : k.hash = m.hash /\ k.id = m.id
  <2>1. CASE m = r  BY <2>1
  <2>2. CASE m # r  BY <2>2
  <2> QED  BY <2>1, <2>2
<1>3. \A s \in S : s.id <= k.id
  BY <1>1, <1>2
<1> QED  BY <1>1, <1>2, <1>3 DEF Tip

\* So does a chain: only its links are hashed.
LEMMA LinkedReplace ==
    ASSUME NEW R \in SUBSET Row, NEW n \in Nat, Linked(R, n), NEW r \in R,
           NEW q \in Row, q.id = r.id, q.hash = r.hash, q.prev = r.prev
    PROVE  Linked((R \ {r}) \cup {q}, n)
<1> DEFINE S == (R \ {r}) \cup {q}
<1>1. \A p, s \in S : p.id = s.id => p = s
  BY DEF Linked
<1>2. ASSUME NEW p \in R
      PROVE  Tip({s \in S : s.id < p.id}, p.prev)
  <2> DEFINE B == {s \in R : s.id < p.id}
  <2>1. Tip(B, p.prev)
    BY DEF Linked, Follows
  <2>2. CASE r.id < p.id
    <3>1. r \in B /\ {s \in S : s.id < p.id} = (B \ {r}) \cup {q}
      BY <2>2
    <3> HIDE DEF B
    <3> QED  BY <2>1, <3>1, TipReplace
  <2>3. CASE ~(r.id < p.id)
    <3>1. {s \in S : s.id < p.id} = B
      BY <2>3
    <3> QED  BY <2>1, <3>1
  <2> QED  BY <2>2, <2>3
<1>3. \A p \in S : p.id <= n /\ Follows(S, p)
  <2> SUFFICES ASSUME NEW p \in S PROVE p.id <= n /\ Follows(S, p)
    OBVIOUS
  <2>1. PICK o \in R : o.id = p.id /\ o.prev = p.prev
    OBVIOUS
  <2>2. o.id <= n
    BY DEF Linked
  <2> QED  BY <1>2, <2>1, <2>2 DEF Follows
<1>4. \E m \in S : \A s \in S : s.id <= m.id
  <2>1. PICK m \in R : \A s \in R : s.id <= m.id
    BY DEF Linked
  <2>2. PICK k \in S : k.id = m.id
    BY <2>1
  <2> QED  BY <2>1, <2>2
<1> HIDE DEF S
<1>5. Linked(S, n)
  BY <1>1, <1>3, <1>4 DEF Linked
<1> QED  BY <1>5 DEF S

\* A chain stays one when more ids are drawn.
LEMMA LinkedGrow ==
    ASSUME NEW R \in SUBSET Row, NEW n \in Nat, Linked(R, n)
    PROVE  Linked(R, n + 1)
BY RowFields DEF Linked

----------------------------------------------------------------------------
(* Facts about a state of the system *)

\* The advisory lock: two transactions that are past it write to two tables.
LEMMA HoldersDiffer ==
    ASSUME IInv, NEW v \in Writers, NEW w \in Writers, v # w, Held(v), Held(w)
    PROVE  table[v] # table[w]
BY DEF IInv, WriterInv

\* What the lock holder sees are rows of the table, and so is what others see.
LEMMA ViewRows ==
    ASSUME IInv, NEW w \in Writers, Held(w)
    PROVE  /\ table[w] \in Tables /\ View(w) \in SUBSET Row
           /\ lastId[table[w]] \in Nat
<1>1. table[w] \in Tables  BY DEF IInv, WriterInv, Held
<1> QED  BY <1>1 DEF IInv, TypeOK, View

\* A step that leaves a writer's transaction alone, and its table too if it is
\* past the lock, keeps its invariant.
LEMMA WriterKeeps ==
    ASSUME NEW v \in Writers, WriterInv(v),
           pc'[v] = pc[v], table'[v] = table[v], own'[v] = own[v], prev'[v] = prev[v],
           Held(v) => /\ holder'[table[v]] = holder[table[v]]
                      /\ rows'[table[v]] = rows[table[v]]
                      /\ lastId'[table[v]] = lastId[table[v]]
    PROVE  WriterInv(v)'
<1>1. Held(v)' = Held(v)  BY DEF Held
<1>2. Held(v) => View(v)' = View(v)  BY DEF View
<1>3. pc[v] = "hashed" => Held(v)  BY DEF Held
<1>4. Held(v) => Linked(View(v), lastId[table[v]])'
  BY <1>2 DEF WriterInv, Linked, Follows, Tip
<1>5. pc[v] = "hashed" => Tip(View(v), prev[v])'
  BY <1>2, <1>3 DEF WriterInv, Tip
<1> QED  BY <1>1, <1>4, <1>5 DEF WriterInv

\* The transactions yet to draw an id can be counted.
LEMMA DrawingFinite ==
    ASSUME NEW t PROVE IsFiniteSet(Drawing(t)) /\ Cardinality(Drawing(t)) \in Nat
<1>1. Drawing(t) \in SUBSET Writers  BY DEF Drawing
<1> QED  BY <1>1, FS_Subset, FS_CardinalityType

\* The bound on the ids survives a step in which no id is drawn and no
\* transaction of the table comes to draw one.
LEMMA DrawingFewer ==
    ASSUME IInv, NEW t \in Tables, Drawing(t)' \subseteq Drawing(t),
           lastId'[t] = lastId[t]
    PROVE  (lastId[t] + Cardinality(Drawing(t)) <= MaxRows)'
<1>1. /\ IsFiniteSet(Drawing(t)')
      /\ Cardinality(Drawing(t)') \in Nat /\ Cardinality(Drawing(t)) \in Nat
      /\ Cardinality(Drawing(t)') <= Cardinality(Drawing(t))
  <2>1. Drawing(t)' \in SUBSET Drawing(t)  OBVIOUS
  <2> QED  BY <2>1, DrawingFinite, FS_Subset, FS_CardinalityType
<1>2. lastId[t] \in Nat /\ lastId[t] + Cardinality(Drawing(t)) <= MaxRows
  BY DEF IInv, TypeOK
<1> QED  BY <1>1, <1>2

\* Or when one comes, and there is Room for it.
LEMMA DrawingOneMore ==
    ASSUME IInv, NEW t \in Tables, NEW w \in Writers, Room(t),
           Drawing(t)' \subseteq Drawing(t) \cup {w},
           w \notin Drawing(t),
           lastId'[t] = lastId[t]
    PROVE  (lastId[t] + Cardinality(Drawing(t)) <= MaxRows)'
<1> DEFINE Open == {v \in Writers : pc[v] # "idle" /\ table[v] = t}
<1>1. lastId[t] + Cardinality(Open) < MaxRows  BY DEF Room
<1>2. Drawing(t) \in SUBSET Open  BY DEF Drawing
<1>3. /\ IsFiniteSet(Open) /\ Cardinality(Open) \in Nat
  <2>1. Open \in SUBSET Writers  OBVIOUS
  <2> QED  BY <2>1, FS_Subset, FS_CardinalityType
<1>4. Cardinality(Drawing(t)) <= Cardinality(Open)
  BY <1>2, <1>3, FS_Subset
<1>5. /\ IsFiniteSet(Drawing(t) \cup {w})
      /\ Cardinality(Drawing(t) \cup {w}) = Cardinality(Drawing(t)) + 1
  BY DrawingFinite, FS_AddElement
<1>6. /\ Cardinality(Drawing(t)') <= Cardinality(Drawing(t)) + 1
      /\ Cardinality(Drawing(t)') \in Nat
  <2>1. Drawing(t)' \in SUBSET (Drawing(t) \cup {w})  OBVIOUS
  <2> QED  BY <1>5, <2>1, FS_Subset, FS_CardinalityType
<1>7. lastId[t] \in Nat /\ Cardinality(Drawing(t)) \in Nat
  BY DrawingFinite DEF IInv, TypeOK
<1> HIDE DEF Open
<1> QED  BY <1>1, <1>3, <1>4, <1>6, <1>7

----------------------------------------------------------------------------
(* The inductive invariant *)

\* Initially there are no rows and no locks.
LEMMA InitIInv == Init => IInv
<1> SUFFICES ASSUME Init PROVE IInv  OBVIOUS
<1>1. TypeOK
  <2>1. GENESIS_HASH \in Hashes  BY DEF GENESIS_HASH, Hashes
  <2>2. /\ rows \in [Tables -> SUBSET Row]
        /\ lastId \in [Tables -> 0 .. MaxRows]
        /\ holder \in [Tables -> Writers \cup {NoWriter}]
    BY DEF Init
  <2>3. /\ prev \in [Writers -> Hashes] /\ own \in [Writers -> SUBSET Row]
        /\ table \in [Writers -> Tables \cup {NoTable}]
        /\ pc \in [Writers -> {"idle", "locking", "locked", "hashed", "inserted"}]
    BY <2>1 DEF Init
  <2>4. /\ left \subseteq Tables /\ errored \subseteq Tables /\ reported \subseteq Tables
        /\ faults \in 0 .. MaxFaults
    BY DEF Init
  <2>5. aborted \in BOOLEAN  BY DEF Init
  <2> QED  BY <2>2, <2>3, <2>4, <2>5 DEF TypeOK
<1>2. ASSUME NEW t \in Tables PROVE Linked(rows[t], lastId[t])
  BY DEF Init, Linked
<1>3. ASSUME NEW w \in Writers PROVE WriterInv(w)
  BY DEF Init, WriterInv, Held
<1>4. ASSUME NEW t \in Tables
      PROVE  lastId[t] + Cardinality(Drawing(t)) <= MaxRows
  <2>1. Drawing(t) = {}  BY DEF Init, Drawing
  <2> QED  BY <2>1, FS_EmptySet DEF Init
<1> QED  BY <1>1, <1>2, <1>3, <1>4 DEF IInv

\* A transaction that asks for the lock has read and written nothing yet.
LEMMA RequestLockStep ==
    ASSUME IInv, NEW w \in Writers, RequestLock(w) PROVE IInv'
<1> USE DEF RequestLock, NoFault, chainVars, verifierVars
<1>1. PICK t \in Tables : Room(t) /\ table' = [table EXCEPT ![w] = t]
  OBVIOUS
<1>2. TypeOK'
  BY <1>1 DEF IInv, TypeOK
<1>3. ASSUME NEW u \in Tables PROVE Linked(rows[u], lastId[u])'
  BY DEF IInv, Linked, Follows, Tip
<1>4. ASSUME NEW v \in Writers PROVE WriterInv(v)'
  <2>1. CASE v = w
    <3>1. own[w] = {}  BY DEF IInv, WriterInv, Held
    <3> QED  BY <1>1, <2>1, <3>1 DEF IInv, TypeOK, WriterInv, Held
  <2>2. CASE v # w
    BY <1>1, <2>2, WriterKeeps DEF IInv, TypeOK
  <2> QED  BY <2>1, <2>2
<1>5. ASSUME NEW u \in Tables
      PROVE  (lastId[u] + Cardinality(Drawing(u)) <= MaxRows)'
  <2>1. w \notin Drawing(u)  BY DEF Drawing
  <2>2. CASE u = t
    <3>1. Drawing(t)' \subseteq Drawing(t) \cup {w}
      BY <1>1 DEF Drawing, IInv, TypeOK
    <3> QED  BY <1>1, <2>1, <2>2, <3>1, DrawingOneMore
  <2>3. CASE u # t
    <3>1. Drawing(u)' \subseteq Drawing(u)
      BY <1>1, <2>3 DEF Drawing, IInv, TypeOK
    <3> QED  BY <3>1, DrawingFewer
  <2> QED  BY <2>2, <2>3
<1> QED  BY <1>2, <1>3, <1>4, <1>5 DEF IInv

\* It gets the lock when nobody has it, and sees the committed rows.
LEMMA AcquireStep ==
    ASSUME IInv, NEW w \in Writers, Acquire(w) PROVE IInv'
<1> USE DEF Acquire, NoFault, chainVars, verifierVars
<1>1. table[w] \in Tables /\ ~Held(w) /\ own[w] = {}
  BY DEF IInv, WriterInv, Held
<1>2. TypeOK'
  BY <1>1 DEF IInv, TypeOK
<1>3. ASSUME NEW u \in Tables PROVE Linked(rows[u], lastId[u])'
  BY DEF IInv, Linked, Follows, Tip
<1>4. ASSUME NEW v \in Writers PROVE WriterInv(v)'
  <2>1. CASE v = w
    <3>1. /\ View(w)' = rows[table[w]] /\ lastId' = lastId
          /\ table' = table /\ own' = own /\ pc'[w] = "locked"
          /\ holder'[table[w]] = w
      BY <1>1 DEF View, IInv, TypeOK
    <3>2. Linked(View(w), lastId[table[w]])'
      BY <1>1, <3>1 DEF IInv, Linked, Follows, Tip
    <3> QED  BY <1>1, <2>1, <3>1, <3>2 DEF WriterInv
  <2>2. CASE v # w
    <3>1. Held(v) => table[v] # table[w]
      BY <1>1, <2>2 DEF LockFree, IInv, TypeOK, WriterInv, Held
    <3> QED  BY <2>2, <3>1, WriterKeeps DEF IInv, TypeOK
  <2> QED  BY <2>1, <2>2
<1>5. ASSUME NEW u \in Tables
      PROVE  (lastId[u] + Cardinality(Drawing(u)) <= MaxRows)'
  <2>1. Drawing(u)' \subseteq Drawing(u)
    BY DEF Drawing, IInv, TypeOK
  <2> QED  BY <2>1, DrawingFewer
<1> QED  BY <1>2, <1>3, <1>4, <1>5 DEF IInv

\* The hash it reads is that of the newest row it sees.
LEMMA ReadLastStep ==
    ASSUME IInv, NEW w \in Writers, ReadLast(w) PROVE IInv'
<1> USE DEF ReadLast, NoFault, chainVars, verifierVars
<1>1. Held(w) /\ table[w] \in Tables
  BY DEF IInv, WriterInv, Held
<1>2. Linked(View(w), lastId[table[w]]) /\ View(w) \in SUBSET Row
  BY <1>1, ViewRows DEF IInv, WriterInv
<1>3. Tip(View(w), LastHash(View(w))) /\ LastHash(View(w)) \in Hashes
  BY <1>2, TipIsLastHash DEF Linked
<1>4. prev' = [prev EXCEPT ![w] = LastHash(View(w))]
  BY DEF View
<1>5. TypeOK'
  BY <1>3, <1>4 DEF IInv, TypeOK
<1>6. ASSUME NEW u \in Tables PROVE Linked(rows[u], lastId[u])'
  BY DEF IInv, Linked, Follows, Tip
<1>7. ASSUME NEW v \in Writers PROVE WriterInv(v)'
  <2>1. CASE v = w
    <3>1. View(w)' = View(w) /\ pc'[w] = "hashed" /\ prev'[w] = LastHash(View(w))
      BY <1>4 DEF View, IInv, TypeOK
    <3>2. Linked(View(w), lastId[table[w]])'
      BY <1>2, <3>1 DEF Linked, Follows, Tip
    <3>3. Tip(View(w), prev[w])'
      BY <1>3, <3>1 DEF Tip
    <3> QED  BY <1>1, <2>1, <3>1, <3>2, <3>3 DEF IInv, WriterInv, Held
  <2>2. CASE v # w
    BY <2>2, WriterKeeps DEF IInv, TypeOK
  <2> QED  BY <2>1, <2>2
<1>8. ASSUME NEW u \in Tables
      PROVE  (lastId[u] + Cardinality(Drawing(u)) <= MaxRows)'
  <2>1. CASE pc[w] = "inserted" /\ Room(table[w]) /\ u = table[w]
    <3>1. w \notin Drawing(u) /\ Drawing(u)' \subseteq Drawing(u) \cup {w}
      BY <2>1 DEF Drawing, IInv, TypeOK
    <3> QED  BY <2>1, <3>1, DrawingOneMore
  <2>2. CASE pc[w] = "locked" \/ u # table[w]
    <3>1. Drawing(u)' \subseteq Drawing(u)
      BY <2>2 DEF Drawing, IInv, TypeOK
    <3> QED  BY <3>1, DrawingFewer
  <2> QED  BY <2>1, <2>2
<1> QED  BY <1>5, <1>6, <1>7, <1>8 DEF IInv

\* Its row continues that one, and takes an id nobody has had.
LEMMA InsertStep ==
    ASSUME IInv, NEW w \in Writers, Insert(w) PROVE IInv'
<1> DEFINE t == table[w]
           n == lastId[t] + 1
<1>1. Held(w) /\ t \in Tables /\ lastId[t] \in Nat /\ View(w) \in SUBSET Row
  BY ViewRows DEF Insert, Held
<1>2. PICK value \in {n} \cup (IF t \in Lossy THEN {Differs} ELSE {}) :
         own' = [own EXCEPT ![w] = @ \cup
                   {[id |-> n, prev |-> prev[w],
                     hash |-> RowHash(prev[w], n), value |-> value]}]
  BY DEF Insert
<1> DEFINE r == [id |-> n, prev |-> prev[w], hash |-> RowHash(prev[w], n),
                 value |-> value]
<1>3. /\ lastId' = [lastId EXCEPT ![t] = n] /\ pc' = [pc EXCEPT ![w] = "inserted"]
      /\ pc[w] = "hashed"
      /\ UNCHANGED <<rows, holder, table, prev, left, aborted, errored, reported, faults>>
  BY DEF Insert, NoFault, verifierVars
<1>4. Cardinality(Drawing(t)) \in Nat /\ Cardinality(Drawing(t)) >= 1
  <2>1. w \in Drawing(t)  BY <1>3 DEF Drawing
  <2> QED  BY <2>1, DrawingFinite, FS_EmptySet
<1>5. n \in 1 .. MaxRows
  <2>1. lastId[t] + Cardinality(Drawing(t)) <= MaxRows  BY <1>1 DEF IInv
  <2> QED  BY <1>1, <1>4, <2>1
<1>6. r \in Row /\ r.id = n /\ r.prev = prev[w]
  <2>1. prev[w] \in Hashes  BY DEF IInv, TypeOK
  <2>2. Append(prev[w], n) \in Hashes  BY <1>5, <2>1 DEF Hashes
  <2>3. value \in {n, Differs} /\ value \in 0 .. MaxRows
    BY <1>2, <1>5 DEF Differs
  <2> QED  BY <1>5, <2>1, <2>2, <2>3 DEF Row, RowHash
<1> HIDE DEF r
<1>7. own' = [own EXCEPT ![w] = @ \cup {r}]
  BY <1>2 DEF r
<1>8. TypeOK'
  <2>1. n \in 0 .. MaxRows  BY <1>5
  <2> HIDE DEF n
  <2>2. own' \in [Writers -> SUBSET Row]
    BY <1>6, <1>7 DEF IInv, TypeOK
  <2> HIDE DEF t
  <2> QED  BY <1>3, <2>1, <2>2 DEF IInv, TypeOK
<1>9. ASSUME NEW u \in Tables PROVE Linked(rows[u], lastId[u])'
  <2>1. Linked(rows[u], lastId[u]) /\ rows[u] \in SUBSET Row /\ lastId[u] \in Nat
    BY DEF IInv, TypeOK
  <2>2. Linked(rows[u], lastId'[u])
    <3>1. lastId'[u] = (IF u = t THEN lastId[u] + 1 ELSE lastId[u])
      BY <1>3 DEF IInv, TypeOK
    <3> QED  BY <2>1, <3>1, LinkedGrow
  <2> QED  BY <1>3, <2>2 DEF Linked, Follows, Tip
<1>10. ASSUME NEW v \in Writers PROVE WriterInv(v)'
  <2>1. CASE v = w
    <3>1. /\ View(w)' = View(w) \cup {r} /\ own'[w] = own[w] \cup {r}
          /\ lastId'[t] = n /\ pc'[w] = "inserted"
      BY <1>1, <1>3, <1>7 DEF View, IInv, TypeOK
    <3>2. Linked(View(w) \cup {r}, n)
      <4>1. Linked(View(w), lastId[t]) /\ Tip(View(w), prev[w])
        BY <1>1, <1>3 DEF IInv, WriterInv
      <4> QED  BY <1>1, <1>6, <4>1, LinkedExtend
    <3>3. Linked(View(w), lastId[table[w]])'
      BY <1>3, <3>1, <3>2 DEF Linked, Follows, Tip
    <3>4. \A s \in rows[t], q \in own'[w] : s.id < q.id
      <4>1. \A s \in rows[t] : s.id <= lastId[t] /\ s.id \in Nat
        BY <1>1, RowFields DEF IInv, Linked, TypeOK
      <4>2. \A s \in rows[t], q \in own[w] : s.id < q.id
        BY <1>1 DEF IInv, WriterInv
      <4> QED  BY <1>1, <1>6, <3>1, <4>1, <4>2
    <3> QED  BY <1>1, <1>3, <2>1, <3>1, <3>3, <3>4 DEF IInv, WriterInv, Held
  <2>2. CASE v # w
    <3>1. Held(v) => table[v] # t
      BY <1>1, <2>2, HoldersDiffer
    <3> QED  BY <1>3, <1>7, <2>2, <3>1, WriterKeeps DEF IInv, TypeOK
  <2> QED  BY <2>1, <2>2
<1>11. ASSUME NEW u \in Tables
       PROVE  (lastId[u] + Cardinality(Drawing(u)) <= MaxRows)'
  <2>1. CASE u = t
    <3>1. Drawing(u)' = Drawing(u) \ {w} /\ w \in Drawing(u)
      BY <1>3, <2>1 DEF Drawing, IInv, TypeOK
    <3>2. IsFiniteSet(Drawing(u)) /\ Cardinality(Drawing(u)) \in Nat
      BY DrawingFinite
    <3>3. Cardinality(Drawing(u) \ {w}) = Cardinality(Drawing(u)) - 1
      BY <3>1, <3>2, FS_RemoveElement
    <3>4. /\ lastId'[u] = lastId[u] + 1 /\ lastId[u] \in Nat
          /\ lastId[u] + Cardinality(Drawing(u)) <= MaxRows
      BY <1>1, <1>3, <2>1 DEF IInv, TypeOK
    <3>5. lastId'[u] + Cardinality(Drawing(u)') <= MaxRows
      BY <3>1, <3>2, <3>3, <3>4
    <3> QED  BY <3>5
  <2>2. CASE u # t
    <3>1. Drawing(u)' \subseteq Drawing(u) /\ lastId'[u] = lastId[u]
      BY <1>3, <2>2 DEF Drawing, IInv, TypeOK
    <3> QED  BY <3>1, DrawingFewer
  <2> QED  BY <2>1, <2>2
<1> QED  BY <1>8, <1>9, <1>10, <1>11 DEF IInv

\* The end of a transaction keeps the types, and leaves it without rows.
LEMMA ReleaseTypes ==
    ASSUME IInv, NEW w \in Writers, Release(w)
    PROVE  /\ holder' \in [Tables -> Writers \cup {NoWriter}]
           /\ own' \in [Writers -> SUBSET Row] /\ own'[w] = {}
           /\ table' \in [Writers -> Tables \cup {NoTable}]
           /\ prev' \in [Writers -> Hashes]
           /\ pc' \in [Writers -> {"idle", "locking", "locked", "hashed", "inserted"}]
           /\ pc'[w] = "idle"
<1>1. GENESIS_HASH \in Hashes  BY DEF GENESIS_HASH, Hashes
<1>2. holder' \in [Tables -> Writers \cup {NoWriter}]
  BY DEF Release, IInv, TypeOK
<1> QED  BY <1>1, <1>2 DEF Release, IInv, TypeOK

\* And it changes nothing for the others, unless it leaves rows in their table.
LEMMA ReleaseOthers ==
    ASSUME IInv, NEW w \in Writers, Release(w), lastId' = lastId,
           NEW v \in Writers, v # w,
           Held(v) => rows'[table[v]] = rows[table[v]]
    PROVE  WriterInv(v)'
<1>1. Held(v) => table[v] \in Tables /\ holder[table[v]] = v
  BY DEF IInv, WriterInv, Held
<1>2. Held(v) => holder'[table[v]] = v
  BY <1>1 DEF Release, IInv, TypeOK
<1> QED  BY <1>1, <1>2, WriterKeeps DEF Release, IInv, TypeOK

\* Nor does it bring anyone to draw an id.
LEMMA ReleaseDrawing ==
    ASSUME IInv, NEW w \in Writers, Release(w), NEW u \in Tables
    PROVE  Drawing(u)' \subseteq Drawing(u)
BY DEF Release, Drawing, IInv, TypeOK

\* What it saw is what the table becomes.
LEMMA CommitStep ==
    ASSUME IInv, NEW w \in Writers, Commit(w) PROVE IInv'
<1>1. /\ pc[w] = "inserted" /\ Held(w) /\ table[w] \in Tables /\ Release(w)
      /\ View(w) \in SUBSET Row
      /\ UNCHANGED <<lastId, left, aborted, errored, reported, faults>>
  BY ViewRows DEF Commit, NoFault, verifierVars, Held
<1>2. rows' = [rows EXCEPT ![table[w]] = View(w)]
  BY DEF Commit, View
<1>3. TypeOK'
  <2>1. rows' \in [Tables -> SUBSET Row]
    BY <1>1, <1>2 DEF IInv, TypeOK
  <2> QED  BY <1>1, <2>1, ReleaseTypes DEF IInv, TypeOK
<1>4. ASSUME NEW u \in Tables PROVE Linked(rows[u], lastId[u])'
  <2>1. Linked(rows'[u], lastId[u])
    BY <1>1, <1>2 DEF IInv, TypeOK, WriterInv
  <2> QED  BY <1>1, <2>1 DEF Linked, Follows, Tip
<1>5. ASSUME NEW v \in Writers PROVE WriterInv(v)'
  <2>1. CASE v = w
    BY <1>1, <2>1, ReleaseTypes DEF WriterInv, Held
  <2>2. CASE v # w
    <3>1. Held(v) => rows'[table[v]] = rows[table[v]]
      BY <1>1, <1>2, <2>2, HoldersDiffer DEF IInv, TypeOK
    <3> QED  BY <1>1, <2>2, <3>1, ReleaseOthers
  <2> QED  BY <2>1, <2>2
<1>6. ASSUME NEW u \in Tables
      PROVE  (lastId[u] + Cardinality(Drawing(u)) <= MaxRows)'
  BY <1>1, ReleaseDrawing, DrawingFewer
<1> QED  BY <1>3, <1>4, <1>5, <1>6 DEF IInv

\* What it drew is lost, and the table stays as it was.
LEMMA RollbackStep ==
    ASSUME IInv, NEW w \in Writers, Rollback(w) PROVE IInv'
<1>1. /\ Release(w) /\ faults' \in 0 .. MaxFaults
      /\ UNCHANGED <<rows, lastId, left, aborted, errored, reported>>
  BY DEF Rollback, Fault, chainVars, verifierVars, IInv, TypeOK
<1>2. TypeOK'
  BY <1>1, ReleaseTypes DEF IInv, TypeOK
<1>3. ASSUME NEW u \in Tables PROVE Linked(rows[u], lastId[u])'
  BY <1>1 DEF IInv, Linked, Follows, Tip
<1>4. ASSUME NEW v \in Writers PROVE WriterInv(v)'
  <2>1. CASE v = w
    BY <1>1, <2>1, ReleaseTypes DEF WriterInv, Held
  <2>2. CASE v # w
    BY <1>1, <2>2, ReleaseOthers
  <2> QED  BY <2>1, <2>2
<1>5. ASSUME NEW u \in Tables
      PROVE  (lastId[u] + Cardinality(Drawing(u)) <= MaxRows)'
  BY <1>1, ReleaseDrawing, DrawingFewer
<1> QED  BY <1>2, <1>3, <1>4, <1>5 DEF IInv

\* A rewritten row keeps its id, its link and its hash.
LEMMA RewriteStep ==
    ASSUME IInv, NEW t \in Tables, Rewrite(t) PROVE IInv'
<1>1. PICK r \in rows[t] :
         rows' = [rows EXCEPT ![t] = (@ \ {r}) \cup {[r EXCEPT !.value = Differs]}]
  BY DEF Rewrite
<1> DEFINE q == [r EXCEPT !.value = Differs]
<1>2. /\ UNCHANGED <<lastId, holder, pc, table, prev, own>>
      /\ UNCHANGED <<left, aborted, errored, reported, faults>>
  BY DEF Rewrite, NoFault, writerVars, verifierVars
<1>3. /\ r \in Row /\ q \in Row
      /\ q.id = r.id /\ q.hash = r.hash /\ q.prev = r.prev
  <2>1. r \in Row  BY DEF IInv, TypeOK
  <2> QED  BY <2>1 DEF Row, Differs
<1> HIDE DEF q
<1>4. rows' = [rows EXCEPT ![t] = (rows[t] \ {r}) \cup {q}]
  BY <1>1 DEF q
<1>5. TypeOK'
  <2>1. rows' \in [Tables -> SUBSET Row]
    BY <1>3, <1>4 DEF IInv, TypeOK
  <2> QED  BY <1>2, <2>1 DEF IInv, TypeOK
<1>6. ASSUME NEW u \in Tables PROVE Linked(rows[u], lastId[u])'
  <2>1. Linked(rows[u], lastId[u]) /\ rows[u] \in SUBSET Row /\ lastId[u] \in Nat
    BY DEF IInv, TypeOK
  <2>2. Linked(rows'[u], lastId[u])
    <3>1. rows'[u] = IF u = t THEN (rows[u] \ {r}) \cup {q} ELSE rows[u]
      BY <1>4 DEF IInv, TypeOK
    <3> QED  BY <1>3, <2>1, <3>1, LinkedReplace
  <2> QED  BY <1>2, <2>2 DEF Linked, Follows, Tip
<1>7. ASSUME NEW v \in Writers PROVE WriterInv(v)'
  <2>1. CASE Held(v) /\ table[v] = t
    <3>1. /\ Linked(View(v), lastId[t]) /\ View(v) \in SUBSET Row /\ lastId[t] \in Nat
          /\ r \in View(v)
          /\ \A s \in rows[t], o \in own[v] : s.id < o.id
      BY <2>1, ViewRows DEF View, IInv, WriterInv
    <3>2. r \notin own[v]
      BY <1>3, <3>1, RowFields
    <3>3. View(v)' = (View(v) \ {r}) \cup {q}
      BY <1>2, <1>4, <2>1, <3>2 DEF View, IInv, TypeOK
    <3>4. Linked(View(v), lastId[table[v]])'
      <4>1. Linked((View(v) \ {r}) \cup {q}, lastId[t])
        BY <1>3, <3>1, LinkedReplace
      <4> QED  BY <1>2, <2>1, <3>3, <4>1 DEF Linked, Follows, Tip
    <3>5. pc[v] = "hashed" => Tip(View(v), prev[v])'
      <4>1. pc[v] = "hashed" => Tip((View(v) \ {r}) \cup {q}, prev[v])
        BY <1>3, <3>1, TipReplace DEF IInv, WriterInv
      <4> QED  BY <1>2, <3>3, <4>1 DEF Tip
    <3>6. \A s \in rows'[t], o \in own[v] : s.id < o.id
      <4>1. rows'[t] = (rows[t] \ {r}) \cup {q}
        BY <1>4 DEF IInv, TypeOK
      <4> QED  BY <1>3, <3>1, <4>1
    <3> QED  BY <1>2, <2>1, <3>4, <3>5, <3>6 DEF IInv, WriterInv, Held
  <2>2. CASE Held(v) => table[v] # t
    BY <1>2, <1>4, <2>2, WriterKeeps DEF IInv, TypeOK
  <2> QED  BY <2>1, <2>2
<1>8. ASSUME NEW u \in Tables
      PROVE  (lastId[u] + Cardinality(Drawing(u)) <= MaxRows)'
  BY <1>2 DEF IInv, Drawing
<1> QED  BY <1>5, <1>6, <1>7, <1>8 DEF IInv

\* The verifier only reads the chain.
LEMMA VerifierStep ==
    ASSUME IInv, StartRound \/ \E t \in Tables : Check(t) PROVE IInv'
<1>1. UNCHANGED <<rows, lastId, holder, pc, table, prev, own>>
  BY DEF StartRound, Check, chainVars, writerVars
<1>2. TypeOK'
  <2>1. /\ left' \subseteq Tables /\ errored' \subseteq Tables
        /\ reported' \subseteq Tables
    BY DEF IInv, TypeOK, StartRound, Check
  <2>2. aborted' \in BOOLEAN
    BY DEF IInv, TypeOK, StartRound, Check
  <2>3. faults' \in 0 .. MaxFaults
    BY DEF IInv, TypeOK, StartRound, Check, Fault, NoFault
  <2> QED  BY <1>1, <2>1, <2>2, <2>3 DEF IInv, TypeOK
<1>3. ASSUME NEW u \in Tables PROVE Linked(rows[u], lastId[u])'
  BY <1>1 DEF IInv, Linked, Follows, Tip
<1>4. ASSUME NEW v \in Writers PROVE WriterInv(v)'
  BY <1>1, WriterKeeps DEF IInv
<1>5. ASSUME NEW u \in Tables
      PROVE  (lastId[u] + Cardinality(Drawing(u)) <= MaxRows)'
  BY <1>1 DEF IInv, Drawing
<1> QED  BY <1>2, <1>3, <1>4, <1>5 DEF IInv

\* Every step keeps the invariant.
LEMMA NextIInv == IInv /\ [Next]_vars => IInv'
<1> SUFFICES ASSUME IInv, [Next]_vars PROVE IInv'  OBVIOUS
<1>1. CASE UNCHANGED vars
  <2>1. UNCHANGED <<rows, lastId, holder, pc, table, prev, own, left, aborted,
                    errored, reported, faults>>
    BY <1>1 DEF vars, chainVars, writerVars, verifierVars
  <2>2. TypeOK'  BY <2>1 DEF IInv, TypeOK
  <2>3. \A u \in Tables : Linked(rows[u], lastId[u])'
    BY <2>1 DEF IInv, Linked, Follows, Tip
  <2>4. \A v \in Writers : WriterInv(v)'
    BY <2>1, WriterKeeps DEF IInv
  <2> QED  BY <2>1, <2>2, <2>3, <2>4 DEF IInv, Drawing
<1>2. CASE Next
  BY <1>2, RequestLockStep, AcquireStep, ReadLastStep, InsertStep, CommitStep,
     RollbackStep, RewriteStep, VerifierStep DEF Next
<1> QED  BY <1>1, <1>2

\* So it always holds.
LEMMA AlwaysIInv == Spec => []IInv
BY InitIInv, NextIInv, PTL DEF Spec

----------------------------------------------------------------------------
(* What follows *)

\* Every variable keeps its type: in particular no id beyond the bound is
\* drawn, and the hash of a stored row always covers its prev_hash and its id
\* (insert_with_chain).
THEOREM TypeCorrect == Spec => []TypeOK
<1>1. IInv => TypeOK  BY DEF IInv
<1> QED  BY <1>1, AlwaysIInv, PTL

\* The chain of the invariant is the one the verifier walks.
LEMMA LinkedIsChain == IInv => ChainLinked
<1> SUFFICES ASSUME IInv, NEW t \in Tables, NEW r \in rows[t]
             PROVE  r.prev = Before(t, r)
  BY DEF ChainLinked
<1> DEFINE B == {s \in rows[t] : s.id < r.id}
<1>1. /\ B \in SUBSET Row /\ Tip(B, r.prev)
      /\ \A p, s \in B : p.id = s.id => p = s
  BY DEF IInv, TypeOK, Linked, Follows
<1> HIDE DEF B
<1>2. LastHash(B) = r.prev  BY <1>1, LastHashIsTip
<1> QED  BY <1>2 DEF Before, B

\* The committed rows of every table form one chain in id order, whoever
\* inserts, rolls back or rewrites in between.
THEOREM AlwaysLinked == Spec => []ChainLinked
BY AlwaysIInv, LinkedIsChain, PTL

\* A table is reported for a row that differs, and such a row stays.
LEMMA AlarmsStep ==
    ASSUME IInv, AlarmsAreReal, [Next]_vars PROVE AlarmsAreReal'
<1>1. \A t \in Tables : rows[t] \in SUBSET Row  BY DEF IInv, TypeOK
<1>2. reported \subseteq Tables /\ reported' \subseteq Tables
  BY NextIInv DEF IInv, TypeOK
<1>3. ASSUME NEW t \in Tables, Violations(t) # {}
      PROVE  \E r \in rows[t] : r.value # r.id
  <2>1. PICK r \in rows[t] : \/ r.prev # Before(t, r)
                             \/ r.hash # RowHash(Before(t, r), r.value)
    BY <1>3 DEF Violations
  <2>2. r.prev = Before(t, r)  BY LinkedIsChain DEF ChainLinked
  <2>3. r.hash = Append(r.prev, r.id)  BY <1>1, RowFields
  <2> QED  BY <2>1, <2>2, <2>3 DEF RowHash
<1>4. ASSUME NEW t \in Tables, \E r \in rows[t] : r.value # r.id
      PROVE  \E r \in rows'[t] : r.value # r.id
  <2>1. PICK r \in rows[t] : r.value # r.id  BY <1>4
  <2>2. CASE rows' = rows  BY <2>1, <2>2
  <2>3. ASSUME NEW w \in Writers, Commit(w) PROVE r \in rows'[t]
    BY <2>3 DEF Commit, IInv, TypeOK
  <2>4. ASSUME NEW u \in Tables, Rewrite(u) PROVE r \in rows'[t]
    <3>1. PICK p \in rows[u] : /\ p.value # Differs
             /\ rows' = [rows EXCEPT ![u] =
                          (@ \ {p}) \cup {[p EXCEPT !.value = Differs]}]
      BY <2>4 DEF Rewrite
    <3>2. CASE u = t /\ p = r
      <4>1. r.value = r.id \/ r.value = Differs  BY <1>1, <2>1, RowFields
      <4> QED  BY <2>1, <3>1, <3>2, <4>1
    <3>3. CASE ~(u = t /\ p = r)
      BY <2>1, <3>1, <3>3 DEF IInv, TypeOK
    <3> QED  BY <3>2, <3>3
  <2>5. rows' = rows \/ (\E w \in Writers : Commit(w)) \/ (\E u \in Tables : Rewrite(u))
    BY DEF Next, vars, chainVars, RequestLock, Acquire, ReadLast, Insert, Rollback,
           StartRound, Check
  <2> QED  BY <2>1, <2>2, <2>3, <2>4, <2>5
<1>5. ASSUME NEW t \in reported' PROVE t \in reported \/ Violations(t) # {}
  BY <1>5 DEF Next, vars, verifierVars, RequestLock, Acquire, ReadLast, Insert,
              Commit, Rollback, Rewrite, StartRound, Check
<1> QED  BY <1>2, <1>3, <1>4, <1>5 DEF AlarmsAreReal

\* A table the nightly verifier reports has a row that does not read back as
\* it was hashed; a writer at work during the walk is never the reason.
THEOREM NoFalseAlarm == Spec => []AlarmsAreReal
<1>1. Init => AlarmsAreReal  BY DEF Init, AlarmsAreReal
<1>2. IInv /\ AlarmsAreReal /\ [Next]_vars => AlarmsAreReal'  BY AlarmsStep
<1> QED  BY <1>1, <1>2, AlwaysIInv, PTL DEF Spec

=============================================================================

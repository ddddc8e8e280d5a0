-------------------------- MODULE SignaturesProofs --------------------------
(***************************************************************************)
(* Proofs about Signatures.                                                *)
(***************************************************************************)
EXTENDS Signatures, FiniteSetTheorems, TLAPS

USE DEF tables, sessions

LEMMA IdShape ==
    /\ \A p \in Loads \cup {None}, k \in Keys : <<p, k>> \in Ids /\ <<p, k>> \in IdsOf(k)
    /\ \A i \in Ids : i[1] \in Loads \cup {None} /\ i[2] \in Keys /\ i = <<i[1], i[2]>>
    /\ \A k \in Keys : \A i \in IdsOf(k) : i \in Ids /\ i[2] = k
    BY DEF Ids, IdsOf

\* What a load is about to tell is a definition.
LEMMA DefinitionKnown ==
    ASSUME TypeOK, NEW p \in Loads, AtDefinition(p)
    PROVE  /\ at[p] \in DOMAIN file[p]
           /\ Key(p) \in Keys
           /\ Content(p) \in Contents \cup {Invalid}
           /\ \A i \in Found(p) : i \in IdsOf(Key(p)) /\ i \in Ids /\ rows[i] \in Rows
    <1>1. file[p] \in Seq(Definitions)
      <2>1. <<>> \in Seq(Definitions)
        OBVIOUS
      <2>. QED  BY <2>1, SignaturesAssumption DEF TypeOK
    <1>2. at[p] \in 1 .. Len(file[p])
      BY <1>1 DEF TypeOK, AtDefinition
    <1>3. file[p][at[p]] \in Definitions
      BY <1>1, <1>2
    <1>4. \A i \in Found(p) : i \in IdsOf(Key(p)) /\ i \in Ids /\ rows[i] \in Rows
      BY DEF Found, IdsOf, TypeOK
    <1>. QED  BY <1>1, <1>2, <1>3, <1>4 DEF Key, Content, Definitions

LEMMA DefinitionOfFile ==
    ASSUME TypeOK, NEW p \in Loads, NEW j \in DOMAIN file[p]
    PROVE  /\ file[p][j].key \in Keys
           /\ j \in Nat
           /\ DOMAIN file[p] = 1 .. Len(file[p])
    <1>1. file[p] \in Seq(Definitions)
      <2>1. <<>> \in Seq(Definitions)
        OBVIOUS
      <2>. QED  BY <2>1, SignaturesAssumption DEF TypeOK
    <1>2. file[p][j] \in Definitions
      BY <1>1
    <1>. QED  BY <1>1, <1>2 DEF Definitions

LEMMA HoldTypes ==
    ASSUME TypeOK, NEW p \in Loads, NEW i \in Ids, NEW r \in Rows, Hold(p, i, r)
    PROVE  TypeOK'
    <1>1. [id |-> i, row |-> r] \in [id : Ids, row : Rows]
      OBVIOUS
    <1>2. [id |-> i, row |-> r] # None
      BY <1>1, SignaturesAssumption
    <1>. QED  BY <1>1, <1>2 DEF TypeOK, Hold

LEMMA ReleaseTypes ==
    ASSUME TypeOK, NEW p \in Loads
    PROVE  Release(file[p]) \in [Keys -> [content : Contents \cup {Invalid, None}, version : Nat]]
    <1>1. file[p] \in Seq(Definitions)
      <2>1. <<>> \in Seq(Definitions)
        OBVIOUS
      <2>. QED  BY <2>1, SignaturesAssumption DEF TypeOK
    <1>. SUFFICES ASSUME NEW k \in Keys
                  PROVE  Release(file[p])[k] \in [content : Contents \cup {Invalid, None}, version : Nat]
      BY DEF Release
    <1>. DEFINE told == {file[p][j].content : j \in {j \in DOMAIN file[p] : file[p][j].key = k}}
    <1>2. told \subseteq Contents \cup {Invalid}
      <2>1. \A j \in DOMAIN file[p] : file[p][j] \in Definitions
        BY <1>1
      <2>2. \A j \in DOMAIN file[p] : file[p][j].content \in Contents \cup {Invalid}
        BY <2>1 DEF Definitions
      <2>. QED  BY <2>2
    <1>3. released[k].version + 1 \in Nat /\ released[k].content \in Contents \cup {Invalid, None}
      BY DEF TypeOK
    <1>4. CASE told \subseteq {released[k].content}
      BY <1>4 DEF Release, TypeOK
    <1>5. CASE ~(told \subseteq {released[k].content})
      <2>1. PICK c : c \in told
        BY <1>5
      <2>2. (CHOOSE x \in told : TRUE) \in told
        BY <2>1
      <2>3. Release(file[p])[k] = [content |-> CHOOSE x \in told : TRUE, version |-> released[k].version + 1]
        BY <1>5 DEF Release
      <2>. QED  BY <1>2, <1>3, <2>2, <2>3
    <1>. QED  BY <1>4, <1>5

LEMMA TypesInit == ASSUME Init PROVE TypeOK
    <1>. PICK t \in Tables :
           /\ rows = [i \in Ids |-> IF i[1] = None /\ t[i[2]] # None THEN Row(t[i[2]], 1, TRUE)
                                    ELSE None]
           /\ released = [k \in Keys |-> [content |-> t[k], version |-> IF t[k] = None THEN 0 ELSE 1]]
      BY DEF Init
    <1>1. t \in [Keys -> Contents \cup {Invalid, None}]
      BY SignaturesAssumption
    <1>2. rows \in [Ids -> Rows \cup {None}]
      BY <1>1, IdShape DEF Rows, Row
    <1>3. released \in [Keys -> [content : Contents \cup {Invalid, None}, version : Nat]]
      BY <1>1
    <1>4. /\ pc = [p \in Loads |-> "idle"] /\ file = [p \in Loads |-> <<>>]
          /\ at = [p \in Loads |-> 1] /\ dirty = [p \in Loads |-> None]
          /\ written = [p \in Loads |-> NoRows] /\ met = {}
      BY DEF Init
    <1>5. written \in [Loads -> [Ids -> Rows \cup {None}]]
      BY ONLY <1>4 DEF NoRows
    <1>6. /\ pc \in [Loads -> {"idle", "select", "flush", "done", "failed"}]
          /\ file \in [Loads -> Files \cup {<<>>}]
          /\ at \in [Loads -> Nat \ {0}]
          /\ dirty \in [Loads -> [id : Ids, row : Rows] \cup {None}]
          /\ \A p \in Loads : pc[p] = "flush" <=> dirty[p] # None
          /\ met \subseteq SUBSET Loads
      BY ONLY <1>4
    <1>. QED  BY ONLY <1>2, <1>3, <1>5, <1>6 DEF TypeOK

LEMMA TypesNext == ASSUME TypeOK, [Next]_vars PROVE TypeOK'
    <1>1. ASSUME NEW p \in Loads, Start(p) PROVE TypeOK'
      <2>. PICK f \in Files :
             /\ file' = [file EXCEPT ![p] = IF Parses(f) THEN f ELSE <<>>]
             /\ pc' = [pc EXCEPT ![p] = IF Parses(f) THEN "select" ELSE "failed"]
             /\ met' = IF Parses(f) THEN met \cup {{p, q} : q \in Open} ELSE met
        BY <1>1 DEF Start
      <2>1. {{p, q} : q \in Open} \subseteq SUBSET Loads
        BY DEF Open
      <2>2. met' \subseteq SUBSET Loads
        BY <2>1 DEF TypeOK
      <2>3. file' \in [Loads -> Files \cup {<<>>}]
        BY DEF TypeOK
      <2>. QED  BY <1>1, <2>2, <2>3 DEF TypeOK, Start
    <1>2. ASSUME NEW p \in Loads, AddRow(p) PROVE TypeOK'
      <2>1. Row(Content(p), 1, TRUE) \in Rows
        BY <1>2, DefinitionKnown DEF AddRow, Row, Rows
      <2>2. <<p, Key(p)>> \in Ids
        BY <1>2, DefinitionKnown, IdShape DEF AddRow
      <2>. QED  BY <1>2, <2>1, <2>2, HoldTypes DEF AddRow
    <1>3. ASSUME NEW p \in Loads, ChangeRow(p) PROVE TypeOK'
      <2>. PICK i \in Found(p) : Hold(p, i, Row(Content(p), rows[i].version + 1, ~rows[i].active))
        BY <1>3 DEF ChangeRow
      <2>1. i \in Ids /\ rows[i] \in Rows
        BY <1>3, DefinitionKnown DEF ChangeRow
      <2>2. Row(Content(p), rows[i].version + 1, ~rows[i].active) \in Rows
        <3>1. rows[i].version + 1 \in Nat \ {0}
          BY <2>1 DEF Rows
        <3>2. (~rows[i].active) \in BOOLEAN
          OBVIOUS
        <3>. QED  BY <1>3, <3>1, <3>2, DefinitionKnown DEF ChangeRow, Row, Rows
      <2>. QED  BY <2>1, <2>2, HoldTypes
    <1>4. ASSUME NEW p \in Loads, KeepRow(p) PROVE TypeOK'
      BY <1>4 DEF KeepRow, TypeOK
    <1>5. ASSUME NEW p \in Loads, Flush(p) PROVE TypeOK'
      <2>. DEFINE i == dirty[p].id
                  on == rows[i] # None /\ rows[i].active
                  r == [dirty[p].row EXCEPT !.active = @ \/ on]
      <2>1. i \in Ids /\ dirty[p].row \in Rows
        BY <1>5 DEF Flush, TypeOK
      <2>2. (dirty[p].row.active \/ on) \in BOOLEAN
        OBVIOUS
      <2>3. r \in Rows
        BY <2>1, <2>2 DEF Rows
      <2>. QED  BY <1>5, <2>1, <2>3 DEF TypeOK, Flush
    <1>6. ASSUME NEW p \in Loads, Commit(p) PROVE TypeOK'
      <2>1. rows' \in [Ids -> Rows \cup {None}]
        BY <1>6 DEF Commit, TypeOK
      <2>2. released' \in [Keys -> [content : Contents \cup {Invalid, None}, version : Nat]]
        BY <1>6, ReleaseTypes DEF Commit
      <2>. QED  BY <1>6, <2>1, <2>2 DEF Commit, TypeOK, NoRows
    <1>7. ASSUME NEW p \in Loads, Fail(p) PROVE TypeOK'
      BY <1>7 DEF Fail, TypeOK, NoRows
    <1>8. ASSUME NEW i \in Ids, SwitchOff(i) PROVE TypeOK'
      <2>0. rows[i] \in Rows
        BY <1>8 DEF SwitchOff, TypeOK
      <2>1. [rows[i] EXCEPT !.active = FALSE] \in Rows
        BY <2>0 DEF Rows
      <2>. QED  BY <1>8, <2>1 DEF SwitchOff, TypeOK
    <1>9. CASE UNCHANGED vars
      BY <1>9 DEF vars, TypeOK
    <1>. QED  BY <1>1, <1>2, <1>3, <1>4, <1>5, <1>6, <1>7, <1>8, <1>9 DEF Next, Step

\* The types of the table, the sessions and their history hold in every state, for
\* any number of loads and signatures and any files (engine/signatures.py).
THEOREM SignatureTypes == Spec => []TypeOK
    <1>1. Init => TypeOK
      BY TypesInit
    <1>2. TypeOK /\ [Next]_vars => TypeOK'
      BY TypesNext
    <1>. QED  BY <1>1, <1>2, PTL DEF Spec

-----------------------------------------------------------------------------
(***************************************************************************)
(* What a session holds, and who can have inserted what.                   *)
(***************************************************************************)
Touches(p, i) == written[p][i] # None \/ (dirty[p] # None /\ dirty[p].id = i)

OpenKnows ==
    /\ \A p, q \in Open : p # q => {p, q} \in met
    /\ \A p \in Open : Parses(file[p])
    /\ \A p \in Loads : pc[p] = "idle" => at[p] = 1 /\ file[p] = <<>>

\* A session writes rows that are there, or inserts its own, in which case those of
\* that key that came since are of loads that it met.
SessionKnows ==
    \A p \in Loads, i \in Ids : Touches(p, i) =>
        /\ p \in Open
        /\ \/ rows[i] # None
           \/ /\ i[1] = p
              /\ \A j \in IdsOf(i[2]) : rows[j] # None => {p, j[1]} \in met

\* What it writes validates.
WritesValid ==
    \A p \in Loads :
        /\ dirty[p] # None => dirty[p].row.content # Invalid
        /\ \A i \in Ids : written[p][i] # None => written[p][i].content # Invalid

\* A row is of a load that is done, or from before; only the latter can be invalid.
RowsKnown ==
    \A i \in Ids : rows[i] # None =>
        /\ i[1] \in Loads => pc[i[1]] = "done"
        /\ rows[i].content = Invalid => i[1] = None

Bad(k) == rows[<<None, k>>] # None /\ rows[<<None, k>>].content = Invalid

\* A load has repaired the rows it is past, or is about to.
RepairsUnderWay ==
    \A p \in Loads : \A j \in DOMAIN file[p] :
        /\ p \in Open /\ j < at[p] /\ Bad(file[p][j].key) => Touches(p, <<None, file[p][j].key>>)
        /\ pc[p] = "done" => ~Bad(file[p][j].key)

IInv ==
    /\ TypeOK
    /\ OpenKnows
    /\ SessionKnows
    /\ WritesValid
    /\ RowsKnown
    /\ RepairsUnderWay
    /\ OneRowEach

LEMMA IInvInit == ASSUME Init PROVE IInv
    <1>1. TypeOK
      BY TypesInit
    <1>2. /\ pc = [p \in Loads |-> "idle"] /\ file = [p \in Loads |-> <<>>]
          /\ at = [p \in Loads |-> 1] /\ dirty = [p \in Loads |-> None]
          /\ written = [p \in Loads |-> NoRows] /\ met = {}
      BY DEF Init
    <1>3. Open = {}
      BY <1>2 DEF Open
    <1>4. \A i \in Ids : rows[i] # None => i[1] = None
      BY DEF Init
    <1>5. \A p \in Loads, i \in Ids : ~Touches(p, i)
      BY <1>2 DEF Touches, NoRows
    <1>6. OpenKnows /\ SessionKnows /\ WritesValid
      BY <1>2, <1>3, <1>5 DEF OpenKnows, SessionKnows, WritesValid, NoRows
    <1>7. RowsKnown
      BY <1>4, SignaturesAssumption DEF RowsKnown
    <1>8. RepairsUnderWay
      BY <1>2, <1>3 DEF RepairsUnderWay
    <1>9. OneRowEach
      BY <1>4, IdShape DEF OneRowEach
    <1>. QED  BY <1>1, <1>6, <1>7, <1>8, <1>9 DEF IInv

\* A session that holds a row of a key whose rows it has read.
LEMMA HoldKeepsIInv ==
    ASSUME IInv, NEW p \in Loads, AtDefinition(p), NEW i \in IdsOf(Key(p)), NEW r \in Rows,
           Hold(p, i, r), r.content = Content(p),
           \/ Found(p) = {} /\ i[1] = p
           \/ Found(p) = {i}
    PROVE  IInv'
    <1>1. TypeOK'
      BY IdShape, DefinitionKnown, HoldTypes DEF IInv
    <1>2. /\ i \in Ids /\ i[2] = Key(p) /\ Key(p) \in Keys
          /\ at[p] \in DOMAIN file[p]
      BY IdShape, DefinitionKnown DEF IInv
    <1>3. p \in Open /\ Open' = Open /\ p \in Open'
      BY DEF AtDefinition, Hold, Open, IInv, TypeOK
    <1>4. dirty[p] = None /\ dirty'[p] = [id |-> i, row |-> r]
      BY DEF IInv, TypeOK, AtDefinition, Hold
    <1>5. \A q \in Loads, l \in Ids : Touches(q, l)' => Touches(q, l) \/ (q = p /\ l = i)
      BY <1>4 DEF Touches, Hold, IInv, TypeOK
    <1>6. \A q \in Loads, l \in Ids : Touches(q, l) => Touches(q, l)'
      BY <1>4 DEF Touches, Hold, IInv, TypeOK
    <1>7. Touches(p, i)'
      BY <1>1, <1>4, <1>2, SignaturesAssumption DEF Touches, TypeOK
    <1>8. Content(p) # Invalid
      BY <1>2, <1>3 DEF IInv, OpenKnows, Parses, Content
    <1>9. OpenKnows'
      BY <1>3 DEF OpenKnows, Hold, IInv, TypeOK, AtDefinition
    <1>10. SessionKnows'
      <2>. SUFFICES ASSUME NEW q \in Loads, NEW l \in Ids, Touches(q, l)'
                    PROVE  /\ q \in Open
                           /\ \/ rows[l] # None
                              \/ /\ l[1] = q
                                 /\ \A j \in IdsOf(l[2]) : rows[j] # None => {q, j[1]} \in met
        BY <1>3 DEF SessionKnows, Hold
      <2>1. CASE Touches(q, l)
        BY <2>1 DEF SessionKnows, IInv
      <2>2. CASE q = p /\ l = i
        <3>1. CASE Found(p) = {i}
          BY <1>3, <2>2, <3>1 DEF Found
        <3>2. CASE Found(p) = {} /\ i[1] = p
          BY <1>2, <1>3, <2>2, <3>2 DEF Found
        <3>. QED  BY <3>1, <3>2
      <2>. QED  BY <1>5, <2>1, <2>2
    <1>11. WritesValid'
      BY <1>4, <1>8 DEF WritesValid, Hold, IInv, TypeOK
    <1>12. RowsKnown'
      BY DEF RowsKnown, Hold, IInv, TypeOK, AtDefinition
    <1>13. RepairsUnderWay'
      <2>. SUFFICES ASSUME NEW q \in Loads, NEW j \in DOMAIN file[q]
                    PROVE  /\ q \in Open /\ j < at'[q] /\ Bad(file[q][j].key)
                                 => Touches(q, <<None, file[q][j].key>>)'
                           /\ pc'[q] = "done" => ~Bad(file[q][j].key)
        BY <1>3 DEF RepairsUnderWay, Hold, Bad
      <2>0. file[q][j].key \in Keys
        BY DefinitionOfFile DEF IInv
      <2>1. pc'[q] = "done" => ~Bad(file[q][j].key)
        BY DEF RepairsUnderWay, Hold, IInv, TypeOK
      <2>2. ASSUME q \in Open, j < at'[q], Bad(file[q][j].key)
            PROVE  Touches(q, <<None, file[q][j].key>>)'
        <3>1. CASE j < at[q]
          <4>1. Touches(q, <<None, file[q][j].key>>)
            BY <2>2, <3>1 DEF RepairsUnderWay, IInv
          <4>2. <<None, file[q][j].key>> \in Ids
            BY <2>0, IdShape
          <4>3. file' = file
            BY DEF Hold
          <4>. QED  BY <4>1, <4>2, <4>3, <1>6
        <3>2. CASE ~(j < at[q])
          <4>1. q = p /\ j = at[p]
            BY <2>2, <3>2, <1>2, DefinitionOfFile DEF Hold, IInv, TypeOK
          <4>2. <<None, Key(p)>> \in Found(p)
            BY <2>2, <4>1, <1>2, IdShape DEF Bad, Key, Found
          <4>3. i = <<None, Key(p)>>
            BY <4>2
          <4>4. file' = file
            BY DEF Hold
          <4>. QED  BY <4>1, <4>3, <4>4, <1>7 DEF Key
        <3>. QED  BY <3>1, <3>2
      <2>. QED  BY <2>1, <2>2
    <1>14. OneRowEach'
      BY DEF OneRowEach, Hold, IInv
    <1>. QED  BY <1>1, <1>9, <1>10, <1>11, <1>12, <1>13, <1>14 DEF IInv

LEMMA IInvNext == ASSUME IInv, [Next]_vars PROVE IInv'
    <1>0. TypeOK /\ TypeOK'
      BY TypesNext DEF IInv
    <1>1. ASSUME NEW p \in Loads, Start(p) PROVE IInv'
      <2>. PICK f \in Files :
             /\ file' = [file EXCEPT ![p] = IF Parses(f) THEN f ELSE <<>>]
             /\ pc' = [pc EXCEPT ![p] = IF Parses(f) THEN "select" ELSE "failed"]
             /\ met' = IF Parses(f) THEN met \cup {{p, q} : q \in Open} ELSE met
        BY <1>1 DEF Start
      <2>1. /\ pc[p] = "idle" /\ at[p] = 1 /\ p \notin Open
            /\ Open' = IF Parses(f) THEN Open \cup {p} ELSE Open
        BY <1>0, <1>1 DEF Start, Open, TypeOK, IInv, OpenKnows
      <2>2. \A q \in Loads, i \in Ids : Touches(q, i)' <=> Touches(q, i)
        BY <1>1 DEF Start, Touches
      <2>3. OpenKnows'
        <3>1. ASSUME NEW a \in Open', NEW b \in Open', a # b PROVE {a, b} \in met'
          <4>1. CASE a # p /\ b # p
            BY <2>1, <3>1, <4>1 DEF IInv, OpenKnows
          <4>2. CASE a = p
            BY <2>1, <3>1, <4>2
          <4>3. CASE b = p
            <5>1. {a, b} = {p, a} /\ a \in Open
              BY <2>1, <3>1, <4>3
            <5>. QED  BY <2>1, <5>1
          <4>. QED  BY <4>1, <4>2, <4>3
        <3>2. ASSUME NEW a \in Open' PROVE Parses(file'[a])
          BY <1>0, <2>1, <3>2 DEF IInv, OpenKnows, TypeOK, Open
        <3>3. \A q \in Loads : pc'[q] = "idle" => at'[q] = 1 /\ file'[q] = <<>>
          BY <1>0, <1>1 DEF IInv, OpenKnows, TypeOK, Start
        <3>. QED  BY <3>1, <3>2, <3>3 DEF OpenKnows, Parses
      <2>4. SessionKnows'
        BY <1>1, <2>1, <2>2 DEF SessionKnows, IInv, Start
      <2>5. WritesValid'
        BY <1>1 DEF WritesValid, IInv, Start
      <2>6. RowsKnown'
        BY <1>0, <1>1, <2>1 DEF RowsKnown, IInv, Start, TypeOK
      <2>7. RepairsUnderWay'
        <3>. SUFFICES ASSUME NEW q \in Loads, NEW j \in DOMAIN file'[q]
                      PROVE  /\ q \in Open' /\ j < at[q] /\ Bad(file[q][j].key)'
                                   => Touches(q, <<None, file[q][j].key>>)'
                             /\ pc'[q] = "done" => ~Bad(file[q][j].key)'
          BY <1>1 DEF RepairsUnderWay, Start
        <3>1. CASE q = p
          <4>1. pc'[p] # "done"
            BY <1>0, <3>1 DEF TypeOK
          <4>2. j \in Nat /\ j >= 1
            <5>1. file'[q] \in Seq(Definitions)
              <6>1. <<>> \in Seq(Definitions)
                OBVIOUS
              <6>. QED  BY <1>0, <6>1, SignaturesAssumption DEF TypeOK
            <5>. QED  BY <5>1
          <4>. QED  BY <2>1, <3>1, <4>1, <4>2
        <3>2. CASE q # p
          <4>1. file'[q] = file[q] /\ pc'[q] = pc[q]
            BY <1>0, <3>2 DEF TypeOK
          <4>2. <<None, file[q][j].key>> \in Ids
            BY <1>0, <4>1, DefinitionOfFile, IdShape
          <4>3. q \in Open' => q \in Open
            BY <2>1, <3>2
          <4>4. rows' = rows /\ <<None, file'[q][j].key>> \in Ids
            BY <1>1, <4>1, <4>2 DEF Start
          <4>. QED  BY <2>2, <4>1, <4>2, <4>3, <4>4 DEF RepairsUnderWay, IInv, Bad
        <3>. QED  BY <3>1, <3>2
      <2>8. OneRowEach'
        BY <1>1 DEF OneRowEach, IInv, Start
      <2>. QED  BY <1>0, <2>3, <2>4, <2>5, <2>6, <2>7, <2>8 DEF IInv
    <1>2. ASSUME NEW p \in Loads, AddRow(p) PROVE IInv'
      <2>1. Row(Content(p), 1, TRUE) \in Rows /\ Row(Content(p), 1, TRUE).content = Content(p)
        BY <1>0, <1>2, DefinitionKnown DEF AddRow, Row, Rows
      <2>2. <<p, Key(p)>> \in IdsOf(Key(p))
        BY <1>0, <1>2, DefinitionKnown, IdShape DEF AddRow
      <2>. QED  BY <1>2, <2>1, <2>2, HoldKeepsIInv DEF AddRow
    <1>3. ASSUME NEW p \in Loads, ChangeRow(p) PROVE IInv'
      <2>. PICK i \in Found(p) :
             /\ Found(p) = {i}
             /\ Hold(p, i, Row(Content(p), rows[i].version + 1, ~rows[i].active))
        BY <1>3 DEF ChangeRow
      <2>. DEFINE r == Row(Content(p), rows[i].version + 1, ~rows[i].active)
      <2>1. i \in IdsOf(Key(p)) /\ rows[i] \in Rows
        BY <1>0, <1>3, DefinitionKnown DEF ChangeRow
      <2>2. r \in Rows /\ r.content = Content(p)
        <3>1. rows[i].version + 1 \in Nat \ {0}
          BY <2>1 DEF Rows
        <3>. QED  BY <1>0, <1>3, <3>1, DefinitionKnown DEF ChangeRow, Row, Rows
      <2>. QED  BY <1>3, <2>1, <2>2, HoldKeepsIInv DEF ChangeRow
    <1>4. ASSUME NEW p \in Loads, KeepRow(p) PROVE IInv'
      <2>. PICK i \in Found(p) : Found(p) = {i} /\ rows[i].content = Content(p)
        BY <1>4 DEF KeepRow
      <2>1. AtDefinition(p) /\ p \in Open /\ Open' = Open
        BY <1>4 DEF KeepRow, AtDefinition, Open
      <2>2. at[p] \in DOMAIN file[p] /\ Content(p) # Invalid
        BY <1>0, <2>1, DefinitionKnown DEF IInv, OpenKnows, Parses, Content
      <2>3. \A q \in Loads, l \in Ids : Touches(q, l)' <=> Touches(q, l)
        BY <1>4 DEF KeepRow, Touches
      <2>4. OpenKnows'
        BY <1>0, <1>4, <2>1 DEF OpenKnows, IInv, KeepRow, AtDefinition, TypeOK
      <2>5. RepairsUnderWay'
        <3>. SUFFICES ASSUME NEW q \in Loads, NEW j \in DOMAIN file[q]
                      PROVE  /\ q \in Open /\ j < at'[q] /\ Bad(file[q][j].key)
                                   => Touches(q, <<None, file[q][j].key>>)
                             /\ pc[q] = "done" => ~Bad(file[q][j].key)
          BY <1>4, <2>1 DEF RepairsUnderWay, KeepRow, Bad, Touches
        <3>1. CASE q = p /\ j = at[p]
          <4>1. Bad(Key(p)) => <<None, Key(p)>> \in Found(p)
            BY <1>0, <2>1, DefinitionKnown, IdShape DEF Bad, Found
          <4>2. ~Bad(Key(p))
            BY <4>1, <2>2 DEF Bad
          <4>. QED  BY <3>1, <4>2 DEF Key
        <3>2. CASE ~(q = p /\ j = at[p])
          <4>1. j < at'[q] => j < at[q]
            BY <1>0, <1>4, <2>2, <3>2, DefinitionOfFile DEF KeepRow, TypeOK
          <4>. QED  BY <4>1 DEF RepairsUnderWay, IInv
        <3>. QED  BY <3>1, <3>2
      <2>. QED  BY <1>0, <1>4, <2>1, <2>3, <2>4, <2>5
                DEF IInv, KeepRow, SessionKnows, WritesValid, RowsKnown, OneRowEach
    <1>5. ASSUME NEW p \in Loads, Flush(p) PROVE IInv'
      <2>. DEFINE i == dirty[p].id
      <2>1. pc[p] = "flush" /\ dirty[p] # None /\ i \in Ids /\ dirty[p].row \in Rows
        BY <1>0, <1>5 DEF Flush, TypeOK
      <2>2. PICK x \in BOOLEAN : written' = [written EXCEPT ![p][i] = [dirty[p].row EXCEPT !.active = x]]
        BY <1>5 DEF Flush
      <2>3. [dirty[p].row EXCEPT !.active = x] \in Rows
        BY <2>1 DEF Rows
      <2>4. written'[p][i] # None /\ written'[p][i].content = dirty[p].row.content
        <3>1. written'[p][i] = [dirty[p].row EXCEPT !.active = x]
          BY <1>0, <2>1, <2>2 DEF TypeOK
        <3>2. [dirty[p].row EXCEPT !.active = x].content = dirty[p].row.content
          BY <2>1 DEF Rows
        <3>. QED  BY <2>3, <3>1, <3>2, SignaturesAssumption
      <2>5. /\ \A q \in Loads, l \in Ids : ~(q = p /\ l = i) => written'[q][l] = written[q][l]
            /\ dirty' = [dirty EXCEPT ![p] = None]
            /\ Open' = Open
        BY <1>0, <1>5, <2>1, <2>2 DEF Flush, TypeOK, Open
      <2>6. \A q \in Loads, l \in Ids : Touches(q, l)' <=> Touches(q, l)
        BY <1>0, <2>1, <2>4, <2>5 DEF Touches, TypeOK
      <2>7. OpenKnows'
        BY <1>0, <1>5, <2>5 DEF OpenKnows, IInv, Flush, TypeOK
      <2>8. WritesValid'
        BY <1>0, <2>1, <2>4, <2>5 DEF WritesValid, IInv, TypeOK
      <2>9. RowsKnown'
        BY <1>0, <1>5 DEF RowsKnown, IInv, Flush, TypeOK
      <2>10. RepairsUnderWay'
        <3>. SUFFICES ASSUME NEW q \in Loads, NEW j \in DOMAIN file[q]
                      PROVE  /\ q \in Open /\ j < at[q] /\ Bad(file[q][j].key)
                                   => Touches(q, <<None, file[q][j].key>>)'
                             /\ pc'[q] = "done" => ~Bad(file[q][j].key)
          BY <1>5, <2>5 DEF RepairsUnderWay, Flush, Bad
        <3>1. <<None, file[q][j].key>> \in Ids /\ file' = file
          BY <1>0, <1>5, DefinitionOfFile, IdShape DEF Flush
        <3>2. pc'[q] = "done" => pc[q] = "done"
          BY <1>0, <1>5 DEF Flush, TypeOK
        <3>. QED  BY <2>6, <3>1, <3>2 DEF RepairsUnderWay, IInv
      <2>11. SessionKnows' /\ OneRowEach'
        BY <1>5, <2>5, <2>6 DEF SessionKnows, OneRowEach, IInv, Flush
      <2>. QED  BY <1>0, <2>7, <2>8, <2>9, <2>10, <2>11 DEF IInv
    <1>6. ASSUME NEW p \in Loads, Commit(p) PROVE IInv'
      <2>1. /\ p \in Open /\ Open' = Open \ {p} /\ dirty[p] = None
            /\ pc' = [pc EXCEPT ![p] = "done"]
            /\ UNCHANGED <<file, dirty, met>>
        BY <1>0, <1>6 DEF Commit, TypeOK, Open
      <2>2. \A i \in Ids : rows'[i] = IF written[p][i] # None THEN written[p][i] ELSE rows[i]
        BY <1>6 DEF Commit
      <2>3. \A q \in Loads, i \in Ids : Touches(q, i)' <=> q # p /\ Touches(q, i)
        BY <1>0, <1>6, <2>1 DEF Touches, Commit, TypeOK, NoRows
      <2>4. \A i \in Ids : written[p][i] # None => Touches(p, i) /\ written[p][i].content # Invalid
        BY DEF Touches, IInv, WritesValid
      <2>5. \A i \in Ids : rows'[i] # None /\ rows[i] = None =>
                i[1] = p /\ \A j \in IdsOf(i[2]) : rows[j] # None => {p, j[1]} \in met
        BY <2>2, <2>4 DEF IInv, SessionKnows
      <2>6. \A i \in Ids : rows[i] # None => rows'[i] # None
        BY <2>2
      <2>7. OpenKnows'
        BY <1>0, <1>6, <2>1 DEF OpenKnows, IInv, Commit, TypeOK
      <2>8. SessionKnows'
        <3>. SUFFICES ASSUME NEW q \in Loads, NEW i \in Ids, q # p, Touches(q, i), rows'[i] = None,
                             NEW j \in IdsOf(i[2]), rows'[j] # None
                      PROVE  i[1] = q /\ {q, j[1]} \in met
          <4>1. \A q \in Loads, i \in Ids : q # p /\ Touches(q, i) => q \in Open'
            BY <2>1 DEF IInv, SessionKnows
          <4>2. \A q \in Loads, i \in Ids : Touches(q, i) /\ rows'[i] = None => i[1] = q
            BY <2>6 DEF IInv, SessionKnows
          <4>. QED  BY <2>1, <2>3, <4>1, <4>2 DEF SessionKnows
        <3>1. rows[i] = None /\ j \in Ids /\ q \in Open
          BY <2>6, IdShape DEF IInv, SessionKnows
        <3>2. i[1] = q /\ (rows[j] # None => {q, j[1]} \in met)
          BY <3>1 DEF IInv, SessionKnows
        <3>3. rows[j] = None => {q, j[1]} \in met
          BY <2>1, <2>5, <3>1 DEF IInv, OpenKnows
        <3>. QED  BY <3>2, <3>3
      <2>9. WritesValid'
        BY <1>0, <1>6, <2>1 DEF WritesValid, IInv, Commit, NoRows, TypeOK
      <2>10. RowsKnown'
        <3>. SUFFICES ASSUME NEW i \in Ids, rows'[i] # None
                      PROVE  /\ i[1] \in Loads => pc'[i[1]] = "done"
                             /\ rows'[i].content = Invalid => i[1] = None
          BY DEF RowsKnown
        <3>1. rows'[i].content = Invalid => rows'[i] = rows[i]
          BY <2>2, <2>4
        <3>2. CASE rows[i] = None
          BY <1>0, <2>1, <2>5, <3>1, <3>2 DEF TypeOK
        <3>3. CASE rows[i] # None
          BY <1>0, <2>1, <3>1, <3>3 DEF IInv, RowsKnown, TypeOK
        <3>. QED  BY <3>2, <3>3
      <2>11. RepairsUnderWay'
        <3>1. \A k \in Keys : Bad(k)' => Bad(k) /\ ~Touches(p, <<None, k>>)
          <4>. SUFFICES ASSUME NEW k \in Keys, Bad(k)' PROVE Bad(k) /\ ~Touches(p, <<None, k>>)
            OBVIOUS
          <4>1. <<None, k>> \in Ids
            BY IdShape
          <4>2. written[p][<<None, k>>] = None
            BY <2>2, <2>4, <4>1 DEF Bad
          <4>. QED  BY <2>1, <2>2, <4>1, <4>2 DEF Bad, Touches
        <3>. SUFFICES ASSUME NEW q \in Loads, NEW j \in DOMAIN file[q], Bad(file[q][j].key)'
                      PROVE  /\ q \in Open' /\ j < at'[q] => Touches(q, <<None, file[q][j].key>>)'
                             /\ pc'[q] # "done"
          BY <2>1 DEF RepairsUnderWay
        <3>2. <<None, file[q][j].key>> \in Ids /\ file[q][j].key \in Keys
          BY <1>0, DefinitionOfFile, IdShape
        <3>3. Bad(file[q][j].key) /\ ~Touches(p, <<None, file[q][j].key>>)
          BY <2>1, <3>1, <3>2
        <3>4. CASE q = p
          <4>1. j < at[p]
            BY <1>0, <1>6, <3>4, DefinitionOfFile DEF Commit, TypeOK
          <4>. QED  BY <2>1, <3>3, <3>4, <4>1 DEF IInv, RepairsUnderWay
        <3>5. CASE q # p
          <4>1. /\ q \in Open' => q \in Open
                /\ at'[q] = at[q] /\ pc'[q] = pc[q]
            BY <1>0, <1>6, <2>1, <3>5 DEF Commit, TypeOK
          <4>2. /\ q \in Open' /\ j < at'[q] => Touches(q, <<None, file[q][j].key>>)
                /\ pc[q] # "done"
            BY <3>3, <4>1 DEF IInv, RepairsUnderWay
          <4>3. file' = file
            BY <2>1
          <4>. QED  BY <2>3, <3>2, <3>5, <4>1, <4>2, <4>3
        <3>. QED  BY <3>4, <3>5
      <2>12. OneRowEach'
        <3>. SUFFICES ASSUME NEW k \in Keys, NEW i \in IdsOf(k), NEW j \in IdsOf(k),
                             i # j, rows'[i] # None, rows'[j] # None
                      PROVE  {i[1], j[1]} \in met
          BY <2>1 DEF OneRowEach
        <3>1. i \in Ids /\ j \in Ids /\ i[2] = k /\ j[2] = k /\ i[1] # j[1]
          BY IdShape
        <3>2. CASE rows[i] # None /\ rows[j] # None
          BY <3>2 DEF IInv, OneRowEach
        <3>3. CASE rows[i] = None
          BY <2>5, <3>1, <3>3
        <3>4. CASE rows[j] = None
          <4>1. j[1] = p /\ {p, i[1]} \in met
            BY <2>5, <3>1, <3>4
          <4>2. {p, i[1]} = {i[1], p}
            OBVIOUS
          <4>. QED  BY <4>1, <4>2
        <3>. QED  BY <3>2, <3>3, <3>4
      <2>. QED  BY <1>0, <2>7, <2>8, <2>9, <2>10, <2>11, <2>12 DEF IInv
    <1>7. ASSUME NEW p \in Loads, Fail(p) PROVE IInv'
      <2>1. Open' = Open \ {p} /\ pc' = [pc EXCEPT ![p] = "failed"] /\ p \in Open
        BY <1>0, <1>7 DEF Fail, Open, TypeOK
      <2>2. \A q \in Loads, i \in Ids : Touches(q, i)' <=> q # p /\ Touches(q, i)
        BY <1>0, <1>7 DEF Touches, Fail, TypeOK, NoRows
      <2>3. OpenKnows'
        BY <1>0, <1>7, <2>1 DEF OpenKnows, IInv, Fail, TypeOK
      <2>4. SessionKnows'
        BY <1>7, <2>1, <2>2 DEF SessionKnows, IInv, Fail
      <2>5. WritesValid'
        BY <1>0, <1>7 DEF WritesValid, IInv, Fail, TypeOK, NoRows
      <2>6. RowsKnown'
        BY <1>0, <1>7, <2>1 DEF RowsKnown, IInv, Fail, TypeOK, Open
      <2>7. RepairsUnderWay'
        <3>. SUFFICES ASSUME NEW q \in Loads, NEW j \in DOMAIN file'[q], Bad(file[q][j].key)'
                      PROVE  /\ q \in Open' /\ j < at'[q] => Touches(q, <<None, file[q][j].key>>)'
                             /\ pc'[q] # "done"
          BY DEF RepairsUnderWay
        <3>1. q # p
          BY <1>0, <1>7 DEF Fail, TypeOK
        <3>2. /\ file'[q] = file[q] /\ at'[q] = at[q] /\ pc'[q] = pc[q]
              /\ q \in Open' => q \in Open
          BY <1>0, <1>7, <2>1, <3>1 DEF Fail, TypeOK
        <3>3. <<None, file[q][j].key>> \in Ids
          BY <1>0, <3>2, DefinitionOfFile, IdShape
        <3>4. rows' = rows /\ Bad(file[q][j].key)
          BY <1>7, <3>2 DEF Fail, Bad
        <3>. QED  BY <2>2, <3>1, <3>2, <3>3, <3>4 DEF RepairsUnderWay, IInv
      <2>8. OneRowEach'
        BY <1>7 DEF OneRowEach, IInv, Fail
      <2>. QED  BY <1>0, <2>3, <2>4, <2>5, <2>6, <2>7, <2>8 DEF IInv
    <1>8. ASSUME NEW i \in Ids, SwitchOff(i) PROVE IInv'
      <2>1. \A l \in Ids : /\ rows'[l] # None <=> rows[l] # None
                           /\ rows[l] # None => rows'[l].content = rows[l].content
        <3>1. rows[i] \in Rows /\ rows' = [rows EXCEPT ![i] = [rows[i] EXCEPT !.active = FALSE]]
          BY <1>0, <1>8 DEF SwitchOff, TypeOK
        <3>2. /\ [rows[i] EXCEPT !.active = FALSE] \in Rows
              /\ [rows[i] EXCEPT !.active = FALSE].content = rows[i].content
          BY <3>1 DEF Rows
        <3>3. rows[i] # None /\ [rows[i] EXCEPT !.active = FALSE] # None
          BY <3>1, <3>2, SignaturesAssumption
        <3>. QED  BY <1>0, <3>1, <3>2, <3>3 DEF TypeOK
      <2>2. \A k \in Keys : Bad(k)' <=> Bad(k)
        <3>. SUFFICES ASSUME NEW k \in Keys PROVE Bad(k)' <=> Bad(k)
          OBVIOUS
        <3>1. <<None, k>> \in Ids
          BY IdShape
        <3>. QED  BY <2>1, <3>1 DEF Bad
      <2>3. RepairsUnderWay'
        <3>. SUFFICES ASSUME NEW q \in Loads, NEW j \in DOMAIN file[q], Bad(file[q][j].key)'
                      PROVE  /\ q \in Open /\ j < at[q] => Touches(q, <<None, file[q][j].key>>)
                             /\ pc[q] # "done"
          BY <1>8 DEF RepairsUnderWay, SwitchOff, Touches, Open
        <3>1. Bad(file[q][j].key)
          BY <1>0, <1>8, <2>2, DefinitionOfFile DEF SwitchOff
        <3>. QED  BY <3>1 DEF RepairsUnderWay, IInv
      <2>4. SessionKnows'
        <3>1. \A l \in Ids : \A j \in IdsOf(l[2]) : j \in Ids
          BY IdShape
        <3>2. Open' = Open /\ met' = met /\ \A q \in Loads, l \in Ids : Touches(q, l)' <=> Touches(q, l)
          BY <1>8 DEF SwitchOff, Touches, Open
        <3>. SUFFICES ASSUME NEW q \in Loads, NEW l \in Ids, Touches(q, l)
                      PROVE  /\ q \in Open
                             /\ \/ rows'[l] # None
                                \/ /\ l[1] = q
                                   /\ \A j \in IdsOf(l[2]) : rows'[j] # None => {q, j[1]} \in met
          BY <3>2 DEF SessionKnows
        <3>3. \/ rows[l] # None
              \/ /\ l[1] = q
                 /\ \A j \in IdsOf(l[2]) : rows[j] # None => {q, j[1]} \in met
          BY DEF SessionKnows, IInv
        <3>4. q \in Open
          BY DEF SessionKnows, IInv
        <3>. QED  BY <2>1, <3>1, <3>3, <3>4
      <2>5. OneRowEach'
        BY <1>8, <2>1, IdShape DEF OneRowEach, IInv, SwitchOff
      <2>6. RowsKnown'
        BY <1>8, <2>1 DEF RowsKnown, IInv, SwitchOff
      <2>. QED  BY <1>0, <1>8, <2>3, <2>4, <2>5, <2>6 DEF IInv, SwitchOff, OpenKnows, WritesValid, Open, Parses
    <1>9. CASE UNCHANGED vars
      BY <1>0, <1>9 DEF vars, IInv, OpenKnows, SessionKnows, WritesValid, RowsKnown, RepairsUnderWay,
                        OneRowEach, Open, Touches, Bad
    <1>. QED  BY <1>1, <1>2, <1>3, <1>4, <1>5, <1>6, <1>7, <1>8, <1>9 DEF Next, Step

\* A signature has one row unless two loads that were under way together inserted
\* it both, for any number of loads that fail, deadlock or overlap, and any files.
THEOREM RowsAreUnique == Spec => []OneRowEach
    <1>1. Init => IInv
      BY IInvInit
    <1>2. IInv /\ [Next]_vars => IInv'
      BY IInvNext
    <1>3. IInv => OneRowEach
      BY DEF IInv
    <1>. QED  BY <1>1, <1>2, <1>3, PTL DEF Spec

LEMMA RepairsHold == ASSUME IInv PROVE RepairIsFinal
    <1>. SUFFICES ASSUME NEW p \in Loads, pc[p] = "done", NEW j \in DOMAIN file[p],
                         NEW i \in IdsOf(file[p][j].key), i \in Unusable
                  PROVE  FALSE
      BY DEF RepairIsFinal
    <1>1. i \in Ids /\ i = <<i[1], file[p][j].key>>
      BY DefinitionOfFile, IdShape DEF IInv
    <1>2. rows[i] # None /\ rows[i].content = Invalid
      BY DEF Unusable
    <1>3. i[1] = None
      BY <1>1, <1>2 DEF IInv, RowsKnown
    <1>. QED  BY <1>1, <1>2, <1>3 DEF IInv, RepairsUnderWay, Bad

\* What a successful load has repaired stays usable, whatever other loads write,
\* before or after, from whatever they have read.
THEOREM RepairsAreFinal == Spec => []RepairIsFinal
    <1>1. Init => IInv
      BY IInvInit
    <1>2. IInv /\ [Next]_vars => IInv'
      BY IInvNext
    <1>3. IInv => RepairIsFinal
      BY RepairsHold
    <1>. QED  BY <1>1, <1>2, <1>3, PTL DEF Spec

-----------------------------------------------------------------------------
(***************************************************************************)
(* Loads that never meet.                                                  *)
(***************************************************************************)
\* The row as it will be if p commits.
Effect(p, i) ==
    IF dirty[p] # None /\ dirty[p].id = i THEN dirty[p].row
    ELSE IF written[p][i] # None THEN written[p][i] ELSE rows[i]

Agrees ==
    \A k \in Keys :
        /\ released[k].content = None =>
              released[k].version = 0 /\ \A i \in IdsOf(k) : rows[i] = None
        /\ released[k].content # None =>
              \E i \in IdsOf(k) : /\ rows[i] # None
                                  /\ rows[i].content = released[k].content
                                  /\ rows[i].version = released[k].version

Tells(p, k) ==
    \E i \in IdsOf(k) : /\ Effect(p, i) # None
                        /\ Effect(p, i).content = Release(file[p])[k].content
                        /\ Effect(p, i).version = Release(file[p])[k].version

\* The one load under way has prepared what its file says, as far as it is.
UnderWay ==
    \A p \in Loads :
        /\ p \in Open => \A j \in DOMAIN file[p] : j < at[p] => Tells(p, file[p][j].key)
        /\ \A i \in Ids : Touches(p, i) =>
              /\ \E j \in DOMAIN file[p] : j < at[p] /\ file[p][j].key = i[2]
              /\ rows[i] # None => Effect(p, i).content # rows[i].content

Serial == met = {} => Agrees /\ UnderWay

LEMMA ReleaseTold ==
    ASSUME TypeOK, NEW p \in Loads, Parses(file[p]), NEW j \in DOMAIN file[p]
    PROVE  LET k == file[p][j].key
               c == file[p][j].content
           IN  Release(file[p])[k] = IF released[k].content = c THEN released[k]
                                     ELSE [content |-> c, version |-> released[k].version + 1]
    <1>. DEFINE k == file[p][j].key
                c == file[p][j].content
                told == {file[p][l].content : l \in {l \in DOMAIN file[p] : file[p][l].key = k}}
    <1>1. k \in Keys
      BY DefinitionOfFile
    <1>2. told = {c}
      <2>1. \A l \in DOMAIN file[p] : file[p][l].key = k => l = j
        BY DEF Parses
      <2>. QED  BY <2>1
    <1>3. Release(file[p])[k] = IF told \subseteq {released[k].content} THEN released[k]
                                ELSE [content |-> CHOOSE x \in told : TRUE,
                                      version |-> released[k].version + 1]
      BY <1>1 DEF Release
    <1>4. (CHOOSE x \in {c} : TRUE) = c
      OBVIOUS
    <1>5. told \subseteq {released[k].content} <=> released[k].content = c
      BY <1>2
    <1>. QED  BY <1>2, <1>3, <1>4, <1>5

LEMMA ReleaseUntold ==
    ASSUME NEW p \in Loads, NEW k \in Keys, \A j \in DOMAIN file[p] : file[p][j].key # k
    PROVE  Release(file[p])[k] = released[k]
    <1>1. {file[p][l].content : l \in {l \in DOMAIN file[p] : file[p][l].key = k}} = {}
      OBVIOUS
    <1>. QED  BY <1>1 DEF Release

LEMMA UniqueRow ==
    ASSUME IInv, met = {}, NEW k \in Keys, NEW i \in IdsOf(k), NEW j \in IdsOf(k),
           rows[i] # None, rows[j] # None
    PROVE  i = j
    BY DEF IInv, OneRowEach

LEMMA OneOpen ==
    ASSUME IInv, met = {}, NEW p \in Open, NEW q \in Open
    PROVE  p = q
    BY DEF IInv, OpenKnows

\* The definition that p is at: nothing of its key was touched yet.
LEMMA FreshDefinition ==
    ASSUME IInv, UnderWay, NEW p \in Loads, AtDefinition(p)
    PROVE  /\ p \in Open /\ Parses(file[p]) /\ at[p] \in DOMAIN file[p] /\ Key(p) \in Keys
           /\ \A i \in IdsOf(Key(p)) : ~Touches(p, i) /\ Effect(p, i) = rows[i]
           /\ \A j \in DOMAIN file[p] : j < at[p] => file[p][j].key # Key(p)
    <1>1. p \in Open /\ Parses(file[p]) /\ at[p] \in DOMAIN file[p] /\ Key(p) \in Keys
      BY DefinitionKnown DEF IInv, OpenKnows, Open, AtDefinition
    <1>2. \A j \in DOMAIN file[p] : file[p][j].key = Key(p) => j = at[p]
      BY <1>1 DEF Parses, Key
    <1>3. \A j \in DOMAIN file[p] : j < at[p] => file[p][j].key # Key(p)
      BY <1>1, <1>2, DefinitionOfFile DEF IInv, TypeOK
    <1>4. \A i \in IdsOf(Key(p)) : ~Touches(p, i)
      BY <1>1, <1>3, IdShape DEF UnderWay
    <1>5. \A i \in IdsOf(Key(p)) : Effect(p, i) = rows[i]
      BY <1>4 DEF Touches, Effect
    <1>. QED  BY <1>1, <1>3, <1>4, <1>5

LEMMA HoldKeepsUnderWay ==
    ASSUME IInv, met = {}, UnderWay, NEW p \in Loads, AtDefinition(p),
           NEW i \in IdsOf(Key(p)), NEW r \in Rows, Hold(p, i, r),
           r.content = Release(file[p])[Key(p)].content,
           r.version = Release(file[p])[Key(p)].version,
           rows[i] # None => r.content # rows[i].content
    PROVE  UnderWay'
    <1>0. TypeOK
      BY DEF IInv
    <1>1. /\ p \in Open /\ at[p] \in DOMAIN file[p] /\ Key(p) \in Keys
          /\ \A j \in DOMAIN file[p] : j < at[p] => file[p][j].key # Key(p)
          /\ i \in Ids /\ i[2] = Key(p)
      BY FreshDefinition, IdShape
    <1>2. /\ dirty[p] = None /\ dirty' = [dirty EXCEPT ![p] = [id |-> i, row |-> r]]
          /\ at' = [at EXCEPT ![p] = @ + 1]
          /\ UNCHANGED <<rows, released, file, written, met>>
          /\ Open' = Open
      BY <1>0 DEF Hold, AtDefinition, TypeOK, Open
    <1>3. [id |-> i, row |-> r] # None
      BY <1>1, SignaturesAssumption
    <1>4. \A q \in Loads, l \in Ids : Touches(q, l)' => Touches(q, l) \/ (q = p /\ l = i)
      BY <1>0, <1>2 DEF Touches, TypeOK
    <1>5. \A l \in Ids : l # i => Effect(p, l)' = Effect(p, l)
      BY <1>0, <1>2 DEF Effect, TypeOK
    <1>6. Effect(p, i)' = r
      BY <1>0, <1>2, <1>3 DEF Effect, TypeOK
    <1>7. Release(file[p])' = Release(file[p])
      BY <1>2 DEF Release
    <1>8. ASSUME NEW q \in Open, NEW j \in DOMAIN file[q], j < at'[q] PROVE Tells(q, file[q][j].key)'
      <2>1. q = p
        BY <1>1, OneOpen
      <2>2. CASE j = at[p]
        <3>1. file[q][j].key = Key(p) /\ file' = file
          BY <1>2, <2>1, <2>2 DEF Key
        <3>2. /\ Effect(p, i)' # None
              /\ Effect(p, i)'.content = Release(file[p])[Key(p)].content
              /\ Effect(p, i)'.version = Release(file[p])[Key(p)].version
          BY <1>6, SignaturesAssumption
        <3>. QED  BY <1>7, <2>1, <3>1, <3>2 DEF Tells
      <2>3. CASE j # at[p]
        <3>1. j < at[p]
          BY <1>0, <1>2, <1>8, <2>1, <2>3, DefinitionOfFile DEF TypeOK
        <3>2. Tells(p, file[p][j].key) /\ file[p][j].key # Key(p) /\ file[p][j].key \in Keys
          BY <1>0, <1>1, <2>1, <3>1, DefinitionOfFile DEF UnderWay
        <3>3. PICK l \in IdsOf(file[p][j].key) :
                /\ Effect(p, l) # None
                /\ Effect(p, l).content = Release(file[p])[file[p][j].key].content
                /\ Effect(p, l).version = Release(file[p])[file[p][j].key].version
          BY <3>2 DEF Tells
        <3>4. l # i /\ l \in Ids
          BY <1>1, <3>2, IdShape
        <3>. QED  BY <1>2, <1>5, <1>7, <2>1, <3>3, <3>4 DEF Tells
      <2>. QED  BY <2>2, <2>3
    <1>9. ASSUME NEW q \in Loads, NEW l \in Ids, Touches(q, l)'
          PROVE  /\ \E j \in DOMAIN file[q] : j < at'[q] /\ file[q][j].key = l[2]
                 /\ rows[l] # None => Effect(q, l)'.content # rows[l].content
      <2>1. CASE q = p /\ l = i
        <3>1. at[p] < at'[p]
          BY <1>0, <1>2 DEF TypeOK
        <3>. QED  BY <1>1, <1>6, <2>1, <3>1 DEF Key
      <2>2. CASE Touches(q, l) /\ ~(q = p /\ l = i)
        <3>1. q = p
          BY <1>1, <2>2, OneOpen DEF IInv, SessionKnows
        <3>2. PICK j \in DOMAIN file[q] : j < at[q] /\ file[q][j].key = l[2]
          BY <2>2 DEF UnderWay
        <3>3. j < at'[q]
          BY <1>0, <1>2, <3>1, <3>2, DefinitionOfFile DEF TypeOK
        <3>4. rows[l] # None => Effect(q, l).content # rows[l].content
          BY <2>2 DEF UnderWay
        <3>. QED  BY <1>5, <2>2, <3>1, <3>2, <3>3, <3>4
      <2>. QED  BY <1>4, <1>9, <2>1, <2>2
    <1>. QED  BY <1>2, <1>8, <1>9 DEF UnderWay

LEMMA SerialInit == ASSUME Init PROVE Serial
    <1>. PICK t \in Tables :
           /\ rows = [i \in Ids |-> IF i[1] = None /\ t[i[2]] # None THEN Row(t[i[2]], 1, TRUE)
                                    ELSE None]
           /\ released = [k \in Keys |-> [content |-> t[k], version |-> IF t[k] = None THEN 0 ELSE 1]]
      BY DEF Init
    <1>1. Agrees
      <2>. SUFFICES ASSUME NEW k \in Keys
                    PROVE  /\ released[k].content = None =>
                                 released[k].version = 0 /\ \A i \in IdsOf(k) : rows[i] = None
                           /\ released[k].content # None =>
                                 \E i \in IdsOf(k) : /\ rows[i] # None
                                                     /\ rows[i].content = released[k].content
                                                     /\ rows[i].version = released[k].version
        BY DEF Agrees
      <2>1. CASE t[k] = None
        BY <2>1, IdShape
      <2>2. CASE t[k] # None
        <3>1. <<None, k>> \in Ids /\ <<None, k>> \in IdsOf(k)
          BY IdShape
        <3>2. rows[<<None, k>>] = Row(t[k], 1, TRUE)
          BY <2>2, <3>1
        <3>3. t[k] \in Contents \cup {Invalid}
          BY <2>2, SignaturesAssumption
        <3>4. Row(t[k], 1, TRUE) # None
          <4>1. Row(t[k], 1, TRUE) \in Rows
            BY <3>3 DEF Row, Rows
          <4>. QED  BY <4>1, SignaturesAssumption
        <3>. QED  BY <2>2, <3>1, <3>2, <3>4 DEF Row
      <2>. QED  BY <2>1, <2>2
    <1>2. Open = {} /\ \A p \in Loads, i \in Ids : ~Touches(p, i)
      BY DEF Init, Open, Touches, NoRows
    <1>. QED  BY <1>1, <1>2 DEF Serial, UnderWay

\* The row that is there is the one that was released.
LEMMA RowIsReleased ==
    ASSUME IInv, met = {}, Agrees, NEW k \in Keys, NEW i \in IdsOf(k), rows[i] # None
    PROVE  rows[i].content = released[k].content /\ rows[i].version = released[k].version
    <1>1. released[k].content # None
      BY DEF Agrees
    <1>2. PICK j \in IdsOf(k) : /\ rows[j] # None
                                /\ rows[j].content = released[k].content
                                /\ rows[j].version = released[k].version
      BY <1>1 DEF Agrees
    <1>3. i = j
      BY <1>2, UniqueRow
    <1>. QED  BY <1>2, <1>3

LEMMA ReleaseSame ==
    ASSUME NEW q \in Loads, UNCHANGED <<file, released>>
    PROVE  Release(file[q])' = Release(file[q])
    BY DEF Release

LEMMA StartSerial ==
    ASSUME IInv, met' = {}, met = {}, Agrees, UnderWay, NEW p \in Loads, Start(p)
    PROVE  Agrees' /\ UnderWay'
    <1>0. TypeOK
      BY DEF IInv
    <1>. PICK f \in Files :
           /\ file' = [file EXCEPT ![p] = IF Parses(f) THEN f ELSE <<>>]
           /\ pc' = [pc EXCEPT ![p] = IF Parses(f) THEN "select" ELSE "failed"]
           /\ met' = IF Parses(f) THEN met \cup {{p, q} : q \in Open} ELSE met
      BY DEF Start
    <1>1. Agrees'
      BY DEF Start, Agrees
    <1>2. /\ at[p] = 1 /\ p \notin Open
          /\ Open' = IF Parses(f) THEN Open \cup {p} ELSE Open
      BY <1>0 DEF Start, Open, TypeOK, IInv, OpenKnows
    <1>3. Parses(f) => Open = {}
      <2>1. ASSUME Parses(f), NEW q \in Open PROVE FALSE
        BY <2>1
      <2>. QED  BY <2>1
    <1>4. f \in Seq(Definitions)
      BY SignaturesAssumption
    <1>5. \A q \in Loads, i \in Ids : Touches(q, i)' => Touches(q, i) /\ q \in Open /\ q # p /\ ~Parses(f)
      BY <1>2, <1>3 DEF Start, Touches, IInv, SessionKnows
    <1>6. ASSUME NEW q \in Loads, q \in Open', NEW j \in DOMAIN file'[q], j < at'[q]
          PROVE  Tells(q, file[q][j].key)'
      <2>1. CASE q = p
        <3>1. file'[p] = f /\ at'[p] = 1
          BY <1>0, <1>2, <1>6, <2>1 DEF TypeOK, Start
        <3>. QED  BY <1>4, <1>6, <2>1, <3>1
      <2>2. CASE q # p
        <3>1. q \in Open /\ file'[q] = file[q] /\ at'[q] = at[q]
          BY <1>0, <1>2, <1>6, <2>2 DEF TypeOK, Start
        <3>2. Tells(q, file[q][j].key) /\ file'[q][j].key = file[q][j].key
          BY <1>6, <3>1 DEF UnderWay
        <3>3. Release(file[q])' = Release(file[q])
          <4>1. file' = file
            BY <1>0, <1>2, <1>3, <3>1 DEF TypeOK, IInv, OpenKnows, Start
          <4>2. released' = released
            BY DEF Start
          <4>. QED  BY <4>1, <4>2, ReleaseSame
        <3>4. \A l \in Ids : Effect(q, l)' = Effect(q, l)
          BY DEF Effect, Start
        <3>5. file[q][j].key \in Keys
          BY <1>0, <1>6, <3>1, DefinitionOfFile
        <3>. QED  BY <3>1, <3>2, <3>3, <3>4, <3>5, IdShape DEF Tells
      <2>. QED  BY <2>1, <2>2
    <1>7. ASSUME NEW q \in Loads, NEW i \in Ids, Touches(q, i)'
          PROVE  /\ \E j \in DOMAIN file'[q] : j < at'[q] /\ file'[q][j].key = i[2]
                 /\ rows'[i] # None => Effect(q, i)'.content # rows'[i].content
      <2>1. Touches(q, i) /\ file'[q] = file[q] /\ at'[q] = at[q]
        BY <1>0, <1>5, <1>7 DEF TypeOK, Start
      <2>2. Effect(q, i)' = Effect(q, i) /\ rows' = rows
        BY DEF Start, Effect
      <2>. QED  BY <2>1, <2>2 DEF UnderWay
    <1>. QED  BY <1>1, <1>6, <1>7 DEF UnderWay

LEMMA AddSerial ==
    ASSUME IInv, met = {}, Agrees, UnderWay, NEW p \in Loads, AddRow(p)
    PROVE  Agrees' /\ UnderWay'
    <1>0. TypeOK
      BY DEF IInv
    <1>. DEFINE k == Key(p)
                i == <<p, k>>
                r == Row(Content(p), 1, TRUE)
    <1>1. AtDefinition(p) /\ Found(p) = {} /\ Hold(p, i, r)
      BY DEF AddRow
    <1>2. /\ k \in Keys /\ at[p] \in DOMAIN file[p] /\ i \in IdsOf(k)
          /\ Content(p) \in Contents /\ Parses(file[p])
      <2>1. Parses(file[p]) /\ Content(p) # Invalid
        BY <1>0, <1>1, DefinitionKnown DEF IInv, OpenKnows, Parses, Content, AtDefinition, Open
      <2>. QED  BY <1>0, <1>1, <2>1, DefinitionKnown, IdShape
    <1>3. r \in Rows /\ r.content = Content(p) /\ r.version = 1
      BY <1>2 DEF Row, Rows
    <1>4. \A l \in IdsOf(k) : rows[l] = None
      BY <1>1 DEF Found
    <1>5. released[k].content = None /\ released[k].version = 0
      BY <1>2, <1>4 DEF Agrees
    <1>6. Content(p) # None
      BY <1>2, SignaturesAssumption
    <1>7. Release(file[p])[k] = [content |-> Content(p), version |-> 1]
      BY <1>0, <1>2, <1>5, <1>6, ReleaseTold DEF Key, Content
    <1>8. /\ r.content = Release(file[p])[k].content /\ r.version = Release(file[p])[k].version
          /\ rows[i] = None
      <2>1. rows[i] = None
        BY <1>2, <1>4, Zenon
      <2>2. Release(file[p])[k].content = Content(p) /\ Release(file[p])[k].version = 1
        BY <1>7
      <2>. QED  BY <1>3, <2>1, <2>2
    <1>9. UnderWay'
      BY <1>1, <1>2, <1>3, <1>8, HoldKeepsUnderWay
    <1>. QED  BY <1>1, <1>9 DEF Agrees, Hold

LEMMA ChangeSerial ==
    ASSUME IInv, met = {}, Agrees, UnderWay, NEW p \in Loads, ChangeRow(p)
    PROVE  Agrees' /\ UnderWay'
    <1>0. TypeOK
      BY DEF IInv
    <1>. PICK i \in Found(p) :
           /\ rows[i].content # Content(p)
           /\ Hold(p, i, Row(Content(p), rows[i].version + 1, ~rows[i].active))
      BY DEF ChangeRow
    <1>. DEFINE k == Key(p)
                r == Row(Content(p), rows[i].version + 1, ~rows[i].active)
    <1>1. AtDefinition(p)
      BY DEF ChangeRow
    <1>2. /\ k \in Keys /\ at[p] \in DOMAIN file[p] /\ i \in IdsOf(k)
          /\ Content(p) \in Contents /\ Parses(file[p])
      <2>1. Parses(file[p]) /\ Content(p) # Invalid
        BY <1>0, <1>1, DefinitionKnown DEF IInv, OpenKnows, Parses, Content, AtDefinition, Open
      <2>. QED  BY <1>0, <1>1, <2>1, DefinitionKnown
    <1>3. rows[i] \in Rows /\ rows[i] # None
      BY <1>0, <1>1, DefinitionKnown DEF Found
    <1>4. r \in Rows /\ r.content = Content(p) /\ r.version = rows[i].version + 1
      <2>1. rows[i].version + 1 \in Nat \ {0}
        BY <1>3 DEF Rows
      <2>. QED  BY <1>2, <2>1 DEF Row, Rows
    <1>5. rows[i].content = released[k].content /\ rows[i].version = released[k].version
      BY <1>2, <1>3, RowIsReleased
    <1>6. Release(file[p])[k] = [content |-> Content(p), version |-> rows[i].version + 1]
      <2>1. released[k].content # Content(p)
        BY <1>5
      <2>2. released[k].version + 1 = rows[i].version + 1
        BY <1>5
      <2>3. Release(file[p])[k] = [content |-> Content(p), version |-> released[k].version + 1]
        BY <1>0, <1>2, <2>1, ReleaseTold DEF Key, Content
      <2>. QED  BY <2>2, <2>3
    <1>7. UnderWay'
      BY <1>1, <1>2, <1>4, <1>6, HoldKeepsUnderWay
    <1>. QED  BY <1>7 DEF Agrees, Hold

LEMMA KeepSerial ==
    ASSUME IInv, met = {}, Agrees, UnderWay, NEW p \in Loads, KeepRow(p)
    PROVE  Agrees' /\ UnderWay'
    <1>0. TypeOK
      BY DEF IInv
    <1>. PICK i \in Found(p) : rows[i].content = Content(p)
      BY DEF KeepRow
    <1>. DEFINE k == Key(p)
    <1>1. AtDefinition(p)
      BY DEF KeepRow
    <1>2. /\ p \in Open /\ Parses(file[p]) /\ at[p] \in DOMAIN file[p] /\ k \in Keys
          /\ \A l \in IdsOf(k) : Effect(p, l) = rows[l]
      BY <1>1, FreshDefinition
    <1>3. i \in IdsOf(k) /\ rows[i] # None
      BY <1>0, <1>1, DefinitionKnown DEF Found
    <1>4. Release(file[p])[k] = released[k]
      <2>1. released[k].content = Content(p)
        BY <1>2, <1>3, RowIsReleased
      <2>. QED  BY <1>0, <1>2, <2>1, ReleaseTold DEF Key, Content
    <1>5. Tells(p, k)
      <2>1. rows[i].content = released[k].content /\ rows[i].version = released[k].version
        BY <1>2, <1>3, RowIsReleased
      <2>. QED  BY <1>2, <1>3, <1>4, <2>1 DEF Tells
    <1>6. /\ UNCHANGED <<rows, released, file, dirty, written, pc>> /\ Open' = Open
          /\ at' = [at EXCEPT ![p] = @ + 1]
      BY DEF KeepRow, Open
    <1>7. \A q \in Loads, l \in Ids : (Touches(q, l)' <=> Touches(q, l)) /\ Effect(q, l)' = Effect(q, l)
      BY <1>6 DEF Touches, Effect
    <1>8. ASSUME NEW q \in Open, NEW j \in DOMAIN file[q], j < at'[q] PROVE Tells(q, file[q][j].key)
      <2>1. q = p
        BY <1>2, OneOpen
      <2>2. CASE j = at[p]
        BY <1>5, <2>1, <2>2 DEF Key
      <2>3. CASE j # at[p]
        <3>1. j < at[p]
          BY <1>0, <1>6, <1>8, <2>1, <2>3, DefinitionOfFile DEF TypeOK, Open
        <3>. QED  BY <1>2, <2>1, <3>1 DEF UnderWay
      <2>. QED  BY <2>2, <2>3
    <1>9. ASSUME NEW q \in Open, NEW j \in DOMAIN file[q], j < at'[q] PROVE Tells(q, file[q][j].key)'
      <2>1. Tells(q, file[q][j].key) /\ file' = file
        BY <1>6, <1>8, <1>9
      <2>2. Release(file[q])' = Release(file[q])
        BY <1>6 DEF Release
      <2>3. file[q][j].key \in Keys
        BY <1>0, <1>9, DefinitionOfFile DEF Open
      <2>. QED  BY <1>7, <2>1, <2>2, <2>3, IdShape DEF Tells, Open
    <1>10. ASSUME NEW q \in Loads, NEW l \in Ids, Touches(q, l)
           PROVE  /\ \E j \in DOMAIN file[q] : j < at'[q] /\ file[q][j].key = l[2]
                  /\ rows[l] # None => Effect(q, l).content # rows[l].content
      <2>1. PICK j \in DOMAIN file[q] : j < at[q] /\ file[q][j].key = l[2]
        BY <1>10 DEF UnderWay
      <2>2. j < at'[q]
        BY <1>0, <1>6, <2>1, DefinitionOfFile DEF TypeOK
      <2>. QED  BY <1>10, <2>1, <2>2 DEF UnderWay
    <1>. QED  BY <1>6, <1>7, <1>9, <1>10 DEF UnderWay, Agrees

LEMMA FlushSerial ==
    ASSUME IInv, met = {}, Agrees, UnderWay, NEW p \in Loads, Flush(p)
    PROVE  Agrees' /\ UnderWay'
    <1>0. TypeOK
      BY DEF IInv
    <1>. PICK i \in Ids : i = dirty[p].id
      BY <1>0 DEF Flush, TypeOK
    <1>1. /\ pc[p] = "flush" /\ dirty[p] # None /\ dirty[p].row \in Rows
          /\ p \in Open /\ Open' = Open
          /\ UNCHANGED <<rows, released, file, at, met>>
      BY <1>0 DEF Flush, TypeOK, Open
    <1>2. PICK x \in BOOLEAN : /\ written' = [written EXCEPT ![p][i] = [dirty[p].row EXCEPT !.active = x]]
                               /\ dirty' = [dirty EXCEPT ![p] = None]
      BY DEF Flush
    <1>3. /\ [dirty[p].row EXCEPT !.active = x] # None
          /\ [dirty[p].row EXCEPT !.active = x].content = dirty[p].row.content
          /\ [dirty[p].row EXCEPT !.active = x].version = dirty[p].row.version
          /\ dirty[p].row # None
      <2>1. [dirty[p].row EXCEPT !.active = x] \in Rows
        BY <1>1 DEF Rows
      <2>2. /\ [dirty[p].row EXCEPT !.active = x].content = dirty[p].row.content
            /\ [dirty[p].row EXCEPT !.active = x].version = dirty[p].row.version
        BY <1>1 DEF Rows
      <2>. QED  BY <1>1, <2>1, <2>2, SignaturesAssumption
    <1>4. \A q \in Loads, l \in Ids : Touches(q, l)' <=> Touches(q, l)
      BY <1>0, <1>1, <1>2, <1>3 DEF Touches, TypeOK
    <1>5. Effect(p, i)' = [dirty[p].row EXCEPT !.active = x] /\ Effect(p, i) = dirty[p].row
      BY <1>0, <1>1, <1>2, <1>3 DEF Effect, TypeOK
    <1>6. \A q \in Loads, l \in Ids : ~(q = p /\ l = i) => Effect(q, l)' = Effect(q, l)
      BY <1>0, <1>1, <1>2 DEF Effect, TypeOK
    <1>7. \A q \in Loads, l \in Ids : /\ Effect(q, l)' # None <=> Effect(q, l) # None
                                      /\ Effect(q, l)'.content = Effect(q, l).content
                                      /\ Effect(q, l)'.version = Effect(q, l).version
      BY <1>3, <1>5, <1>6
    <1>8. ASSUME NEW q \in Open, NEW j \in DOMAIN file[q], j < at[q] PROVE Tells(q, file[q][j].key)'
      <2>1. Tells(q, file[q][j].key) /\ file' = file
        BY <1>1, <1>8 DEF UnderWay, Open
      <2>2. Release(file[q])' = Release(file[q])
        BY <1>1, ReleaseSame DEF Open
      <2>3. file[q][j].key \in Keys
        BY <1>0, <1>8, DefinitionOfFile DEF Open
      <2>. QED  BY <1>7, <2>1, <2>2, <2>3, IdShape DEF Tells, Open
    <1>9. ASSUME NEW q \in Loads, NEW l \in Ids, Touches(q, l)
          PROVE  /\ \E j \in DOMAIN file[q] : j < at[q] /\ file[q][j].key = l[2]
                 /\ rows[l] # None => Effect(q, l)'.content # rows[l].content
      BY <1>7, <1>9 DEF UnderWay
    <1>. QED  BY <1>1, <1>4, <1>8, <1>9 DEF UnderWay, Agrees

LEMMA CommitSerial ==
    ASSUME IInv, met = {}, Agrees, UnderWay, NEW p \in Loads, Commit(p)
    PROVE  Agrees' /\ UnderWay'
    <1>0. TypeOK
      BY DEF IInv
    <1>1. /\ p \in Open /\ Open' = Open \ {p} /\ dirty[p] = None /\ Parses(file[p])
          /\ UNCHANGED <<file, dirty, met>> /\ at[p] > Len(file[p])
      BY <1>0 DEF Commit, TypeOK, Open, IInv, OpenKnows
    <1>2. \A l \in Ids : rows'[l] = Effect(p, l)
      BY <1>1 DEF Commit, Effect
    <1>3. released' = Release(file[p])
      BY DEF Commit
    <1>4. Agrees'
      <2>. SUFFICES ASSUME NEW k \in Keys
                    PROVE  /\ released'[k].content = None =>
                                 released'[k].version = 0 /\ \A l \in IdsOf(k) : rows'[l] = None
                           /\ released'[k].content # None =>
                                 \E l \in IdsOf(k) : /\ rows'[l] # None
                                                     /\ rows'[l].content = released'[k].content
                                                     /\ rows'[l].version = released'[k].version
        BY DEF Agrees
      <2>1. CASE \E j \in DOMAIN file[p] : file[p][j].key = k
        <3>. PICK j \in DOMAIN file[p] : file[p][j].key = k
          BY <2>1
        <3>1. j < at[p]
          BY <1>0, <1>1, DefinitionOfFile DEF TypeOK
        <3>2. Tells(p, k)
          BY <1>1, <3>1 DEF UnderWay
        <3>3. released'[k].content # None
          <4>1. Release(file[p])[k] = IF released[k].content = file[p][j].content THEN released[k]
                                      ELSE [content |-> file[p][j].content,
                                            version |-> released[k].version + 1]
            BY <1>0, <1>1, ReleaseTold
          <4>2. file[p][j].content # None
            <5>1. file[p] \in Seq(Definitions)
              <6>1. <<>> \in Seq(Definitions)
                OBVIOUS
              <6>. QED  BY <1>0, <6>1, SignaturesAssumption DEF TypeOK
            <5>2. file[p][j] \in Definitions
              BY <5>1
            <5>. QED  BY <5>2, SignaturesAssumption DEF Definitions
          <4>. QED  BY <1>3, <4>1, <4>2
        <3>. QED  BY <1>2, <1>3, <3>2, <3>3, IdShape DEF Tells
      <2>2. CASE \A j \in DOMAIN file[p] : file[p][j].key # k
        <3>1. released'[k] = released[k]
          BY <1>3, <2>2, ReleaseUntold
        <3>2. \A l \in IdsOf(k) : rows'[l] = rows[l]
          <4>1. \A l \in IdsOf(k) : l \in Ids /\ ~Touches(p, l)
            BY <2>2, IdShape DEF UnderWay
          <4>. QED  BY <1>2, <4>1 DEF Effect, Touches
        <3>. QED  BY <3>1, <3>2 DEF Agrees
      <2>. QED  BY <2>1, <2>2
    <1>5. Open' = {}
      BY <1>1, OneOpen
    <1>6. \A q \in Loads, l \in Ids : ~Touches(q, l)'
      <2>1. \A q \in Loads, l \in Ids : Touches(q, l) => q = p
        BY <1>1, OneOpen DEF IInv, SessionKnows
      <2>2. \A l \in Ids : ~Touches(p, l)'
        BY <1>0, <1>1 DEF Touches, Commit, NoRows, TypeOK
      <2>3. \A q \in Loads, l \in Ids : q # p => (Touches(q, l)' <=> Touches(q, l))
        BY <1>0, <1>1 DEF Touches, Commit, TypeOK
      <2>. QED  BY <2>1, <2>2, <2>3
    <1>. QED  BY <1>4, <1>5, <1>6 DEF UnderWay

LEMMA FailSerial ==
    ASSUME IInv, met = {}, Agrees, UnderWay, NEW p \in Loads, Fail(p)
    PROVE  Agrees' /\ UnderWay'
    <1>0. TypeOK
      BY DEF IInv
    <1>1. p \in Open /\ Open' = Open \ {p}
      BY <1>0 DEF Fail, TypeOK, Open
    <1>2. Open' = {}
      BY <1>1, OneOpen
    <1>3. \A q \in Loads, l \in Ids : ~Touches(q, l)'
      <2>1. \A q \in Loads, l \in Ids : Touches(q, l) => q = p
        BY <1>1, OneOpen DEF IInv, SessionKnows
      <2>2. \A l \in Ids : ~Touches(p, l)'
        BY <1>0 DEF Touches, Fail, NoRows, TypeOK
      <2>3. \A q \in Loads, l \in Ids : q # p => (Touches(q, l)' <=> Touches(q, l))
        BY <1>0 DEF Touches, Fail, TypeOK
      <2>. QED  BY <2>1, <2>2, <2>3
    <1>. QED  BY <1>2, <1>3 DEF UnderWay, Agrees, Fail

LEMMA SwitchOffSerial ==
    ASSUME IInv, met = {}, Agrees, UnderWay, NEW i \in Ids, SwitchOff(i)
    PROVE  Agrees' /\ UnderWay'
    <1>0. TypeOK
      BY DEF IInv
    <1>1. \A l \in Ids : /\ rows'[l] # None <=> rows[l] # None
                         /\ rows[l] # None => /\ rows'[l].content = rows[l].content
                                              /\ rows'[l].version = rows[l].version
                         /\ l # i => rows'[l] = rows[l]
      <2>1. rows[i] \in Rows /\ rows' = [rows EXCEPT ![i] = [rows[i] EXCEPT !.active = FALSE]]
        BY <1>0 DEF SwitchOff, TypeOK
      <2>2. /\ [rows[i] EXCEPT !.active = FALSE] \in Rows
            /\ [rows[i] EXCEPT !.active = FALSE].content = rows[i].content
            /\ [rows[i] EXCEPT !.active = FALSE].version = rows[i].version
        BY <2>1 DEF Rows
      <2>3. rows[i] # None /\ [rows[i] EXCEPT !.active = FALSE] # None
        BY <2>1, <2>2, SignaturesAssumption
      <2>. QED  BY <1>0, <2>1, <2>2, <2>3 DEF TypeOK
    <1>2. UNCHANGED <<released, pc, file, at, dirty, written, met>>
      BY DEF SwitchOff
    <1>3. \A q \in Loads, l \in Ids : /\ Effect(q, l)' # None <=> Effect(q, l) # None
                                      /\ Effect(q, l) # None =>
                                            /\ Effect(q, l)'.content = Effect(q, l).content
                                            /\ Effect(q, l)'.version = Effect(q, l).version
      BY <1>1, <1>2 DEF Effect
    <1>4. \A q \in Loads, l \in Ids : Touches(q, l) => Effect(q, l)' = Effect(q, l)
      BY <1>2 DEF Effect, Touches
    <1>5. Agrees'
      BY <1>1, <1>2, IdShape DEF Agrees
    <1>6. ASSUME NEW q \in Open, NEW j \in DOMAIN file[q], j < at[q] PROVE Tells(q, file[q][j].key)'
      <2>1. Tells(q, file[q][j].key) /\ file' = file
        BY <1>2, <1>6 DEF UnderWay, Open
      <2>2. Release(file[q])' = Release(file[q])
        BY <1>2, ReleaseSame DEF Open
      <2>3. file[q][j].key \in Keys
        BY <1>0, <1>6, DefinitionOfFile DEF Open
      <2>. QED  BY <1>3, <2>1, <2>2, <2>3, IdShape DEF Tells, Open
    <1>7. ASSUME NEW q \in Loads, NEW l \in Ids, Touches(q, l)
          PROVE  /\ \E j \in DOMAIN file[q] : j < at[q] /\ file[q][j].key = l[2]
                 /\ rows'[l] # None => Effect(q, l)'.content # rows'[l].content
      BY <1>1, <1>4, <1>7 DEF UnderWay
    <1>8. Open' = Open /\ \A q \in Loads, l \in Ids : Touches(q, l)' <=> Touches(q, l)
      BY <1>2 DEF Open, Touches
    <1>. QED  BY <1>2, <1>5, <1>6, <1>7, <1>8 DEF UnderWay

LEMMA SerialNext == ASSUME IInv, Serial, [Next]_vars PROVE Serial'
    <1>0. TypeOK
      BY DEF IInv
    <1>1. met \subseteq met'
      BY DEF Next, Step, Start, AddRow, ChangeRow, KeepRow, Hold, Flush, Commit, Fail, SwitchOff, vars
    <1>. SUFFICES ASSUME met' = {} PROVE Agrees' /\ UnderWay'
      BY DEF Serial
    <1>2. met = {} /\ Agrees /\ UnderWay
      BY <1>1 DEF Serial
    <1>3. ASSUME NEW p \in Loads, Start(p) PROVE Agrees' /\ UnderWay'
      BY <1>2, <1>3, StartSerial
    <1>4. ASSUME NEW p \in Loads, AddRow(p) PROVE Agrees' /\ UnderWay'
      BY <1>2, <1>4, AddSerial
    <1>5. ASSUME NEW p \in Loads, ChangeRow(p) PROVE Agrees' /\ UnderWay'
      BY <1>2, <1>5, ChangeSerial
    <1>6. ASSUME NEW p \in Loads, KeepRow(p) PROVE Agrees' /\ UnderWay'
      BY <1>2, <1>6, KeepSerial
    <1>7. ASSUME NEW p \in Loads, Flush(p) PROVE Agrees' /\ UnderWay'
      BY <1>2, <1>7, FlushSerial
    <1>8. ASSUME NEW p \in Loads, Commit(p) PROVE Agrees' /\ UnderWay'
      BY <1>2, <1>8, CommitSerial
    <1>9. ASSUME NEW p \in Loads, Fail(p) PROVE Agrees' /\ UnderWay'
      BY <1>2, <1>9, FailSerial
    <1>10. ASSUME NEW i \in Ids, SwitchOff(i) PROVE Agrees' /\ UnderWay'
      BY <1>2, <1>10, SwitchOffSerial
    <1>11. CASE UNCHANGED vars
      <2>1. Agrees' /\ UNCHANGED <<rows, released, pc, file, at, dirty, written>>
        BY <1>2, <1>11 DEF vars, Agrees
      <2>2. ASSUME NEW q \in Open', NEW j \in DOMAIN file'[q], j < at'[q]
            PROVE  Tells(q, file[q][j].key)'
        <3>1. Release(file[q])' = Release(file[q])
          BY <2>1, ReleaseSame DEF Open
        <3>2. Tells(q, file[q][j].key) /\ file' = file
          BY <1>2, <2>1, <2>2 DEF UnderWay, Open
        <3>. QED  BY <2>1, <3>1, <3>2 DEF Tells, Effect
      <2>3. ASSUME NEW q \in Loads, NEW l \in Ids, Touches(q, l)'
            PROVE  /\ \E j \in DOMAIN file'[q] : j < at'[q] /\ file'[q][j].key = l[2]
                   /\ rows'[l] # None => Effect(q, l)'.content # rows'[l].content
        <3>1. Touches(q, l) /\ Effect(q, l)' = Effect(q, l)
          BY <2>1, <2>3 DEF Touches, Effect
        <3>. QED  BY <1>2, <2>1, <3>1 DEF UnderWay
      <2>. QED  BY <2>1, <2>2, <2>3 DEF UnderWay
    <1>. QED  BY <1>3, <1>4, <1>5, <1>6, <1>7, <1>8, <1>9, <1>10, <1>11 DEF Next, Step

\* Loads one after the other are releases: the contents that were told last, and
\* versions that count the changes, whatever fails or is switched off in between.
THEOREM SerialLoadsAreReleases == Spec => []LoadsAreReleases
    <1>1. Init => IInv /\ Serial
      BY IInvInit, SerialInit
    <1>2. IInv /\ Serial /\ [Next]_vars => (IInv /\ Serial)'
      BY IInvNext, SerialNext
    <1>3. IInv /\ Serial => LoadsAreReleases
      BY DEF Serial, Agrees, LoadsAreReleases
    <1>. QED  BY <1>1, <1>2, <1>3, PTL DEF Spec

SwitchedOffStep ==
    \A i \in Ids :
        rows[i] # None /\ ~rows[i].active /\ rows'[i].active =>
            rows'[i].content # rows[i].content \/ met # {}

LEMMA OnlyChangesSwitchOn == ASSUME IInv, Serial, [Next]_vars PROVE SwitchedOffStep
    <1>0. TypeOK
      BY DEF IInv
    <1>. SUFFICES ASSUME NEW i \in Ids, rows[i] # None, ~rows[i].active, rows'[i].active, met = {}
                  PROVE  rows'[i].content # rows[i].content
      BY DEF SwitchedOffStep
    <1>1. ASSUME NEW p \in Loads, Commit(p) PROVE rows'[i].content # rows[i].content
      <2>1. rows'[i] = IF written[p][i] # None THEN written[p][i] ELSE rows[i]
        BY <1>1 DEF Commit
      <2>2. written[p][i] # None
        BY <2>1
      <2>3. dirty[p] = None
        BY <1>0, <1>1 DEF Commit, TypeOK
      <2>. QED  BY <2>1, <2>2, <2>3 DEF Serial, UnderWay, Touches, Effect
    <1>2. ASSUME NEW l \in Ids, SwitchOff(l) PROVE FALSE
      <2>1. rows[l] \in Rows /\ rows' = [rows EXCEPT ![l] = [rows[l] EXCEPT !.active = FALSE]]
        BY <1>0, <1>2 DEF SwitchOff, TypeOK
      <2>2. [rows[l] EXCEPT !.active = FALSE].active = FALSE
        BY <2>1 DEF Rows
      <2>. QED  BY <1>0, <2>1, <2>2 DEF TypeOK
    <1>3. CASE rows' = rows
      BY <1>3
    <1>. QED  BY <1>1, <1>2, <1>3
              DEF Next, Step, Start, AddRow, ChangeRow, KeepRow, Hold, Flush, Fail, vars

\* What an operator switched off is switched on by a changed definition alone,
\* as long as no two loads were ever under way together.
THEOREM SwitchedOffIsKept == Spec => SwitchedOffStays
    <1>1. Init => IInv /\ Serial
      BY IInvInit, SerialInit
    <1>2. IInv /\ Serial /\ [Next]_vars => (IInv /\ Serial)'
      BY IInvNext, SerialNext
    <1>3. IInv /\ Serial /\ [Next]_vars => SwitchedOffStep
      BY OnlyChangesSwitchOn
    <1>4. Spec => [][SwitchedOffStep]_vars
      BY <1>1, <1>2, <1>3, PTL DEF Spec
    <1>. QED  BY <1>4 DEF SwitchedOffStep, SwitchedOffStays

-----------------------------------------------------------------------------
(***************************************************************************)
(* Loads end: they are short, and never all wait.                          *)
(***************************************************************************)
\* What lets a load take its next step: the guards of Step.
CanGo(p) ==
    \/ AtDefinition(p) /\ Found(p) = {}
    \/ AtDefinition(p) /\ \E i \in Found(p) : Found(p) = {i}
    \/ TwoRows(p)
    \/ pc[p] = "select" /\ at[p] > Len(file[p])
    \/ pc[p] = "flush" /\ ~Locked(dirty[p].id, p)
    \/ Deadlocked(p)

\* A load that cannot go on waits for a row that another open load wrote.
LEMMA StuckWaits ==
    ASSUME IsFiniteSet(Loads), IInv, NEW p \in Open, ~CanGo(p)
    PROVE  \E q \in Open : Waits(p, q)
    <1>0. TypeOK /\ p \in Loads
      BY DEF IInv, Open
    <1>1. pc[p] = "flush"
      <2>. SUFFICES ASSUME pc[p] = "select" PROVE FALSE
        BY DEF Open
      <2>1. file[p] \in Seq(Definitions)
        <3>1. <<>> \in Seq(Definitions)
          OBVIOUS
        <3>. QED  BY <1>0, <3>1, SignaturesAssumption DEF TypeOK
      <2>2. Len(file[p]) \in Nat /\ at[p] \in Nat
        BY <1>0, <2>1 DEF TypeOK
      <2>3. AtDefinition(p)
        BY <2>2 DEF CanGo, AtDefinition
      <2>4. PICK i \in Found(p) : Found(p) # {i}
        BY <2>3 DEF CanGo
      <2>5. PICK j \in Found(p) : j # i
        BY <2>4
      <2>6. IsFiniteSet(Found(p))
        <3>1. IsFiniteSet(Loads \cup {None}) /\ IsFiniteSet({Key(p)})
          BY FS_AddElement, FS_Singleton
        <3>2. IsFiniteSet((Loads \cup {None}) \X {Key(p)})
          BY <3>1, FS_Product
        <3>3. Found(p) \subseteq (Loads \cup {None}) \X {Key(p)}
          <4>1. \A l \in Found(p) : l \in Ids /\ l[2] = Key(p)
            BY DEF Found, IdsOf
          <4>. QED  BY <4>1, IdShape
        <3>. QED  BY <3>2, <3>3, FS_Subset
      <2>7. Cardinality({i, j}) = 2
        <3>1. {i, j} = {i} \cup {j} /\ j \notin {i}
          BY <2>5
        <3>2. IsFiniteSet({i}) /\ Cardinality({i}) = 1
          BY FS_Singleton
        <3>3. Cardinality({i} \cup {j}) = Cardinality({i}) + 1
          BY <3>1, <3>2, FS_AddElement
        <3>. QED  BY <3>1, <3>2, <3>3
      <2>8. Cardinality({i, j}) <= Cardinality(Found(p))
        BY <2>6, FS_Subset
      <2>9. Cardinality(Found(p)) > 1
        BY <2>6, <2>7, <2>8, FS_CardinalityType
      <2>. QED  BY <2>3, <2>9 DEF CanGo, TwoRows
    <1>2. Locked(dirty[p].id, p)
      BY <1>1 DEF CanGo
    <1>3. PICK q \in Loads \ {p} : written[q][dirty[p].id] # None
      BY <1>2 DEF Locked
    <1>4. dirty[p].id \in Ids
      BY <1>0, <1>1 DEF TypeOK
    <1>5. q \in Open
      BY <1>3, <1>4 DEF IInv, SessionKnows, Touches
    <1>. QED  BY <1>1, <1>3, <1>5 DEF Waits

\* As long as loads are under way, one of them can go on: it has a definition to look
\* at, or its transaction to end, or a row to write that no other holds; or PostgreSQL
\* finds the deadlock it is in, or the driver the second row (sync_to_db).  For any
\* files, and any number of loads that write the same rows in any order.
THEOREM SomeLoadGoesOn ==
    ASSUME IsFiniteSet(Loads)
    PROVE  Spec => [](Open # {} => \E p \in Open : CanGo(p))
    <1>1. ASSUME IInv PROVE Open # {} => \E p \in Open : CanGo(p)
      <2>. SUFFICES ASSUME NEW p \in Open, \A q \in Open : ~CanGo(q) PROVE FALSE
        OBVIOUS
      <2>1. \A q \in Open : \E r \in Open : Waits(q, r)
        BY <1>1, StuckWaits
      <2>2. Open \in SUBSET Loads
        BY DEF Open
      <2>3. Deadlocked(p)
        BY <2>1, <2>2 DEF Deadlocked
      <2>. QED  BY <2>3 DEF CanGo
    <1>2. Init => IInv
      BY IInvInit
    <1>3. IInv /\ [Next]_vars => IInv'
      BY IInvNext
    <1>. QED  BY <1>1, <1>2, <1>3, PTL DEF Spec

\* The steps that a load has before it: two for each definition, and the commit.
Ahead(p) == IF at[p] <= Len(file[p]) THEN 2 * (Len(file[p]) + 1 - at[p]) ELSE 0

LoadLeft(p) ==
    CASE pc[p] = "select" -> Ahead(p) + 1
      [] pc[p] = "flush" -> Ahead(p) + 2
      [] OTHER -> 0

Session(p) == <<pc[p], file[p], at[p], dirty[p], written[p]>>

LEMMA AheadTypes ==
    ASSUME TypeOK, NEW p \in Loads
    PROVE  /\ Len(file[p]) \in Nat /\ at[p] \in Nat \ {0}
           /\ Ahead(p) \in 0 .. 2 * Len(file[p])
    <1>1. file[p] \in Seq(Definitions)
      <2>1. <<>> \in Seq(Definitions)
        OBVIOUS
      <2>. QED  BY <2>1, SignaturesAssumption DEF TypeOK
    <1>2. Len(file[p]) \in Nat /\ at[p] \in Nat \ {0}
      BY <1>1 DEF TypeOK
    <1>. QED  BY <1>2 DEF Ahead

\* To go on to the next definition is two steps less.
LEMMA DefinitionPassed ==
    ASSUME TypeOK, NEW p \in Loads, at[p] <= Len(file[p]),
           at' = [at EXCEPT ![p] = @ + 1], file' = file
    PROVE  Ahead(p)' + 2 < Ahead(p) + 1 /\ Ahead(p)' + 1 < Ahead(p) + 1
    <1>1. \A n, a \in Nat : a <= n =>
            /\ (IF a + 1 <= n THEN 2 * (n + 1 - (a + 1)) ELSE 0) + 2 < 2 * (n + 1 - a) + 1
            /\ (IF a + 1 <= n THEN 2 * (n + 1 - (a + 1)) ELSE 0) + 1 < 2 * (n + 1 - a) + 1
      OBVIOUS
    <1>2. at'[p] = at[p] + 1 /\ file'[p] = file[p]
      BY DEF TypeOK
    <1>3. Len(file[p]) \in Nat /\ at[p] \in Nat
      BY AheadTypes
    <1>. QED  BY <1>1, <1>2, <1>3, Zenon DEF Ahead

LEMMA LoadStepTaken ==
    ASSUME IInv, NEW p \in Open, Step(p) \/ Fail(p)
    PROVE  LoadLeft(p)' < LoadLeft(p)
    <1>0. TypeOK /\ p \in Loads
      BY DEF IInv, Open
    <1>1. Ahead(p) \in Nat
      BY <1>0, AheadTypes
    <1>2. CASE AddRow(p) \/ ChangeRow(p) \/ KeepRow(p)
      <2>1. /\ pc[p] = "select" /\ pc'[p] \in {"select", "flush"} /\ at[p] <= Len(file[p])
            /\ at' = [at EXCEPT ![p] = @ + 1] /\ file' = file
        BY <1>0, <1>2 DEF AddRow, ChangeRow, KeepRow, AtDefinition, Hold, TypeOK
      <2>2. Ahead(p)' + 2 < Ahead(p) + 1 /\ Ahead(p)' + 1 < Ahead(p) + 1
        BY <1>0, <2>1, DefinitionPassed
      <2>. QED  BY <2>1, <2>2, Zenon DEF LoadLeft
    <1>3. CASE Flush(p)
      <2>1. pc[p] = "flush" /\ pc'[p] = "select" /\ Ahead(p)' = Ahead(p)
        BY <1>0, <1>3 DEF Flush, Ahead, TypeOK
      <2>2. Ahead(p) + 1 < Ahead(p) + 2
        BY <1>1
      <2>. QED  BY <2>1, <2>2, Zenon DEF LoadLeft
    <1>4. CASE Commit(p) \/ Fail(p)
      <2>1. pc[p] \in {"select", "flush"} /\ pc'[p] \in {"done", "failed"}
        BY <1>0, <1>4 DEF Commit, Fail, Open, TypeOK
      <2>2. 0 < Ahead(p) + 1 /\ 0 < Ahead(p) + 2
        BY <1>1
      <2>. QED  BY <2>1, <2>2, Zenon DEF LoadLeft
    <1>. QED  BY <1>2, <1>3, <1>4 DEF Step

LEMMA OthersLeaveSession ==
    ASSUME TypeOK, NEW p \in Open, NEW q \in Loads \ {p}, Start(q) \/ Step(q) \/ Fail(q)
    PROVE  UNCHANGED Session(p)
    BY DEF Session, Start, Step, AddRow, ChangeRow, KeepRow, Hold, Flush, Commit, Fail, Open, TypeOK

\* No load takes more than two steps for each definition of its file and one to end,
\* whatever loads it meets: neither another load, nor an operator who switches rows
\* off, ever makes it repeat one (sync_to_db).  With SomeLoadGoesOn, the only way for a
\* load not to end is that a process which could go on does not.
THEOREM LoadsAreFinite ==
    Spec => /\ [](\A p \in Loads : LoadLeft(p) \in 0 .. 2 * Len(file[p]) + 2)
            /\ [][\A p \in Open : LoadLeft(p)' < LoadLeft(p) \/ UNCHANGED Session(p)]_vars
    <1>1. ASSUME IInv PROVE \A p \in Loads : LoadLeft(p) \in 0 .. 2 * Len(file[p]) + 2
      <2>. SUFFICES ASSUME NEW p \in Loads PROVE LoadLeft(p) \in 0 .. 2 * Len(file[p]) + 2
        OBVIOUS
      <2>1. \A n \in Nat : \A a \in 0 .. 2 * n :
               a + 1 \in 0 .. 2 * n + 2 /\ a + 2 \in 0 .. 2 * n + 2 /\ 0 \in 0 .. 2 * n + 2
        OBVIOUS
      <2>2. Len(file[p]) \in Nat /\ Ahead(p) \in 0 .. 2 * Len(file[p])
        BY <1>1, AheadTypes DEF IInv
      <2>. QED  BY <2>1, <2>2, Zenon DEF LoadLeft
    <1>2. ASSUME IInv, Next
          PROVE  \A p \in Open : LoadLeft(p)' < LoadLeft(p) \/ UNCHANGED Session(p)
      <2>. SUFFICES ASSUME NEW p \in Open PROVE LoadLeft(p)' < LoadLeft(p) \/ UNCHANGED Session(p)
        OBVIOUS
      <2>1. TypeOK /\ p \in Loads /\ ~Start(p)
        BY <1>2 DEF IInv, Open, Start
      <2>2. CASE Step(p) \/ Fail(p)
        BY <1>2, <2>2, LoadStepTaken
      <2>3. ASSUME NEW i \in Ids, SwitchOff(i) PROVE UNCHANGED Session(p)
        BY <2>3 DEF SwitchOff, Session
      <2>. QED  BY <1>2, <2>1, <2>2, <2>3, OthersLeaveSession DEF Next
    <1>3. Init => IInv
      BY IInvInit
    <1>4. IInv /\ [Next]_vars => IInv'
      BY IInvNext
    <1>. QED  BY <1>1, <1>2, <1>3, <1>4, PTL DEF Spec
=============================================================================

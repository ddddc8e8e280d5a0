----------------------------- MODULE Signatures -----------------------------
(***************************************************************************)
(* The signature table: loads of the signature files (db/load_signatures,  *)
(* load_yaml_dir and sync_to_db of engine/signatures.py) beside each other,*)
(* an operator who switches rows off, and what the reload that every scan  *)
(* makes finds in it (areload_from_db).                                    *)
(*                                                                         *)
(* A load is one transaction.  Each of its SELECTs first flushes what the  *)
(* session holds: an UPDATE by primary key, which waits for the lock of    *)
(* the row, or an INSERT, which no constraint stops.  Others see the rows  *)
(* when it commits.                                                        *)
(***************************************************************************)
EXTENDS Naturals, Sequences, FiniteSets

CONSTANTS
    Loads,      \* runs of the loader
    Keys,       \* name and category of a signature: <<name, category>>
    Contents,   \* what definition_hash looks at: type and signals
    Invalid,    \* a definition that does not validate
    Files,      \* what the directory may hold: sequences of definitions
    Tables,     \* the contents of the rows from before, or None
    None

Definitions == [key : Keys, content : Contents \cup {Invalid}]

\* A row is known by the load that inserted it, None for one from before.
Ids == (Loads \cup {None}) \X Keys
IdsOf(k) == {i \in Ids : i[2] = k}

Row(content, version, active) == [content |-> content, version |-> version, active |-> active]
Rows == [content : Contents \cup {Invalid}, version : Nat \ {0}, active : BOOLEAN]

ASSUME SignaturesAssumption ==
    /\ Files \subseteq Seq(Definitions)
    /\ Tables \subseteq [Keys -> Contents \cup {Invalid, None}]
    /\ Invalid \notin Contents /\ None \notin Contents \cup {Invalid}
    /\ None \notin Loads \cup Rows \cup [id : Ids, row : Rows]

VARIABLES
    rows,      \* the committed table, None where there is no row
    pc,        \* where each load stands
    file,      \* the definitions it loads
    at,        \* the one it is at
    dirty,     \* the row its session has not flushed: [id, row], or None
    written,   \* the rows it wrote, locked until its transaction ends
    met,       \* history: loads that were under way together
    released   \* history: contents and versions as if every load happened at once

tables == <<rows, released>>
sessions == <<pc, file, at, dirty, written>>
vars == <<tables, sessions, met>>

NoRows == [i \in Ids |-> None]
Open == {p \in Loads : pc[p] \in {"select", "flush"}}

Init ==
    /\ \E t \in Tables :
          /\ rows = [i \in Ids |-> IF i[1] = None /\ t[i[2]] # None THEN Row(t[i[2]], 1, TRUE)
                                  ELSE None]
          /\ released = [k \in Keys |-> [content |-> t[k], version |-> IF t[k] = None THEN 0 ELSE 1]]
    /\ pc = [p \in Loads |-> "idle"]
    /\ file = [p \in Loads |-> <<>>]
    /\ at = [p \in Loads |-> 1]
    /\ dirty = [p \in Loads |-> None]
    /\ written = [p \in Loads |-> NoRows]
    /\ met = {}

-----------------------------------------------------------------------------
(***************************************************************************)
(* A load.                                                                 *)
(***************************************************************************)
\* load_yaml_dir: every definition validates, and no name comes twice.
Parses(f) ==
    /\ \A j \in DOMAIN f : f[j].content # Invalid
    /\ \A j, l \in DOMAIN f : f[j].key[1] = f[l].key[1] => j = l

Start(p) ==
    /\ pc[p] = "idle"
    /\ \E f \in Files :
          /\ file' = [file EXCEPT ![p] = IF Parses(f) THEN f ELSE <<>>]
          /\ pc' = [pc EXCEPT ![p] = IF Parses(f) THEN "select" ELSE "failed"]
          /\ met' = IF Parses(f) THEN met \cup {{p, q} : q \in Open} ELSE met
    /\ UNCHANGED <<tables, at, dirty, written>>

AtDefinition(p) == pc[p] = "select" /\ at[p] <= Len(file[p])
Key(p) == file[p][at[p]].key
Content(p) == file[p][at[p]].content

\* Bug: rows that are switched off are not looked for.
FoundActive(p) == {i \in IdsOf(Key(p)) : rows[i] # None /\ rows[i].active}

\* The rows that the SELECT of a definition returns.
Found(p) == {i \in IdsOf(Key(p)) : rows[i] # None}

Hold(p, i, row) ==
    /\ pc' = [pc EXCEPT ![p] = "flush"]
    /\ dirty' = [dirty EXCEPT ![p] = [id |-> i, row |-> row]]
    /\ at' = [at EXCEPT ![p] = @ + 1]
    /\ UNCHANGED <<tables, file, written, met>>

\* Bug: versions of new rows are counted from 0.
AddRowUnversioned(p) ==
    /\ AtDefinition(p) /\ Found(p) = {}
    /\ Hold(p, <<p, Key(p)>>, Row(Content(p), 0, TRUE))

AddRow(p) ==
    /\ AtDefinition(p) /\ Found(p) = {}
    /\ Hold(p, <<p, Key(p)>>, Row(Content(p), 1, TRUE))

\* Bug: the version stays.
ChangeRowInPlace(p) ==
    /\ AtDefinition(p)
    /\ \E i \in Found(p) :
          /\ Found(p) = {i}
          /\ rows[i].content # Content(p)
          /\ Hold(p, i, Row(Content(p), rows[i].version, ~rows[i].active))

\* A stored definition that does not validate has the hash of none.
ChangeRow(p) ==
    /\ AtDefinition(p)
    /\ \E i \in Found(p) :
          /\ Found(p) = {i}
          /\ rows[i].content # Content(p)
          /\ Hold(p, i, Row(Content(p), rows[i].version + 1, ~rows[i].active))

\* Bug: a stored definition that does not validate is left alone.
KeepRowInvalid(p) ==
    /\ AtDefinition(p)
    /\ \E i \in Found(p) : Found(p) = {i} /\ rows[i].content \in {Content(p), Invalid}
    /\ at' = [at EXCEPT ![p] = @ + 1]
    /\ UNCHANGED <<tables, pc, file, dirty, written, met>>

\* Bug: an unchanged signature is switched on as well.
KeepRowActive(p) ==
    /\ AtDefinition(p)
    /\ \E i \in Found(p) :
          /\ Found(p) = {i}
          /\ rows[i].content = Content(p)
          /\ Hold(p, i, Row(Content(p), rows[i].version, TRUE))

KeepRow(p) ==
    /\ AtDefinition(p)
    /\ \E i \in Found(p) : Found(p) = {i} /\ rows[i].content = Content(p)
    /\ at' = [at EXCEPT ![p] = @ + 1]
    /\ UNCHANGED <<tables, pc, file, dirty, written, met>>

\* The row is written as it was computed from what was read, except that its
\* `active` goes with the UPDATE only if it was read as FALSE.
Locked(i, p) == \E q \in Loads \ {p} : written[q][i] # None

Flush(p) ==
    LET i == dirty[p].id
        r == dirty[p].row
        on == rows[i] # None /\ rows[i].active
    IN  /\ pc[p] = "flush" /\ ~Locked(i, p)
        /\ written' = [written EXCEPT ![p][i] = [r EXCEPT !.active = @ \/ on]]
        /\ dirty' = [dirty EXCEPT ![p] = None]
        /\ pc' = [pc EXCEPT ![p] = "select"]
        /\ UNCHANGED <<tables, file, at, met>>

\* What a load does when nothing else happens meanwhile.
Release(f) ==
    [k \in Keys |->
        LET told == {f[j].content : j \in {j \in DOMAIN f : f[j].key = k}}
        IN  IF told \subseteq {released[k].content} THEN released[k]
            ELSE [content |-> CHOOSE c \in told : TRUE, version |-> released[k].version + 1]]

Commit(p) ==
    /\ pc[p] = "select" /\ at[p] > Len(file[p])
    /\ rows' = [i \in Ids |-> IF written[p][i] # None THEN written[p][i] ELSE rows[i]]
    /\ released' = Release(file[p])
    /\ written' = [written EXCEPT ![p] = NoRows]
    /\ pc' = [pc EXCEPT ![p] = "done"]
    /\ at' = [at EXCEPT ![p] = 1]
    /\ UNCHANGED <<file, dirty, met>>

\* Bug: the transaction is left open.
FailOpen(p) ==
    /\ p \in Open
    /\ dirty' = [dirty EXCEPT ![p] = None]
    /\ pc' = [pc EXCEPT ![p] = "failed"]
    /\ file' = [file EXCEPT ![p] = <<>>]
    /\ at' = [at EXCEPT ![p] = 1]
    /\ UNCHANGED <<tables, written, met>>

\* Two rows (scalar_one_or_none raises), an error of the database, the victim
\* of a deadlock, or a process that dies: nothing of the load remains.
Fail(p) ==
    /\ p \in Open
    /\ written' = [written EXCEPT ![p] = NoRows]
    /\ dirty' = [dirty EXCEPT ![p] = None]
    /\ pc' = [pc EXCEPT ![p] = "failed"]
    /\ file' = [file EXCEPT ![p] = <<>>]
    /\ at' = [at EXCEPT ![p] = 1]
    /\ UNCHANGED <<tables, met>>

TwoRows(p) == AtDefinition(p) /\ Cardinality(Found(p)) > 1

Waits(p, q) == pc[p] = "flush" /\ q # p /\ written[q][dirty[p].id] # None
Deadlocked(p) ==
    \E S \in SUBSET Loads : p \in S /\ \A q \in S : \E r \in S : Waits(q, r)

-----------------------------------------------------------------------------
(***************************************************************************)
(* Around the loads.                                                       *)
(***************************************************************************)
\* An operator switches a row off, and waits for its lock.
SwitchOff(i) ==
    /\ rows[i] # None /\ rows[i].active
    /\ \A p \in Loads : written[p][i] = None
    /\ rows' = [rows EXCEPT ![i].active = FALSE]
    /\ UNCHANGED <<released, sessions, met>>

\* A scan loads the active rows with one SELECT; any of these makes it fail.
Unusable == {i \in Ids : rows[i] # None /\ rows[i].active /\ rows[i].content = Invalid}

\* What a load that is under way does, unless it fails.
Step(p) ==
    \/ AddRow(p) \/ ChangeRow(p) \/ KeepRow(p) \/ Flush(p) \/ Commit(p)
    \/ (TwoRows(p) \/ Deadlocked(p)) /\ Fail(p)

Next ==
    \/ \E p \in Loads : Start(p) \/ Step(p) \/ Fail(p)
    \/ \E i \in Ids : SwitchOff(i)

Spec == Init /\ [][Next]_vars

\* A loader that runs goes on; PostgreSQL ends a deadlock.
FairSpec == Spec /\ \A p \in Loads : WF_vars(Step(p))

-----------------------------------------------------------------------------
TypeOK ==
    /\ rows \in [Ids -> Rows \cup {None}]
    /\ pc \in [Loads -> {"idle", "select", "flush", "done", "failed"}]
    /\ file \in [Loads -> Files \cup {<<>>}]
    /\ at \in [Loads -> Nat \ {0}]
    /\ dirty \in [Loads -> [id : Ids, row : Rows] \cup {None}]
    /\ \A p \in Loads : pc[p] = "flush" <=> dirty[p] # None
    /\ written \in [Loads -> [Ids -> Rows \cup {None}]]
    /\ met \subseteq SUBSET Loads
    /\ released \in [Keys -> [content : Contents \cup {Invalid, None}, version : Nat]]

\* A signature has one row, unless two loads that were under way together both
\* inserted it: nothing else, be it a failed load, a row that is switched off or
\* does not validate, makes a scan see a signature twice (sync_to_db, without a
\* unique constraint).
OneRowEach ==
    \A k \in Keys : \A i, j \in IdsOf(k) :
        i # j /\ rows[i] # None /\ rows[j] # None => {i[1], j[1]} \in met

\* A load that succeeded has repaired the rows of all its signatures, for good:
\* no load that overlaps with it, or is slower, brings an unusable one back, and
\* no later reload raises because of them (_def_hash_from_stored, areload_from_db).
RepairIsFinal ==
    \A p \in Loads : pc[p] = "done" =>
        \A j \in DOMAIN file[p] : IdsOf(file[p][j].key) \cap Unusable = {}

\* Loads one after the other are atomic releases, whatever failed between them:
\* the table has the contents that the last successful load of a signature told,
\* and as its version the number of times it changed (sync_to_db).
LoadsAreReleases ==
    met = {} =>
        \A k \in Keys :
            /\ released[k].content = None => \A i \in IdsOf(k) : rows[i] = None
            /\ released[k].content # None =>
                  \E i \in IdsOf(k) : /\ rows[i] # None
                                      /\ rows[i].content = released[k].content
                                      /\ rows[i].version = released[k].version

\* A signature that was switched off stays off until its definition changes, as
\* long as loads do not meet (the `active` of sync_to_db against the operator).
SwitchedOffStays ==
    [][\A i \in Ids :
          rows[i] # None /\ ~rows[i].active /\ rows'[i].active =>
              rows'[i].content # rows[i].content \/ met # {}]_vars

\* Every load ends, also when it meets others that write the same rows in another
\* order, and whatever they wait for.
LoadsEnd == \A p \in Loads : p \in Open ~> pc[p] \in {"done", "failed"}
=============================================================================

------------------------ MODULE RowVersionsProofs ------------------------
(***************************************************************************)
(* How the ids of a vector are stored, for every size of the vector,       *)
(* number of transactions and number of checkpoints, whatever may happen:  *)
(* the shape of a ChunkVectorInfo (Shape), what every operation makes of   *)
(* one, and the invariant ShapeInv that leads to CachedCompressionHolds.   *)
(***************************************************************************)
EXTENDS RowVersions, FiniteSetTheorems, SequenceTheorems, WellFoundedInduction, TLAPS

-----------------------------------------------------------------------------
(* The invariant, and its parts *)

PCs == {"idle", "decided", "created", "started", "table", "compressed", "written", "finishing"}
UnderWay == {"started", "table", "compressed", "written", "finishing"}

Checkpoints ==
    [pc : PCs, type : {"none", "full", "concurrent"}, left : 0 .. MaxCheckpoints,
     statement : BOOLEAN, id : Nat, bind : Nat, lowest : Ids, rows : SUBSET Rows]

Managers ==
    [vector_info : VectorInfos \cup {NoInfo}, needs_compression_check : BOOLEAN,
     uncheckpointed_delete_commit : Ids, storage : SUBSET Rows]

DeleteInfos ==
    {del \in [rows : SUBSET Rows, entire : BOOLEAN] : del.rows # {} /\ (del.entire => del.rows = Rows)}

Statuses == {"idle", "active", "invalidated", "flushed", "done"}

\* The flags of a ChunkVectorInfo say how its ids are: one id for all rows, a mask with some
\* rows in it and some not, or an array with something in it; and a check that is disarmed has
\* nothing left to compress.
Shape(info) ==
    /\ info \in VectorInfos
    /\ info.constant_insert => \A r \in Rows : info.inserted[r] = info.inserted[0]
    /\ info.delete_state = "CONSTANT" => \A r \in Rows : info.deleted[r] = info.deleted[0]
    /\ info.delete_state = "MASKED" => DeletedRows(info) \notin {{}, Rows}
    /\ info.delete_state = "ARRAY" => DeletedRows(info) # {}
    /\ ~info.recheck_compression => info.constant_insert /\ info.delete_state # "ARRAY"
    /\ VectorSize = 1 => info.constant_insert

\* A RowVersionManager: a vector that is to be checked arms the check of the manager.
Good(m) ==
    /\ m \in Managers
    /\ m.vector_info # NoInfo =>
        /\ Shape(m.vector_info)
        /\ m.vector_info.recheck_compression => m.needs_compression_check

-----------------------------------------------------------------------------
(* Numbers and sets *)

\* A non-empty set of numbers has a least element.
LEMMA LeastOfNats ==
    ASSUME NEW S, S \subseteq Nat, S # {}
    PROVE  Min(S) \in S /\ \A y \in S : Min(S) <= y
<1>1. PICK x \in S : \A y \in S : <<y, x>> \notin OpToRel(<, Nat)
  BY NatLessThanWellFounded, WFMin, Zenon
<1>2. \A y \in S : ~(y < x)
  BY <1>1, Zenon DEF OpToRel
<1>3. \A y \in S : x <= y
  BY <1>2
<1> QED
  BY <1>3 DEF Min

\* A non-empty set of ids has a greatest element.
LEMMA GreatestOfNats ==
    ASSUME NEW n \in Nat, NEW S, S \subseteq 0 .. n, S # {}
    PROVE  Max(S) \in S /\ \A y \in S : Max(S) >= y
<1> DEFINE D == {n - x : x \in S}
<1>1. D \subseteq Nat /\ D # {}
  <2>1. \A x \in S : n - x \in Nat
    OBVIOUS
  <2> QED
    BY <2>1
<1>2. Min(D) \in D /\ \A y \in D : Min(D) <= y
  BY <1>1, LeastOfNats
<1>3. PICK x \in S : n - x = Min(D)
  BY <1>2
<1>4. ASSUME NEW y \in S PROVE x >= y
  <2>1. n - y \in D
    OBVIOUS
  <2>2. n - x <= n - y
    BY <1>2, <1>3, <2>1
  <2> QED
    BY <2>2
<1> QED
  BY <1>4 DEF Max

\* The constants.
LEMMA Constants ==
    /\ VectorSize \in Nat /\ VectorSize >= 1
    /\ Rows = 0 .. VectorSize - 1 /\ Rows \subseteq Nat /\ 0 \in Rows
    /\ TRANSACTION_ID_START \in Nat /\ TRANSACTION_ID_START > 2
    /\ NOT_DELETED_ID = 2 * TRANSACTION_ID_START /\ NOT_DELETED_ID \in Nat
    /\ MAX_TRANSACTION_ID = NOT_DELETED_ID + 1 /\ MAX_TRANSACTION_ID \in Nat
    /\ NOT_DELETED_ID > TRANSACTION_ID_START
    /\ Ids = 0 .. MAX_TRANSACTION_ID /\ Ids \subseteq Nat
    /\ {0, NOT_DELETED_ID, MAX_TRANSACTION_ID} \subseteq Ids
    /\ MaxCheckpoints \in Nat /\ IsFiniteSet(Txns) /\ Cardinality(Txns) \in Nat
    /\ Invalid = 0 /\ NoCleanup = MAX_TRANSACTION_ID
<1>1. IsFiniteSet(Txns) /\ Cardinality(Txns) \in Nat
  BY ConstantsAssumption, FS_CardinalityType
<1>2. 2 * Cardinality(Txns) \in Nat /\ 2 * MaxCheckpoints \in Nat
  BY <1>1, ConstantsAssumption
<1>3. TRANSACTION_ID_START > 2
  BY <1>2, ConstantsAssumption
<1> QED
  BY <1>1, <1>3, ConstantsAssumption DEF Rows, NOT_DELETED_ID, MAX_TRANSACTION_ID, Ids, Invalid, NoCleanup

\* The fields of a ChunkVectorInfo.
LEMMA InfoFields ==
    ASSUME NEW info \in VectorInfos
    PROVE  /\ info.inserted \in [Rows -> Ids] /\ info.deleted \in [Rows -> Ids]
           /\ info.constant_insert \in BOOLEAN /\ info.recheck_compression \in BOOLEAN
           /\ info.delete_state \in {"CONSTANT", "MASKED", "ARRAY"}
           /\ info # NoInfo
  BY NoInfoAssumption DEF VectorInfos

\* Two functions on the rows are one if they agree.
LEMMA SameFunction ==
    ASSUME NEW f, NEW g, f = [r \in Rows |-> f[r]], g = [r \in Rows |-> g[r]],
           \A r \in Rows : f[r] = g[r]
    PROVE  f = g
  BY Zenon

-----------------------------------------------------------------------------
(* ChunkVectorInfo *)

\* A new ChunkVectorInfo.
LEMMA NewInfoShape ==
    ASSUME NEW id \in Ids
    PROVE  /\ Shape(NewInfo(id)) /\ NewInfo(id) # NoInfo
           /\ NewInfo(id).inserted = [r \in Rows |-> id]
           /\ NewInfo(id).deleted = [r \in Rows |-> NOT_DELETED_ID]
           /\ NewInfo(id).constant_insert /\ NewInfo(id).recheck_compression
           /\ NewInfo(id).delete_state = "CONSTANT"
<1>1. NewInfo(id) \in VectorInfos
  BY Constants DEF NewInfo, VectorInfos
<1> QED
  BY <1>1, Constants, NoInfoAssumption DEF NewInfo, Shape

\* All rows get one deleted id.
LEMMA ConstantDeleteShape ==
    ASSUME NEW info, Shape(info), NEW id \in Ids
    PROVE  LET new == ConstantDelete(info, id)
           IN  /\ Shape(new)
               /\ new.inserted = info.inserted /\ new.constant_insert = info.constant_insert
               /\ new.deleted = [r \in Rows |-> id] /\ new.delete_state = "CONSTANT"
               /\ new.recheck_compression = info.recheck_compression
<1> DEFINE new == ConstantDelete(info, id)
<1>1. /\ new \in VectorInfos
      /\ new.inserted = info.inserted /\ new.constant_insert = info.constant_insert
      /\ new.deleted = [r \in Rows |-> id] /\ new.delete_state = "CONSTANT"
      /\ new.recheck_compression = info.recheck_compression
  BY DEF ConstantDelete, Shape, VectorInfos
<1> HIDE DEF new
<1>2. Shape(new)
  BY <1>1, Constants DEF Shape
<1> QED
  BY <1>1, <1>2 DEF new

\* The rows that a call of Delete unsets at a conflict had not been deleted by anybody else.
LEMMA UnsetRows ==
    ASSUME NEW info, Shape(info), NEW id \in Ids,
           NEW n \in Nat \ {0}, NEW rows \in [1 .. n -> Rows], ConflictAt(info, id, rows) # {}
    PROVE  /\ \A r \in UnsetAtConflict(info, rows, Min(ConflictAt(info, id, rows))) :
                info.deleted[r] \in {id, NOT_DELETED_ID} /\ \E k \in 1 .. n : r = rows[k]
           /\ \E r \in Rows : info.deleted[r] \notin {id, NOT_DELETED_ID}
<1> DEFINE conflicts == ConflictAt(info, id, rows)
           i == Min(conflicts)
           before == SubSeq(rows, 1, i - 1)
           marked == NewlyDeleted(info, before)
<1>1. Len(rows) = n /\ rows \in Seq(Rows)
  OBVIOUS
<1>2. conflicts \subseteq 1 .. n /\ conflicts \subseteq Nat
  BY <1>1 DEF ConflictAt
<1>3. i \in conflicts /\ \A j \in conflicts : i <= j
  BY <1>2, LeastOfNats
<1>4. i \in 1 .. n /\ i - 1 \in 0 .. n
  BY <1>2, <1>3
<1>5. \A k \in 1 .. i - 1 : info.deleted[rows[k]] \in {id, NOT_DELETED_ID}
  <2> SUFFICES ASSUME NEW k \in 1 .. i - 1 PROVE info.deleted[rows[k]] \in {id, NOT_DELETED_ID}
    OBVIOUS
  <2>1. k \in 1 .. n /\ k \notin conflicts
    BY <1>2, <1>3, <1>4
  <2> HIDE DEF i
  <2> QED
    BY <1>1, <2>1 DEF ConflictAt
<1> HIDE DEF i
<1>6. Len(before) = i - 1 /\ \A k \in 1 .. i - 1 : before[k] = rows[k] /\ before[k] \in Rows
  BY <1>1, <1>4, SubSeqProperties
<1> HIDE DEF before
<1>7. \A r \in marked : info.deleted[r] = NOT_DELETED_ID /\ r \in Rows /\ \E k \in 1 .. n : r = rows[k]
  BY <1>4, <1>6 DEF NewlyDeleted
<1> HIDE DEF marked
<1>8. Cardinality(marked) \in Nat
  <2>1. IsFiniteSet(Rows)
    BY Constants, FS_Interval
  <2>2. IsFiniteSet(marked)
    BY <1>7, <2>1, FS_Subset
  <2> QED
    BY <2>2, FS_CardinalityType
<1>9. \A k \in Cardinality(marked) + 1 .. i - 1 : k \in 1 .. i - 1 /\ k \in 1 .. n
  BY <1>4, <1>8
<1>10. UnsetAtConflict(info, rows, i) = marked \cup {rows[k] : k \in Cardinality(marked) + 1 .. i - 1}
  BY DEF UnsetAtConflict, marked, before
<1>11. \A r \in UnsetAtConflict(info, rows, i) :
            info.deleted[r] \in {id, NOT_DELETED_ID} /\ \E k \in 1 .. n : r = rows[k]
  BY <1>5, <1>7, <1>9, <1>10
<1>12. rows[i] \in Rows /\ info.deleted[rows[i]] \notin {id, NOT_DELETED_ID}
  BY <1>3, <1>4 DEF ConflictAt
<1> QED
  BY <1>11, <1>12 DEF i

\* What a call of Delete makes of a vector: the insert ids stay, and so does the shape.
LEMMA DeleteShape ==
    ASSUME NEW info, Shape(info), NEW id \in Ids, id # NOT_DELETED_ID,
           NEW n \in Nat \ {0}, NEW rows \in [1 .. n -> Rows]
    PROVE  LET new == Delete(info, id, rows)
           IN  /\ Shape(new)
               /\ new.inserted = info.inserted /\ new.constant_insert = info.constant_insert
<1> DEFINE conflicts == ConflictAt(info, id, rows)
           unset == UnsetAtConflict(info, rows, Min(conflicts))
           newly == NewlyDeleted(info, rows)
           deleted == [r \in Rows |->
                        IF conflicts # {}
                        THEN IF r \in unset THEN NOT_DELETED_ID ELSE info.deleted[r]
                        ELSE IF r \in newly THEN id ELSE info.deleted[r]]
           array == [info EXCEPT !.deleted = deleted, !.delete_state = "ARRAY", !.recheck_compression = TRUE]
           new == Delete(info, id, rows)
<1>1. new = IF ConstantlyDeleted(info) THEN info
            ELSE IF info.delete_state = "CONSTANT" /\ rows = EntireVector THEN ConstantDelete(info, id)
            ELSE array
  BY InfoFields DEF Delete, Shape
<1>2. info \in VectorInfos /\ info.deleted \in [Rows -> Ids]
  BY InfoFields DEF Shape
<1>3. Len(rows) = n /\ 1 \in 1 .. n
  OBVIOUS
<1>4. \E r \in Rows : deleted[r] # NOT_DELETED_ID
  <2>1. CASE conflicts # {}
    BY <1>2, <2>1, UnsetRows
  <2>2. CASE conflicts = {}
    <3>1. info.deleted[rows[1]] \in {id, NOT_DELETED_ID}
      BY <1>3, <2>2 DEF ConflictAt
    <3>2. info.deleted[rows[1]] = NOT_DELETED_ID => rows[1] \in newly
      BY <1>3 DEF NewlyDeleted
    <3>3. rows[1] \in Rows
      BY <1>3
    <3> QED
      BY <2>2, <3>1, <3>2, <3>3
  <2> QED
    BY <2>1, <2>2
<1>5. deleted \in [Rows -> Ids]
  BY <1>2, Constants
<1> HIDE DEF deleted
<1>6. /\ array \in VectorInfos /\ array.deleted = deleted /\ array.delete_state = "ARRAY"
      /\ array.inserted = info.inserted /\ array.constant_insert = info.constant_insert
      /\ array.recheck_compression
  BY <1>2, <1>5 DEF VectorInfos
<1> HIDE DEF array, new
<1>7. DeletedRows(array) # {}
  BY <1>4, <1>6 DEF DeletedRows
<1>8. Shape(array)
  BY <1>6, <1>7 DEF Shape
<1>9. /\ Shape(new)
      /\ new.inserted = info.inserted /\ new.constant_insert = info.constant_insert
  BY <1>1, <1>6, <1>8, ConstantDeleteShape
<1> QED
  BY <1>9 DEF new

\* A call of Delete by a transaction that has deleted none of the rows: either it conflicts and
\* leaves the ids as they are, or it sets the deleted id of the rows, which nobody had deleted.
LEMMA DeleteEffect ==
    ASSUME NEW info, Shape(info), NEW id \in Ids, id # NOT_DELETED_ID,
           NEW n \in Nat \ {0}, NEW rows \in [1 .. n -> Rows],
           \A i \in 1 .. n : info.deleted[rows[i]] # id
    PROVE  /\ DeleteConflicts(info, id, rows) =>
                /\ Delete(info, id, rows).deleted = info.deleted
                /\ \E i \in 1 .. n : info.deleted[rows[i]] \notin {id, NOT_DELETED_ID}
           /\ ~DeleteConflicts(info, id, rows) =>
                /\ Delete(info, id, rows).deleted =
                        [r \in Rows |-> IF \E i \in 1 .. n : r = rows[i] THEN id ELSE info.deleted[r]]
                /\ DeleteInfo(info, rows).rows = {rows[i] : i \in 1 .. n}
                /\ \A i \in 1 .. n : info.deleted[rows[i]] = NOT_DELETED_ID
                /\ ~ConstantlyDeleted(info)
<1> DEFINE conflicts == ConflictAt(info, id, rows)
           unset == UnsetAtConflict(info, rows, Min(conflicts))
           newly == NewlyDeleted(info, rows)
           deleted == [r \in Rows |->
                        IF conflicts # {}
                        THEN IF r \in unset THEN NOT_DELETED_ID ELSE info.deleted[r]
                        ELSE IF r \in newly THEN id ELSE info.deleted[r]]
           new == Delete(info, id, rows)
           given == {rows[i] : i \in 1 .. n}
<1>1. info \in VectorInfos /\ info.deleted \in [Rows -> Ids] /\ Len(rows) = n /\ 1 \in 1 .. n
  BY InfoFields DEF Shape
<1>2. /\ ConstantlyDeleted(info) => new = info
      /\ ~ConstantlyDeleted(info) /\ info.delete_state = "CONSTANT" /\ rows = EntireVector =>
            new = ConstantDelete(info, id)
      /\ ~ConstantlyDeleted(info) /\ ~(info.delete_state = "CONSTANT" /\ rows = EntireVector) =>
            new.deleted = deleted
  BY <1>1 DEF Delete, VectorInfos
<1>3. newly \subseteq given
  BY <1>1 DEF NewlyDeleted
<1>4. ASSUME conflicts # {} PROVE deleted = info.deleted
  <2>1. \A r \in unset : info.deleted[r] \in {id, NOT_DELETED_ID} /\ \E k \in 1 .. n : r = rows[k]
    BY <1>4, UnsetRows
  <2>2. \A r \in unset : info.deleted[r] = NOT_DELETED_ID
    BY <2>1
  <2> QED
    BY <1>1, <1>4, <2>2
<1>5. conflicts # {} => \E i \in 1 .. n : info.deleted[rows[i]] \notin {id, NOT_DELETED_ID}
  BY <1>1 DEF ConflictAt
<1>6. ASSUME conflicts = {}
      PROVE  (\A i \in 1 .. n : info.deleted[rows[i]] = NOT_DELETED_ID) /\ newly = given
  <2>1. \A i \in 1 .. n : info.deleted[rows[i]] = NOT_DELETED_ID
    BY <1>1, <1>6 DEF ConflictAt
  <2> QED
    BY <1>1, <2>1 DEF NewlyDeleted
<1>7. DeleteInfo(info, rows).rows = newly
  BY DEF DeleteInfo
<1>8. ASSUME ConstantlyDeleted(info)
      PROVE  /\ DeleteConflicts(info, id, rows) /\ new.deleted = info.deleted
             /\ \E i \in 1 .. n : info.deleted[rows[i]] \notin {id, NOT_DELETED_ID}
  <2>1. info.deleted[0] # NOT_DELETED_ID /\ \A r \in Rows : info.deleted[r] = info.deleted[0]
    BY <1>8 DEF ConstantlyDeleted, Shape
  <2>2. rows[1] \in Rows
    BY <1>1
  <2>3. info.deleted[rows[1]] \notin {id, NOT_DELETED_ID} /\ info.deleted[0] # id
    BY <1>1, <2>1, <2>2
  <2> QED
    BY <1>1, <1>2, <1>8, <2>3 DEF DeleteConflicts
<1>9. ASSUME ~ConstantlyDeleted(info), info.delete_state = "CONSTANT", rows = EntireVector
      PROVE  conflicts = {} /\ new.deleted = [r \in Rows |-> IF r \in given THEN id ELSE info.deleted[r]]
  <2>1. \A r \in Rows : info.deleted[r] = NOT_DELETED_ID
    BY <1>9 DEF ConstantlyDeleted, Shape
  <2>2. conflicts = {}
    BY <1>1, <2>1 DEF ConflictAt
  <2>3. new.deleted = [r \in Rows |-> id]
    <3>1. new = ConstantDelete(info, id)
      BY <1>2, <1>9
    <3> HIDE DEF new
    <3> QED
      BY <3>1, ConstantDeleteShape, ZenonT(60)
  <2>4. ASSUME NEW r \in Rows PROVE r \in given
    <3>1. r + 1 \in 1 .. VectorSize /\ (r + 1) - 1 = r
      BY Constants, SMTT(30)
    <3>2. EntireVector[r + 1] = r
      BY <3>1 DEF EntireVector
    <3>3. VectorSize = n
      BY <1>1, <1>9, Constants DEF EntireVector
    <3> QED
      BY <1>9, <3>1, <3>2, <3>3
  <2> HIDE DEF given, conflicts
  <2>5. [r \in Rows |-> id] = [r \in Rows |-> IF r \in given THEN id ELSE info.deleted[r]]
    BY <2>4
  <2> QED
    BY <2>2, <2>3, <2>5
<1>10. ASSUME ~ConstantlyDeleted(info), ~(info.delete_state = "CONSTANT" /\ rows = EntireVector),
              conflicts = {}
       PROVE  new.deleted = [r \in Rows |-> IF r \in given THEN id ELSE info.deleted[r]]
  <2>1. new.deleted = deleted /\ newly = given
    BY <1>2, <1>6, <1>10
  <2> QED
    BY <1>10, <2>1
<1>11. [r \in Rows |-> IF r \in given THEN id ELSE info.deleted[r]] =
            [r \in Rows |-> IF \E i \in 1 .. n : r = rows[i] THEN id ELSE info.deleted[r]]
  OBVIOUS
<1>12. ~ConstantlyDeleted(info) => (DeleteConflicts(info, id, rows) <=> conflicts # {})
  BY DEF DeleteConflicts
<1> HIDE DEF conflicts, newly, given, deleted, new
<1>13. DeleteConflicts(info, id, rows) =>
            /\ new.deleted = info.deleted
            /\ \E i \in 1 .. n : info.deleted[rows[i]] \notin {id, NOT_DELETED_ID}
  BY <1>2, <1>4, <1>5, <1>8, <1>9, <1>12
<1>14. ~DeleteConflicts(info, id, rows) =>
            /\ new.deleted = [r \in Rows |-> IF \E i \in 1 .. n : r = rows[i] THEN id ELSE info.deleted[r]]
            /\ DeleteInfo(info, rows).rows = given
            /\ \A i \in 1 .. n : info.deleted[rows[i]] = NOT_DELETED_ID
            /\ ~ConstantlyDeleted(info)
  <2> HAVE ~DeleteConflicts(info, id, rows)
  <2>1. ~ConstantlyDeleted(info) /\ conflicts = {}
    BY <1>8, <1>12
  <2>2. new.deleted = [r \in Rows |-> IF r \in given THEN id ELSE info.deleted[r]]
    BY <1>9, <1>10, <2>1
  <2> QED
    BY <1>6, <1>7, <1>11, <2>1, <2>2
<1> QED
  BY <1>13, <1>14 DEF new, given

\* The deletes of a DeleteInfo get an id.
LEMMA CommitDeleteShape ==
    ASSUME NEW info, Shape(info), NEW id \in Ids, NEW del \in DeleteInfos
    PROVE  LET new == CommitDelete(info, id, del)
           IN  /\ Shape(new)
               /\ new.inserted = info.inserted /\ new.constant_insert = info.constant_insert
               /\ new.deleted = [r \in Rows |-> IF r \in del.rows THEN id ELSE info.deleted[r]]
<1> DEFINE deleted == [r \in Rows |-> IF r \in del.rows THEN id ELSE info.deleted[r]]
           all == ConstantDelete(info, id)
           one == [all EXCEPT !.recheck_compression = TRUE]
           array == [[info EXCEPT !.deleted = deleted, !.delete_state = "ARRAY"]
                        EXCEPT !.recheck_compression = TRUE]
           new == CommitDelete(info, id, del)
<1>1. new = IF del.entire THEN all
            ELSE IF info.delete_state = "CONSTANT" /\ info.deleted[0] = id THEN info
            ELSE IF \A r \in Rows : deleted[r] = id THEN one ELSE array
  BY DEF CommitDelete
<1>2. info \in VectorInfos /\ info.deleted \in [Rows -> Ids]
  BY InfoFields DEF Shape
<1>3. deleted \in [Rows -> Ids]
  BY <1>2
<1>4. /\ Shape(all) /\ all.inserted = info.inserted /\ all.constant_insert = info.constant_insert
      /\ all.deleted = [r \in Rows |-> id] /\ all.delete_state = "CONSTANT"
  BY ConstantDeleteShape
<1>5. del.entire => [r \in Rows |-> id] = deleted
  BY DEF DeleteInfos
<1>6. info.delete_state = "CONSTANT" /\ info.deleted[0] = id => info.deleted = deleted
  BY <1>2 DEF Shape
<1>7. (\A r \in Rows : deleted[r] = id) => [r \in Rows |-> id] = deleted
  BY <1>3
<1> HIDE DEF all, deleted
<1>8. /\ one \in VectorInfos /\ one.inserted = info.inserted /\ one.constant_insert = info.constant_insert
      /\ one.deleted = [r \in Rows |-> id] /\ one.delete_state = "CONSTANT" /\ one.recheck_compression
  BY <1>4 DEF Shape, VectorInfos
<1>9. /\ array \in VectorInfos /\ array.inserted = info.inserted /\ array.deleted = deleted
      /\ array.constant_insert = info.constant_insert /\ array.delete_state = "ARRAY"
      /\ array.recheck_compression
  BY <1>2, <1>3 DEF VectorInfos
<1> HIDE DEF one, array, new
<1>10. Shape(one)
  BY <1>4, <1>8, Constants DEF Shape
<1>11. ASSUME ~(\A r \in Rows : deleted[r] = id) PROVE Shape(array)
  <2>1. \E r \in Rows : deleted[r] # NOT_DELETED_ID
    <3>1. CASE id = NOT_DELETED_ID
      BY <1>11, <3>1
    <3>2. CASE id # NOT_DELETED_ID
      <4>1. PICK r \in Rows : r \in del.rows
        BY DEF DeleteInfos
      <4> QED
        BY <3>2, <4>1 DEF deleted
    <3> QED
      BY <3>1, <3>2
  <2>2. DeletedRows(array) # {}
    BY <1>9, <2>1 DEF DeletedRows
  <2> QED
    BY <1>9, <2>2 DEF Shape
<1>12. /\ Shape(new) /\ new.deleted = deleted
       /\ new.inserted = info.inserted /\ new.constant_insert = info.constant_insert
  BY <1>1, <1>4, <1>5, <1>6, <1>7, <1>8, <1>9, <1>10, <1>11
<1> QED
  BY <1>12 DEF new, deleted

\* Insert ids of an append.
LEMMA AppendIdsShape ==
    ASSUME NEW info, Shape(info), NEW id \in Ids, NEW first \in Rows, NEW last \in Rows
    PROVE  LET new == AppendIds(info, first, last, id)
           IN  /\ Shape(new) /\ new.deleted = info.deleted
               /\ first = 0 => new.inserted = [r \in Rows |-> id] /\ new.constant_insert
               /\ first # 0 /\ info.inserted[0] # id =>
                    /\ new.inserted = [r \in Rows |-> IF r \in first .. last THEN id ELSE info.inserted[r]]
                    /\ ~new.constant_insert
<1> DEFINE zero == [info EXCEPT !.inserted = [r \in Rows |-> id], !.constant_insert = TRUE]
           inserted == [r \in Rows |-> IF r \in first .. last THEN id ELSE info.inserted[r]]
           some == [info EXCEPT !.inserted = inserted, !.constant_insert = FALSE, !.recheck_compression = TRUE]
           new == AppendIds(info, first, last, id)
<1>1. info \in VectorInfos /\ info.inserted \in [Rows -> Ids]
  BY InfoFields DEF Shape
<1>2. new = IF first = 0 THEN zero ELSE IF info.constant_insert /\ info.inserted[0] = id THEN info ELSE some
  BY <1>1 DEF AppendIds, VectorInfos
<1>3. inserted \in [Rows -> Ids]
  BY <1>1
<1> HIDE DEF inserted
<1>4. /\ zero \in VectorInfos /\ zero.inserted = [r \in Rows |-> id] /\ zero.constant_insert
      /\ zero.deleted = info.deleted /\ zero.delete_state = info.delete_state
      /\ zero.recheck_compression = info.recheck_compression
  BY <1>1 DEF VectorInfos
<1>5. /\ some \in VectorInfos /\ some.inserted = inserted /\ ~some.constant_insert
      /\ some.deleted = info.deleted /\ some.delete_state = info.delete_state
      /\ some.recheck_compression
  BY <1>1, <1>3 DEF VectorInfos
<1> HIDE DEF zero, some, new
<1>6. Shape(zero)
  BY <1>4, Constants, SMTT(30) DEF Shape, DeletedRows
<1>7. ASSUME first # 0 PROVE Shape(some)
  <2>1. VectorSize # 1
    BY <1>7, Constants
  <2> QED
    BY <1>5, <2>1 DEF Shape, DeletedRows
<1> QED
  BY <1>2, <1>4, <1>5, <1>6, <1>7 DEF new, inserted

\* What the commit of an append changes: insert ids, of all rows if they are constant.
AppendCommitted(info, new, id, first, last) ==
    /\ Shape(new) /\ new.deleted = info.deleted
    /\ new.constant_insert = info.constant_insert
    /\ new.recheck_compression = info.recheck_compression
    /\ info.constant_insert => new.inserted = [r \in Rows |-> id]
    /\ ~info.constant_insert =>
            new.inserted = [r \in Rows |-> IF r \in first .. last THEN id ELSE info.inserted[r]]

\* The commit of an append.
LEMMA CommitAppendShape ==
    ASSUME NEW info, Shape(info), NEW id \in Ids, NEW first, NEW last
    PROVE  AppendCommitted(info, CommitAppend(info, id, first, last), id, first, last)
<1> DEFINE zero == [info EXCEPT !.inserted = [r \in Rows |-> id]]
           inserted == [r \in Rows |-> IF r \in first .. last THEN id ELSE info.inserted[r]]
           some == [info EXCEPT !.inserted = inserted, !.recheck_compression = TRUE]
           new == CommitAppend(info, id, first, last)
<1>1. /\ info \in VectorInfos /\ info.inserted \in [Rows -> Ids]
      /\ info.recheck_compression \in BOOLEAN /\ info.constant_insert \in BOOLEAN
  BY InfoFields DEF Shape
<1>2. new = IF info.constant_insert THEN zero ELSE some
  BY <1>1 DEF CommitAppend, VectorInfos
<1>3. inserted \in [Rows -> Ids]
  BY <1>1
<1> HIDE DEF inserted
<1>4. /\ zero \in VectorInfos /\ zero.inserted = [r \in Rows |-> id]
      /\ zero.constant_insert = info.constant_insert
      /\ zero.deleted = info.deleted /\ zero.delete_state = info.delete_state
      /\ zero.recheck_compression = info.recheck_compression
  BY <1>1 DEF VectorInfos
<1>5. /\ some \in VectorInfos /\ some.inserted = inserted
      /\ some.constant_insert = info.constant_insert
      /\ some.deleted = info.deleted /\ some.delete_state = info.delete_state
      /\ some.recheck_compression = TRUE
  BY <1>1, <1>3 DEF VectorInfos
<1>6. ~info.constant_insert => info.recheck_compression = TRUE
  BY <1>1 DEF Shape
<1> HIDE DEF zero, some, new
<1>7. Shape(zero)
  BY <1>4, Constants DEF Shape, DeletedRows
<1>8. ~info.constant_insert => Shape(some)
  BY <1>5 DEF Shape, DeletedRows
<1> QED
  BY <1>2, <1>4, <1>5, <1>6, <1>7, <1>8 DEF new, inserted, AppendCommitted

\* What the compression of ids does to them: insert ids below lowest become 0, all together;
\* an id of a delete below lowest becomes 0 or another such id.
Compressed(old, new, lowest) ==
    /\ \/ new.inserted = old.inserted
       \/ (\A r \in Rows : old.inserted[r] < lowest) /\ new.inserted = [r \in Rows |-> 0]
    /\ \A r \in Rows :
        \/ new.deleted[r] = old.deleted[r]
        \/ /\ old.deleted[r] # NOT_DELETED_ID /\ old.deleted[r] < lowest
           /\ \E s \in Rows : /\ old.deleted[s] # NOT_DELETED_ID /\ old.deleted[s] < lowest
                              /\ new.deleted[r] \in {0, old.deleted[s]}

\* The ids of the deletes are compressed.
LEMMA CompressDeletesShape ==
    ASSUME NEW info, Shape(info), info.recheck_compression, NEW lowest \in Ids
    PROVE  LET new == CompressDeletes(info, lowest)
           IN  /\ Shape(new) /\ Compressed(info, new, lowest) /\ new.inserted = info.inserted
               /\ new.constant_insert = info.constant_insert /\ new.recheck_compression
<1> DEFINE dead == DeletedRows(info)
           pending == PendingDeletes(info, lowest)
           ids == {info.deleted[r] : r \in dead}
           uncommitted == \E id \in ids : id >= TRANSACTION_ID_START
           new == CompressDeletes(info, lowest)
           Result(x) == /\ Shape(x) /\ Compressed(info, x, lowest) /\ x.inserted = info.inserted
                        /\ x.constant_insert = info.constant_insert /\ x.recheck_compression
<1>1. /\ info \in VectorInfos /\ info.deleted \in [Rows -> Ids]
      /\ info.delete_state \in {"CONSTANT", "MASKED", "ARRAY"}
  BY InfoFields DEF Shape
<1>2. ids \subseteq Ids /\ \A r \in Rows : (r \in dead <=> info.deleted[r] # NOT_DELETED_ID)
  BY <1>1 DEF DeletedRows
<1>3. \A r \in Rows : r \in pending <=> r \in dead /\ ~(info.deleted[r] < lowest)
  BY <1>1, <1>2, Constants DEF PendingDeletes
<1>4. Result(info)
  BY DEF Compressed
<1>5. ASSUME NEW id \in Ids, id # NOT_DELETED_ID, dead # Rows, dead # {}
      PROVE  /\ Shape(Masked(info, id)) /\ Masked(info, id).inserted = info.inserted
             /\ Masked(info, id).constant_insert = info.constant_insert
             /\ Masked(info, id).recheck_compression
             /\ Masked(info, id).deleted = [r \in Rows |-> IF r \in dead THEN id ELSE NOT_DELETED_ID]
  <2> DEFINE mask == Masked(info, id)
             deleted == [r \in Rows |-> IF r \in dead THEN id ELSE NOT_DELETED_ID]
  <2>1. deleted \in [Rows -> Ids]
    BY <1>5, Constants
  <2>2. mask = [info EXCEPT !.deleted = deleted, !.delete_state = "MASKED"]
    BY DEF Masked
  <2> HIDE DEF deleted
  <2>3. /\ mask \in VectorInfos /\ mask.deleted = deleted /\ mask.inserted = info.inserted
        /\ mask.constant_insert = info.constant_insert /\ mask.delete_state = "MASKED"
        /\ mask.recheck_compression = info.recheck_compression
    BY <1>1, <2>1, <2>2 DEF VectorInfos
  <2> HIDE DEF mask
  <2>4. DeletedRows(mask) = dead
    <3>1. \A r \in Rows : mask.deleted[r] # NOT_DELETED_ID <=> r \in dead
      BY <1>5, <2>3 DEF deleted
    <3>2. dead \subseteq Rows
      BY DEF DeletedRows
    <3> HIDE DEF dead
    <3> QED
      BY <3>1, <3>2 DEF DeletedRows
  <2> HIDE DEF dead
  <2>5. Shape(mask)
    BY <1>5, <2>3, <2>4 DEF Shape
  <2> QED
    BY <2>3, <2>5 DEF mask, deleted
<1>6. CASE info.delete_state # "ARRAY"
  <2>1. new = info
    BY <1>6 DEF CompressDeletes
  <2> QED
    BY <1>4, <2>1, Zenon
<1>7. CASE info.delete_state = "ARRAY" /\ dead = Rows /\ pending = {}
  <2>1. new = ConstantDelete(info, Max(ids))
    BY <1>7 DEF CompressDeletes
  <2>2. ids # {} /\ ids \subseteq 0 .. MAX_TRANSACTION_ID
    BY <1>2, <1>7, Constants
  <2>3. Max(ids) \in ids
    BY <2>2, Constants, GreatestOfNats
  <2>4. PICK s \in Rows : Max(ids) = info.deleted[s]
    BY <1>7, <2>3
  <2>5. /\ Shape(new) /\ new.deleted = [r \in Rows |-> info.deleted[s]] /\ new.inserted = info.inserted
        /\ new.constant_insert = info.constant_insert
        /\ new.recheck_compression = info.recheck_compression
    <3>1. PICK id \in Ids : id = info.deleted[s]
      BY <1>1
    <3>2. new = ConstantDelete(info, id)
      BY <2>1, <2>4, <3>1
    <3> HIDE DEF new
    <3> QED
      BY <3>1, <3>2, ConstantDeleteShape, ZenonT(60)
  <2>6. \A r \in Rows : info.deleted[r] # NOT_DELETED_ID /\ info.deleted[r] < lowest
    BY <1>2, <1>3, <1>7
  <2> HIDE DEF new
  <2>7. Compressed(info, new, lowest)
    BY <2>5, <2>6 DEF Compressed
  <2> QED
    BY <2>5, <2>7 DEF new
<1>8. CASE info.delete_state = "ARRAY" /\ dead = Rows /\ pending # {}
  <2>1. new = info
    BY <1>8 DEF CompressDeletes
  <2> QED
    BY <1>4, <2>1, Zenon
<1>9. CASE info.delete_state = "ARRAY" /\ dead # Rows /\ pending = {}
  <2>1. new = Masked(info, 0)
    BY <1>9 DEF CompressDeletes
  <2>2. dead # {} /\ 0 \in Ids /\ 0 # NOT_DELETED_ID
    BY <1>9, Constants DEF Shape
  <2>3. \A r \in Rows : r \in dead => info.deleted[r] # NOT_DELETED_ID /\ info.deleted[r] < lowest
    BY <1>2, <1>3, <1>9
  <2>4. /\ Shape(new) /\ new.inserted = info.inserted
        /\ new.constant_insert = info.constant_insert /\ new.recheck_compression
        /\ new.deleted = [r \in Rows |-> IF r \in dead THEN 0 ELSE NOT_DELETED_ID]
    BY <1>5, <1>9, <2>1, <2>2
  <2> HIDE DEF new, dead
  <2>5. ASSUME NEW r \in Rows, r \notin dead PROVE new.deleted[r] = info.deleted[r]
    BY <1>2, <2>4, <2>5
  <2>6. ASSUME NEW r \in Rows, r \in dead PROVE new.deleted[r] = 0
    BY <2>4, <2>6
  <2>7. Compressed(info, new, lowest)
    BY <2>3, <2>4, <2>5, <2>6 DEF Compressed
  <2> QED
    BY <2>4, <2>7 DEF new
<1>10. CASE info.delete_state = "ARRAY" /\ dead # Rows /\ pending # {}
  <2>1. new = IF Cardinality(ids) = 1 /\ ~uncommitted
              THEN Masked(info, CHOOSE id \in ids : TRUE) ELSE info
    BY <1>10 DEF CompressDeletes
  <2>2. CASE ~(Cardinality(ids) = 1 /\ ~uncommitted)
    <3>1. new = info
      BY <2>1, <2>2
    <3> QED
      BY <1>4, <3>1, Zenon
  <2>3. CASE Cardinality(ids) = 1 /\ ~uncommitted
    <3>1. dead # {}
      BY <1>10 DEF Shape
    <3>2. IsFiniteSet(ids)
      <4>1. IsFiniteSet(Ids)
        BY Constants, FS_Interval
      <4> QED
        BY <1>2, <4>1, FS_Subset
    <3>3. PICK id : ids = {id}
      BY <2>3, <3>2, FS_Singleton
    <3>4. id = (CHOOSE x \in ids : TRUE) /\ id \in Ids
      BY <1>2, <3>3
    <3>5. \A r \in Rows : r \in dead => info.deleted[r] = id
      BY <3>3
    <3>6. id # NOT_DELETED_ID
      <4>1. PICK r \in Rows : r \in dead
        BY <3>1 DEF DeletedRows
      <4> QED
        BY <1>2, <3>5, <4>1
    <3>7. new = Masked(info, id)
      BY <2>1, <2>3, <3>4
    <3>8. /\ Shape(new) /\ new.inserted = info.inserted
          /\ new.constant_insert = info.constant_insert /\ new.recheck_compression
          /\ new.deleted = [r \in Rows |-> IF r \in dead THEN id ELSE NOT_DELETED_ID]
      BY <1>5, <1>10, <3>1, <3>4, <3>6, <3>7
    <3> HIDE DEF new, dead
    <3>9. \A r \in Rows : new.deleted[r] = info.deleted[r]
      BY <1>2, <3>5, <3>8
    <3>10. Compressed(info, new, lowest)
      BY <3>8, <3>9 DEF Compressed
    <3> QED
      BY <3>8, <3>10 DEF new
  <2> QED
    BY <2>2, <2>3
<1> HIDE DEF dead, pending
<1> QED
  BY <1>6, <1>7, <1>8, <1>9, <1>10

\* The ids of a vector are compressed.
LEMMA CompressShape ==
    ASSUME NEW info, Shape(info), NEW lowest \in Ids
    PROVE  /\ Shape(CompressVersionIds(info, lowest))
           /\ Compressed(info, CompressVersionIds(info, lowest), lowest)
<1> DEFINE mid == CompressDeletes(info, lowest)
           both == CompressInserts(mid, lowest)
           new == CompressVersionIds(info, lowest)
<1>1. CASE ~info.recheck_compression
  <2>1. new = info
    BY <1>1 DEF CompressVersionIds
  <2>2. Compressed(info, info, lowest)
    BY DEF Compressed
  <2> QED
    BY <2>1, <2>2, Zenon
<1>2. CASE info.recheck_compression
  <2>1. /\ Shape(mid) /\ Compressed(info, mid, lowest) /\ mid.inserted = info.inserted
        /\ mid.constant_insert = info.constant_insert /\ mid.recheck_compression
    BY <1>2, CompressDeletesShape
  <2> HIDE DEF mid
  <2>2. mid \in VectorInfos
    BY <2>1 DEF Shape
  <2>3. /\ Shape(both) /\ both.deleted = mid.deleted /\ both.recheck_compression
        /\ \/ both.inserted = mid.inserted
           \/ (\A r \in Rows : mid.inserted[r] < lowest) /\ both.inserted = [r \in Rows |-> 0]
    <3>1. CASE ~mid.constant_insert /\ \A r \in Rows : mid.inserted[r] < lowest
      <4>1. both = [mid EXCEPT !.inserted = [r \in Rows |-> 0], !.constant_insert = TRUE]
        BY <3>1 DEF CompressInserts
      <4>2. /\ both \in VectorInfos /\ both.inserted = [r \in Rows |-> 0] /\ both.constant_insert
            /\ both.deleted = mid.deleted /\ both.delete_state = mid.delete_state
            /\ both.recheck_compression = mid.recheck_compression
        <5>1. [r \in Rows |-> 0] \in [Rows -> Ids]
          BY Constants
        <5> HIDE DEF both
        <5> QED
          BY <2>2, <4>1, <5>1 DEF VectorInfos
      <4> HIDE DEF both
      <4> QED
        BY <2>1, <3>1, <4>2, Constants DEF Shape, DeletedRows
    <3>2. CASE ~(~mid.constant_insert /\ \A r \in Rows : mid.inserted[r] < lowest)
      <4>1. both = mid
        BY <3>2 DEF CompressInserts
      <4> HIDE DEF both
      <4> QED
        BY <2>1, <4>1
    <3> QED
      BY <3>1, <3>2
  <2> HIDE DEF both
  <2>4. both \in VectorInfos
    BY <2>3 DEF Shape
  <2>5. new = [both EXCEPT !.recheck_compression = both.delete_state = "ARRAY" \/ ~both.constant_insert]
    BY <1>2 DEF CompressVersionIds, both, mid
  <2>6. /\ new \in VectorInfos /\ new.inserted = both.inserted /\ new.constant_insert = both.constant_insert
        /\ new.deleted = both.deleted /\ new.delete_state = both.delete_state
        /\ new.recheck_compression = (both.delete_state = "ARRAY" \/ ~both.constant_insert)
    BY <2>4, <2>5 DEF VectorInfos
  <2> HIDE DEF new
  <2>7. Shape(new)
    <3>1. ~new.recheck_compression => new.constant_insert /\ new.delete_state # "ARRAY"
      BY <2>6, Zenon
    <3>2. DeletedRows(new) = DeletedRows(both)
      BY <2>6 DEF DeletedRows
    <3> QED
      BY <2>3, <2>6, <3>1, <3>2 DEF Shape
  <2>8. Compressed(info, new, lowest)
    BY <2>1, <2>3, <2>6 DEF Compressed
  <2> QED
    BY <2>7, <2>8 DEF new
<1> QED
  BY <1>1, <1>2

-----------------------------------------------------------------------------
(* RowVersionManager *)

\* The fields of a RowVersionManager, and the vector that its operations work on.
LEMMA ManagerFields ==
    ASSUME NEW m, Good(m)
    PROVE  /\ m \in Managers
           /\ m.vector_info \in VectorInfos \cup {NoInfo} /\ m.needs_compression_check \in BOOLEAN
           /\ m.uncheckpointed_delete_commit \in Ids /\ m.storage \subseteq Rows
           /\ Shape(GetVectorInfo(m)) /\ GetVectorInfo(m) \in VectorInfos
           /\ m.vector_info # NoInfo => GetVectorInfo(m) = m.vector_info
           /\ m.vector_info = NoInfo => GetVectorInfo(m) = NewInfo(0)
<1>1. Shape(NewInfo(0))
  BY NewInfoShape, Constants
<1> QED
  BY <1>1 DEF Good, Managers, GetVectorInfo, Shape

\* A manager whose vector is set to info, with its check armed.
LEMMA Armed ==
    ASSUME NEW m, Good(m), NEW new \in Managers, NEW info, new.vector_info = info, Shape(info),
           new.needs_compression_check
    PROVE  Good(new) /\ new.vector_info # NoInfo /\ GetVectorInfo(new) = info
<1>1. info \in VectorInfos /\ info # NoInfo
  BY InfoFields DEF Shape
<1> QED
  BY <1>1 DEF Good, GetVectorInfo

\* What is the same, and what the ids of deletes are, after deletes of the rows R got the id.
Overlaid(m, new, id, R) ==
    /\ Good(new) /\ new.vector_info # NoInfo
    /\ new.storage = m.storage
    /\ new.uncheckpointed_delete_commit =
            IF m.uncheckpointed_delete_commit = Invalid \/ id > m.uncheckpointed_delete_commit
            THEN id ELSE m.uncheckpointed_delete_commit
    /\ GetVectorInfo(new).inserted = GetVectorInfo(m).inserted
    /\ GetVectorInfo(new).constant_insert = GetVectorInfo(m).constant_insert
    /\ GetVectorInfo(new).deleted =
            [r \in Rows |-> IF r \in R THEN id ELSE GetVectorInfo(m).deleted[r]]

\* One DeleteInfo gets an id.
LEMMA ManagerCommitDeleteStep ==
    ASSUME NEW m, Good(m), NEW id \in Ids, NEW del \in DeleteInfos
    PROVE  Overlaid(m, ManagerCommitDelete(m, id, del), id, del.rows)
<1>1. PICK info : info = CommitDelete(GetVectorInfo(m), id, del)
  OBVIOUS
<1>2. /\ Shape(info)
      /\ info.inserted = GetVectorInfo(m).inserted
      /\ info.constant_insert = GetVectorInfo(m).constant_insert
      /\ info.deleted = [r \in Rows |-> IF r \in del.rows THEN id ELSE GetVectorInfo(m).deleted[r]]
  BY <1>1, ManagerFields, CommitDeleteShape
<1>3. PICK new : new = ManagerCommitDelete(m, id, del)
  OBVIOUS
<1>4. m \in Managers /\ info \in VectorInfos
  BY <1>2, ManagerFields DEF Shape
<1>5. /\ new \in Managers /\ new.vector_info = info /\ new.needs_compression_check
      /\ new.storage = m.storage
      /\ new.uncheckpointed_delete_commit =
            IF m.uncheckpointed_delete_commit = Invalid \/ id > m.uncheckpointed_delete_commit
            THEN id ELSE m.uncheckpointed_delete_commit
  BY <1>1, <1>3, <1>4 DEF ManagerCommitDelete, Managers
<1>6. Good(new) /\ new.vector_info # NoInfo /\ GetVectorInfo(new) = info
  BY <1>2, <1>5, Armed
<1> QED
  BY <1>2, <1>3, <1>5, <1>6 DEF Overlaid

\* Two DeleteInfos, one after the other.
LEMMA OverlaidTwice ==
    ASSUME NEW m, Good(m), NEW mid, NEW new, NEW id \in Ids, NEW R, NEW S,
           Overlaid(m, mid, id, R), Overlaid(mid, new, id, S)
    PROVE  Overlaid(m, new, id, R \cup S)
<1>1. GetVectorInfo(new).deleted = [r \in Rows |-> IF r \in R \cup S THEN id ELSE GetVectorInfo(m).deleted[r]]
  BY DEF Overlaid
<1>2. m.uncheckpointed_delete_commit \in Nat /\ id \in Nat
  BY ManagerFields, Constants
<1>3. new.uncheckpointed_delete_commit =
            IF m.uncheckpointed_delete_commit = Invalid \/ id > m.uncheckpointed_delete_commit
            THEN id ELSE m.uncheckpointed_delete_commit
  BY <1>2, Constants DEF Overlaid
<1> QED
  BY <1>1, <1>3 DEF Overlaid

\* The rows of the first n of a list of DeleteInfos.
FirstRows(dels, n) == UNION {dels[i].rows : i \in 1 .. n}

\* The recursion of CommitDeletes.
DeletesStep(m, id, dels, f) ==
    [i \in 0 .. Len(dels) |-> IF i = 0 THEN m ELSE ManagerCommitDelete(f[i - 1], id, dels[i])]

\* There is a function that satisfies the recursion, up to every index: otherwise there is a
\* least one without it.
LEMMA DeletesStepExists ==
    ASSUME NEW m, NEW id, NEW dels, Len(dels) \in Nat
    PROVE  \E f : f = DeletesStep(m, id, dels, f)
<1> DEFINE Upto(f, k) == f = [i \in 0 .. k |-> IF i = 0 THEN m ELSE ManagerCommitDelete(f[i - 1], id, dels[i])]
           D == {k \in Nat : ~ \E f : Upto(f, k)}
<1>1. D = {}
  <2> SUFFICES ASSUME D # {} PROVE FALSE
    OBVIOUS
  <2>1. D \subseteq Nat
    OBVIOUS
  <2> HIDE DEF D
  <2>2. PICK k \in D : \A j \in D : ~(<<j, k>> \in OpToRel(<, Nat))
    BY <2>1, NatLessThanWellFounded, WFMin, Zenon
  <2>3. \A j \in D : ~(j < k)
    BY <2>1, <2>2 DEF OpToRel
  <2>4. k \in Nat /\ ~ \E f : Upto(f, k)
    BY DEF D
  <2>5. CASE k = 0
    <3>1. PICK f : f = [i \in 0 .. 0 |-> m]
      OBVIOUS
    <3>2. Upto(f, 0)
      <4>1. \A i \in 0 .. 0 : i = 0
        OBVIOUS
      <4> QED
        BY <3>1, <4>1
    <3> QED
      BY <2>4, <2>5, <3>2
  <2>6. CASE k # 0
    <3>1. k - 1 \in Nat /\ k - 1 < k
      BY <2>4, <2>6
    <3>2. k - 1 \notin D
      BY <2>3, <3>1
    <3>3. PICK g : Upto(g, k - 1)
      BY <3>1, <3>2 DEF D
    <3>4. PICK f : f = [i \in 0 .. k |-> IF i = k THEN ManagerCommitDelete(g[k - 1], id, dels[k]) ELSE g[i]]
      OBVIOUS
    <3>5. \A i \in 0 .. k : f[i] = IF i = 0 THEN m ELSE ManagerCommitDelete(f[i - 1], id, dels[i])
      <4> TAKE i \in 0 .. k
      <4>1. CASE i = k
        <5>1. f[k] = ManagerCommitDelete(g[k - 1], id, dels[k])
          BY <2>4, <3>4
        <5>2. f[k - 1] = g[k - 1]
          BY <2>4, <2>6, <3>1, <3>4
        <5> QED
          BY <2>6, <4>1, <5>1, <5>2
      <4>2. CASE i # k
        <5>1. i \in 0 .. k - 1 /\ (i # 0 => i - 1 \in 0 .. k - 1 /\ i - 1 \in 0 .. k /\ i - 1 # k)
          BY <2>4, <4>2
        <5>2. f[i] = g[i] /\ (i # 0 => f[i - 1] = g[i - 1])
          BY <3>4, <4>2, <5>1
        <5>3. g[i] = IF i = 0 THEN m ELSE ManagerCommitDelete(g[i - 1], id, dels[i])
          BY <3>3, <5>1
        <5> QED
          BY <5>2, <5>3
      <4> QED
        BY <4>1, <4>2
    <3>6. f = [i \in 0 .. k |-> f[i]]
      BY <3>4
    <3>7. Upto(f, k)
      BY <3>5, <3>6
    <3> QED
      BY <2>4, <3>7
  <2> QED
    BY <2>5, <2>6
<1>2. \E f : Upto(f, Len(dels))
  BY <1>1
<1> QED
  BY <1>2 DEF DeletesStep

\* What CommitDeletes makes of a manager: the deletes of all DeleteInfos have the id.  By
\* induction: otherwise there is a first DeleteInfo after which it is not so.
LEMMA CommitDeletesEffect ==
    ASSUME NEW m, Good(m), NEW id \in Ids, NEW dels \in Seq(DeleteInfos)
    PROVE  /\ dels = <<>> => CommitDeletes(m, id, dels) = m
           /\ dels # <<>> => Overlaid(m, CommitDeletes(m, id, dels), id, FirstRows(dels, Len(dels)))
<1>1. Len(dels) \in Nat /\ DOMAIN dels = 1 .. Len(dels) /\ \A i \in 1 .. Len(dels) : dels[i] \in DeleteInfos
  OBVIOUS
<1>2. CommitDeletes(m, id, dels) = (CHOOSE f : f = DeletesStep(m, id, dels, f))[Len(dels)]
  BY Zenon DEF CommitDeletes, DeletesStep
<1>3. PICK f : f = (CHOOSE g : g = DeletesStep(m, id, dels, g))
  OBVIOUS
<1>4. f = DeletesStep(m, id, dels, f)
  BY <1>1, <1>3, DeletesStepExists, Zenon
<1>5. CommitDeletes(m, id, dels) = f[Len(dels)]
  BY <1>2, <1>3, Zenon
<1>6. f[0] = m /\ \A i \in 1 .. Len(dels) : f[i] = ManagerCommitDelete(f[i - 1], id, dels[i])
  <2>1. \A i \in 0 .. Len(dels) : f[i] = IF i = 0 THEN m ELSE ManagerCommitDelete(f[i - 1], id, dels[i])
    BY <1>4 DEF DeletesStep
  <2> QED
    BY <1>1, <2>1
<1>7. \A k \in 1 .. Len(dels) : Overlaid(m, f[k], id, FirstRows(dels, k))
  <2> DEFINE D == {k \in 1 .. Len(dels) : ~Overlaid(m, f[k], id, FirstRows(dels, k))}
  <2> SUFFICES ASSUME D # {} PROVE FALSE
    OBVIOUS
  <2>1. D \subseteq Nat
    BY <1>1
  <2> HIDE DEF D
  <2>2. PICK k \in D : \A j \in D : ~(<<j, k>> \in OpToRel(<, Nat))
    BY <2>1, NatLessThanWellFounded, WFMin, Zenon
  <2>3. \A j \in D : ~(j < k)
    BY <2>1, <2>2 DEF OpToRel
  <2>4. k \in 1 .. Len(dels) /\ ~Overlaid(m, f[k], id, FirstRows(dels, k)) /\ dels[k] \in DeleteInfos
    BY <1>1 DEF D
  <2>5. f[k] = ManagerCommitDelete(f[k - 1], id, dels[k])
    BY <1>6, <2>4
  <2>6. CASE k = 1
    <3>1. Overlaid(m, f[1], id, dels[1].rows)
      BY <1>6, <2>4, <2>5, <2>6, ManagerCommitDeleteStep
    <3>2. FirstRows(dels, 1) = dels[1].rows
      <4>1. 1 .. 1 = {1}
        OBVIOUS
      <4> QED
        BY <4>1 DEF FirstRows
    <3> QED
      BY <2>4, <2>6, <3>1, <3>2
  <2>7. CASE k # 1
    <3>1. k - 1 \in 1 .. Len(dels) /\ k - 1 < k /\ 1 .. k = (1 .. k - 1) \cup {k}
      BY <1>1, <2>4, <2>7
    <3>2. Overlaid(m, f[k - 1], id, FirstRows(dels, k - 1))
      BY <2>3, <3>1 DEF D
    <3>3. Overlaid(f[k - 1], f[k], id, dels[k].rows)
      BY SMTT(30), <2>4, <2>5, <3>2, ManagerCommitDeleteStep DEF Overlaid
    <3>4. FirstRows(dels, k) = FirstRows(dels, k - 1) \cup dels[k].rows
      BY <3>1 DEF FirstRows
    <3> QED
      BY <2>4, <3>2, <3>3, <3>4, OverlaidTwice
  <2> QED
    BY <2>6, <2>7
<1>8. dels = <<>> => Len(dels) = 0
  OBVIOUS
<1>9. dels # <<>> => Len(dels) \in 1 .. Len(dels)
  BY <1>1, EmptySeq
<1> QED
  BY <1>5, <1>6, <1>7, <1>8, <1>9

\* An append gets insert ids.
AppendedTo(m, new, first, last, id) ==
    /\ Good(new) /\ new.vector_info # NoInfo
    /\ new.storage = m.storage
    /\ new.uncheckpointed_delete_commit = m.uncheckpointed_delete_commit
    /\ \/ GetVectorInfo(new).deleted = GetVectorInfo(m).deleted
       \/ first = 0 /\ GetVectorInfo(new).deleted = [r \in Rows |-> NOT_DELETED_ID]
    /\ first = 0 => /\ GetVectorInfo(new).inserted = [r \in Rows |-> id]
                    /\ GetVectorInfo(new).constant_insert
    /\ first # 0 /\ GetVectorInfo(m).inserted[0] # id =>
         /\ GetVectorInfo(new).inserted =
                 [r \in Rows |-> IF r \in first .. last THEN id ELSE GetVectorInfo(m).inserted[r]]
         /\ ~GetVectorInfo(new).constant_insert

\* AppendVersionInfo does that.
LEMMA AppendVersionInfoEffect ==
    ASSUME NEW m, Good(m), NEW id \in Ids, NEW first \in Rows, NEW last \in Rows
    PROVE  AppendedTo(m, AppendVersionInfo(m, first, last, id), first, last, id)
<1> USE DEF AppendedTo
<1>1. PICK info : info = IF first = 0 /\ last = VectorSize - 1 THEN NewInfo(id)
                         ELSE AppendIds(GetVectorInfo(m), first, last, id)
  OBVIOUS
<1>2. /\ Shape(info)
      /\ \/ info.deleted = GetVectorInfo(m).deleted
         \/ first = 0 /\ info.deleted = [r \in Rows |-> NOT_DELETED_ID]
      /\ first = 0 => info.inserted = [r \in Rows |-> id] /\ info.constant_insert
      /\ first # 0 /\ GetVectorInfo(m).inserted[0] # id =>
            /\ info.inserted = [r \in Rows |-> IF r \in first .. last THEN id ELSE GetVectorInfo(m).inserted[r]]
            /\ ~info.constant_insert
  <2>1. CASE first = 0 /\ last = VectorSize - 1
    BY <1>1, <2>1, NewInfoShape
  <2>2. CASE ~(first = 0 /\ last = VectorSize - 1)
    <3>1. info = AppendIds(GetVectorInfo(m), first, last, id)
      BY <1>1, <2>2
    <3>2. PICK old : old = GetVectorInfo(m)
      OBVIOUS
    <3>3. Shape(old) /\ info = AppendIds(old, first, last, id)
      BY <3>1, <3>2, ManagerFields
    <3>4. LET new == AppendIds(old, first, last, id)
          IN  /\ Shape(new) /\ new.deleted = old.deleted
              /\ first = 0 => new.inserted = [r \in Rows |-> id] /\ new.constant_insert
              /\ first # 0 /\ old.inserted[0] # id =>
                    /\ new.inserted = [r \in Rows |-> IF r \in first .. last THEN id ELSE old.inserted[r]]
                    /\ ~new.constant_insert
      BY <3>3, AppendIdsShape, ZenonT(30)
    <3> QED
      BY <3>2, <3>3, <3>4
  <2> QED
    BY <2>1, <2>2
<1>3. PICK new : new = AppendVersionInfo(m, first, last, id)
  OBVIOUS
<1>4. m \in Managers /\ info \in VectorInfos
  BY <1>2, ManagerFields DEF Shape
<1>5. /\ new \in Managers /\ new.vector_info = info /\ new.needs_compression_check
      /\ new.storage = m.storage
      /\ new.uncheckpointed_delete_commit = m.uncheckpointed_delete_commit
  BY <1>1, <1>3, <1>4 DEF AppendVersionInfo, Managers
<1>6. Good(new) /\ new.vector_info # NoInfo /\ GetVectorInfo(new) = info
  BY <1>2, <1>5, Armed
<1> QED
  BY <1>2, <1>3, <1>5, <1>6

\* An append gets its commit id.
AppendCommittedIn(m, new, id, first, last) ==
    /\ Good(new) /\ new.vector_info # NoInfo
    /\ new.storage = m.storage
    /\ new.uncheckpointed_delete_commit = m.uncheckpointed_delete_commit
    /\ GetVectorInfo(new).deleted = GetVectorInfo(m).deleted
    /\ GetVectorInfo(new).constant_insert = GetVectorInfo(m).constant_insert
    /\ GetVectorInfo(m).constant_insert => GetVectorInfo(new).inserted = [r \in Rows |-> id]
    /\ ~GetVectorInfo(m).constant_insert =>
         GetVectorInfo(new).inserted =
             [r \in Rows |-> IF r \in first .. last THEN id ELSE GetVectorInfo(m).inserted[r]]

\* ManagerCommitAppend does that.
LEMMA ManagerCommitAppendEffect ==
    ASSUME NEW m, Good(m), m.vector_info # NoInfo, NEW id \in Ids, NEW first, NEW last
    PROVE  AppendCommittedIn(m, ManagerCommitAppend(m, id, first, last), id, first, last)
<1> USE DEF AppendCommittedIn
<1>1. Shape(m.vector_info) /\ GetVectorInfo(m) = m.vector_info /\ m \in Managers
  BY ManagerFields
<1>2. PICK info : info = CommitAppend(m.vector_info, id, first, last)
  OBVIOUS
<1>3. /\ Shape(info) /\ info.deleted = m.vector_info.deleted
      /\ info.constant_insert = m.vector_info.constant_insert
      /\ info.recheck_compression = m.vector_info.recheck_compression
      /\ m.vector_info.constant_insert => info.inserted = [r \in Rows |-> id]
      /\ ~m.vector_info.constant_insert =>
            info.inserted = [r \in Rows |-> IF r \in first .. last THEN id ELSE m.vector_info.inserted[r]]
  <2>1. PICK old : old = m.vector_info
    OBVIOUS
  <2>2. Shape(old)
    BY <1>1, <2>1
  <2>3. AppendCommitted(old, info, id, first, last)
    BY <1>2, <2>1, <2>2, CommitAppendShape
  <2> QED
    BY <2>1, <2>3 DEF AppendCommitted
<1>4. PICK new : new = ManagerCommitAppend(m, id, first, last)
  OBVIOUS
<1>5. info \in VectorInfos /\ info # NoInfo
  BY <1>3, InfoFields DEF Shape
<1>6. /\ new \in Managers /\ new.vector_info = info
      /\ new.needs_compression_check = m.needs_compression_check
      /\ new.storage = m.storage
      /\ new.uncheckpointed_delete_commit = m.uncheckpointed_delete_commit
  BY <1>1, <1>2, <1>4, <1>5 DEF ManagerCommitAppend, Managers
<1>7. Good(new) /\ GetVectorInfo(new) = info
  BY <1>3, <1>5, <1>6 DEF Good, GetVectorInfo
<1> QED
  BY <1>1, <1>3, <1>4, <1>5, <1>6, <1>7

\* A manager that has lost its vector.
LEMMA WithoutVector ==
    ASSUME NEW m, Good(m)
    PROVE  LET new == [m EXCEPT !.vector_info = NoInfo]
           IN  /\ Good(new) /\ new.vector_info = NoInfo
               /\ new.storage = m.storage
               /\ new.uncheckpointed_delete_commit = m.uncheckpointed_delete_commit
               /\ GetVectorInfo(new) = NewInfo(0)
  BY ManagerFields DEF Good, Managers, GetVectorInfo

\* The cleanup of an append: it keeps the manager as it is, or drops a vector in which nothing is
\* deleted and every tested insert id is visible to all.
CleanedUp(m, new, lowest, first, last) ==
    \/ new = m
    \/ /\ Good(new) /\ new.vector_info = NoInfo /\ GetVectorInfo(new) = NewInfo(0)
       /\ new.storage = m.storage
       /\ new.uncheckpointed_delete_commit = m.uncheckpointed_delete_commit
       /\ last = VectorSize - 1
       /\ \A r \in Rows : GetVectorInfo(m).deleted[r] = NOT_DELETED_ID
       /\ \A r \in Rows : r # 0 \/ GetVectorInfo(m).constant_insert =>
                             GetVectorInfo(m).inserted[r] <= lowest

\* CleanupAppend does that.
LEMMA CleanupAppendEffect ==
    ASSUME NEW m, Good(m), NEW lowest, NEW first, NEW last
    PROVE  CleanedUp(m, CleanupAppend(m, lowest, first, last), lowest, first, last)
<1> USE DEF CleanedUp
<1>1. CASE ~(last = VectorSize - 1 /\ m.vector_info # NoInfo /\ Cleanup(m.vector_info, lowest))
  BY <1>1 DEF CleanupAppend
<1>2. CASE last = VectorSize - 1 /\ m.vector_info # NoInfo /\ Cleanup(m.vector_info, lowest)
  <2>1. CleanupAppend(m, lowest, first, last) = [m EXCEPT !.vector_info = NoInfo]
    BY <1>2 DEF CleanupAppend
  <2>2. Shape(m.vector_info) /\ GetVectorInfo(m) = m.vector_info
    BY <1>2, ManagerFields
  <2>3. PICK info : info = m.vector_info
    OBVIOUS
  <2>4. Shape(info) /\ ~AnyDeleted(info)
    BY <1>2, <2>2, <2>3 DEF Cleanup
  <2>5. \A r \in Rows : info.deleted[r] = NOT_DELETED_ID
    BY <2>4 DEF AnyDeleted, Shape
  <2>6. \A r \in Rows : r # 0 \/ info.constant_insert => info.inserted[r] <= lowest
    BY <1>2, <2>3 DEF Cleanup
  <2> QED
    BY <1>2, <2>1, <2>2, <2>3, <2>5, <2>6, WithoutVector
<1> QED
  BY <1>1, <1>2

\* An append is taken back: a vector that is empty again is dropped.
Reverted(m, new, new_count) ==
    /\ new_count # 0 => new = m
    /\ new_count = 0 => new.vector_info = NoInfo /\ GetVectorInfo(new) = NewInfo(0)
    /\ Good(new) /\ new.storage = m.storage
    /\ new.uncheckpointed_delete_commit = m.uncheckpointed_delete_commit

\* RevertAppend does that.
LEMMA RevertAppendEffect ==
    ASSUME NEW m, Good(m), NEW new_count
    PROVE  Reverted(m, RevertAppend(m, new_count), new_count)
  BY WithoutVector DEF RevertAppend, Reverted

\* A call of Delete.
DeletedIn(m, new, id, rows) ==
    /\ Good(new) /\ new.vector_info # NoInfo
    /\ new.storage = m.storage
    /\ new.uncheckpointed_delete_commit = m.uncheckpointed_delete_commit
    /\ GetVectorInfo(new) = Delete(GetVectorInfo(m), id, rows)
    /\ GetVectorInfo(new).inserted = GetVectorInfo(m).inserted
    /\ GetVectorInfo(new).constant_insert = GetVectorInfo(m).constant_insert

\* DeleteRows does that.
LEMMA DeleteRowsEffect ==
    ASSUME NEW m, Good(m), NEW id \in Ids, id # NOT_DELETED_ID,
           NEW n \in Nat \ {0}, NEW rows \in [1 .. n -> Rows]
    PROVE  DeletedIn(m, DeleteRows(m, id, rows), id, rows)
<1> USE DEF DeletedIn
<1>1. PICK info : info = Delete(GetVectorInfo(m), id, rows)
  OBVIOUS
<1>2. /\ Shape(info) /\ info.inserted = GetVectorInfo(m).inserted
      /\ info.constant_insert = GetVectorInfo(m).constant_insert
  BY <1>1, ManagerFields, DeleteShape
<1>3. PICK new : new = DeleteRows(m, id, rows)
  OBVIOUS
<1>4. m \in Managers /\ info \in VectorInfos
  BY <1>2, ManagerFields DEF Shape
<1>5. /\ new \in Managers /\ new.vector_info = info /\ new.needs_compression_check
      /\ new.storage = m.storage
      /\ new.uncheckpointed_delete_commit = m.uncheckpointed_delete_commit
  BY <1>1, <1>3, <1>4 DEF DeleteRows, Managers
<1>6. Good(new) /\ new.vector_info # NoInfo /\ GetVectorInfo(new) = info
  BY <1>2, <1>5, Armed
<1> QED
  BY <1>1, <1>2, <1>3, <1>5, <1>6

\* The compression of a manager.
CompressedIn(m, new, lowest) ==
    /\ Good(new)
    /\ new.vector_info = NoInfo <=> m.vector_info = NoInfo
    /\ new.storage = m.storage
    /\ new.uncheckpointed_delete_commit = m.uncheckpointed_delete_commit
    /\ Compressed(GetVectorInfo(m), GetVectorInfo(new), lowest)

\* ManagerCompressVersionIds does that.
LEMMA ManagerCompressEffect ==
    ASSUME NEW m, Good(m), NEW lowest \in Ids
    PROVE  CompressedIn(m, ManagerCompressVersionIds(m, lowest), lowest)
<1> USE DEF CompressedIn
<1>1. PICK new : new = ManagerCompressVersionIds(m, lowest)
  OBVIOUS
<1>2. Compressed(GetVectorInfo(m), GetVectorInfo(m), lowest)
  BY DEF Compressed
<1>3. m \in Managers
  BY ManagerFields
<1>4. CASE ~m.needs_compression_check
  <2>1. new = m
    BY <1>1, <1>4 DEF ManagerCompressVersionIds
  <2> QED
    BY <1>1, <1>2, <2>1
<1>5. CASE m.needs_compression_check /\ m.vector_info = NoInfo
  <2>1. new = [m EXCEPT !.needs_compression_check = FALSE]
    BY <1>1, <1>5 DEF ManagerCompressVersionIds
  <2>2. /\ new \in Managers /\ new.vector_info = m.vector_info /\ new.storage = m.storage
        /\ new.uncheckpointed_delete_commit = m.uncheckpointed_delete_commit
    BY <1>3, <2>1 DEF Managers
  <2>3. Good(new) /\ GetVectorInfo(new) = GetVectorInfo(m)
    BY <1>5, <2>2 DEF Good, GetVectorInfo
  <2> QED
    BY <1>1, <1>2, <2>2, <2>3
<1>6. CASE m.needs_compression_check /\ m.vector_info # NoInfo
  <2>1. PICK info : info = CompressVersionIds(m.vector_info, lowest)
    OBVIOUS
  <2>2. Shape(m.vector_info) /\ GetVectorInfo(m) = m.vector_info
    BY <1>6, ManagerFields
  <2>3. Shape(info) /\ Compressed(m.vector_info, info, lowest)
    BY <2>1, <2>2, CompressShape
  <2>4. info \in VectorInfos /\ info # NoInfo /\ info.recheck_compression \in BOOLEAN
    BY <2>3, InfoFields DEF Shape
  <2>5. new = [m EXCEPT !.vector_info = info, !.needs_compression_check = info.recheck_compression]
    BY <1>1, <1>6, <2>1 DEF ManagerCompressVersionIds
  <2>6. /\ new \in Managers /\ new.vector_info = info /\ new.storage = m.storage
        /\ new.uncheckpointed_delete_commit = m.uncheckpointed_delete_commit
        /\ new.needs_compression_check = info.recheck_compression
    BY <1>3, <2>4, <2>5 DEF Managers
  <2>7. Good(new) /\ GetVectorInfo(new) = info
    BY <2>3, <2>4, <2>6 DEF Good, GetVectorInfo
  <2> QED
    BY <1>1, <1>6, <2>2, <2>3, <2>4, <2>6, <2>7
<1> QED
  BY <1>3, <1>4, <1>5, <1>6 DEF Managers

\* A checkpoint writes the deletes: the ids stay.
WrittenIn(m, new, id) ==
    /\ Good(new) /\ new.vector_info = m.vector_info /\ GetVectorInfo(new) = GetVectorInfo(m)
    /\ m.uncheckpointed_delete_commit = Invalid => new = m
    /\ m.uncheckpointed_delete_commit # Invalid =>
        /\ new.storage = IF m.vector_info # NoInfo /\ HasDeletes(m.vector_info, id)
                         THEN Write(m.vector_info, id) ELSE {}
        /\ new.uncheckpointed_delete_commit =
                IF m.uncheckpointed_delete_commit <= id THEN Invalid
                ELSE m.uncheckpointed_delete_commit

\* ManagerCheckpoint does that.
LEMMA ManagerCheckpointEffect ==
    ASSUME NEW m, Good(m), NEW id \in Nat
    PROVE  WrittenIn(m, ManagerCheckpoint(m, id), id)
<1> USE DEF WrittenIn
<1>1. PICK new : new = ManagerCheckpoint(m, id)
  OBVIOUS
<1>2. PICK storage : storage = IF m.vector_info # NoInfo /\ HasDeletes(m.vector_info, id)
                               THEN Write(m.vector_info, id) ELSE {}
  OBVIOUS
<1>3. storage \subseteq Rows /\ m \in Managers
  BY <1>2, ManagerFields DEF Write
<1>4. CASE m.uncheckpointed_delete_commit = Invalid
  <2>1. new = m
    BY <1>1, <1>4 DEF ManagerCheckpoint
  <2> QED
    BY <1>1, <1>4, <2>1
<1>5. CASE m.uncheckpointed_delete_commit # Invalid
  <2>1. new = [m EXCEPT !.storage = storage,
                        !.uncheckpointed_delete_commit =
                            IF m.uncheckpointed_delete_commit <= id THEN Invalid
                            ELSE m.uncheckpointed_delete_commit]
    BY <1>1, <1>2, <1>3, <1>5 DEF ManagerCheckpoint, Managers
  <2>2. /\ new \in Managers /\ new.vector_info = m.vector_info /\ new.storage = storage
        /\ new.needs_compression_check = m.needs_compression_check
        /\ new.uncheckpointed_delete_commit =
                IF m.uncheckpointed_delete_commit <= id THEN Invalid ELSE m.uncheckpointed_delete_commit
    BY <1>3, <2>1, Constants DEF Managers
  <2>3. Good(new) /\ GetVectorInfo(new) = GetVectorInfo(m)
    BY <2>2 DEF Good, GetVectorInfo
  <2> QED
    BY <1>1, <1>2, <1>5, <2>2, <2>3
<1> QED
  BY <1>4, <1>5

\* A manager that is loaded: the stored deletes are there, with the id 0.
Deserialized(m, new) ==
    /\ Good(new) /\ new.storage = m.storage
    /\ new.uncheckpointed_delete_commit = Invalid
    /\ GetVectorInfo(new).inserted = [r \in Rows |-> 0]
    /\ GetVectorInfo(new).deleted =
             [r \in Rows |-> IF r \in m.storage THEN 0 ELSE NOT_DELETED_ID]

\* Deserialize does that.
LEMMA DeserializeEffect ==
    ASSUME NEW m, Good(m)
    PROVE  Deserialized(m, Deserialize(m))
<1> USE DEF Deserialized
<1>1. PICK new : new = Deserialize(m)
  OBVIOUS
<1>2. PICK deleted : deleted = [r \in Rows |-> IF r \in m.storage THEN 0 ELSE NOT_DELETED_ID]
  OBVIOUS
<1>3. deleted \in [Rows -> Ids] /\ 0 # NOT_DELETED_ID /\ 0 \in Rows
  BY <1>2, Constants
<1>4. PICK state : state = IF m.storage = Rows THEN "CONSTANT" ELSE "MASKED"
  OBVIOUS
<1>5. PICK info : info = [NewInfo(0) EXCEPT !.deleted = deleted, !.delete_state = state,
                                            !.recheck_compression = FALSE]
  OBVIOUS
<1>6. m \in Managers /\ m.storage \subseteq Rows
  BY ManagerFields
<1>7. /\ NewInfo(0) \in VectorInfos /\ NewInfo(0).inserted = [r \in Rows |-> 0]
      /\ NewInfo(0).constant_insert /\ NewInfo(0).deleted = [r \in Rows |-> NOT_DELETED_ID]
  BY NewInfoShape, Constants DEF Shape
<1>8. /\ info \in VectorInfos /\ info.inserted = [r \in Rows |-> 0] /\ info.constant_insert
      /\ info.deleted = deleted /\ info.delete_state = state /\ ~info.recheck_compression
  BY <1>3, <1>4, <1>5, <1>7 DEF VectorInfos
<1>9. DeletedRows(info) = m.storage
  BY <1>2, <1>3, <1>6, <1>8 DEF DeletedRows
<1>10. ASSUME m.storage # {} PROVE Shape(info)
  <2>1. CASE m.storage = Rows
    BY <1>2, <1>3, <1>4, <1>8, <2>1 DEF Shape
  <2>2. CASE m.storage # Rows
    BY <1>3, <1>4, <1>8, <1>9, <1>10, <2>2 DEF Shape
  <2> QED
    BY <2>1, <2>2
<1>11. new = [m EXCEPT !.vector_info = IF m.storage = {} THEN NoInfo ELSE info,
                       !.needs_compression_check = FALSE, !.uncheckpointed_delete_commit = Invalid]
  BY <1>1, <1>2, <1>4, <1>5 DEF Deserialize
<1>12. /\ new \in Managers /\ new.vector_info = IF m.storage = {} THEN NoInfo ELSE info
       /\ new.storage = m.storage /\ new.uncheckpointed_delete_commit = Invalid
  BY <1>6, <1>8, <1>11, Constants DEF Managers
<1>13. info # NoInfo
  BY <1>8, InfoFields
<1>14. CASE m.storage = {}
  <2>1. Good(new) /\ GetVectorInfo(new) = NewInfo(0)
    BY <1>12, <1>14 DEF Good, GetVectorInfo
  <2>2. deleted = [r \in Rows |-> NOT_DELETED_ID]
    BY <1>2, <1>14
  <2> QED
    BY <1>1, <1>2, <1>7, <1>12, <2>1, <2>2
<1>15. CASE m.storage # {}
  <2>1. Good(new) /\ GetVectorInfo(new) = info
    BY <1>8, <1>10, <1>12, <1>13, <1>15 DEF Good, GetVectorInfo
  <2> QED
    BY <1>1, <1>2, <1>8, <1>12, <2>1
<1> QED
  BY <1>14, <1>15


-----------------------------------------------------------------------------
(* The invariant *)

Types ==
    /\ current_start_timestamp \in Nat /\ current_start_timestamp >= 2
    /\ current_transaction_id \in Nat /\ current_transaction_id >= TRANSACTION_ID_START
    /\ last_commit \in Nat /\ last_commit < current_start_timestamp
    /\ lowest_active_start \in Ids /\ active_checkpoint \in Ids
    /\ status \in [Txns -> Statuses]
    /\ start_time \in [Txns -> Nat]
    /\ transaction_id \in [Txns -> {0} \cup TRANSACTION_ID_START .. NOT_DELETED_ID - 1]
    /\ undo_buffer \in [Txns -> Seq(DeleteInfos)]
    /\ append_info \in [Txns -> {<<>>} \cup (Rows \X Rows)]
    /\ cleanup \in [Txns -> Ids]
    /\ count \in 0 .. VectorSize
    /\ checkpoint \in Checkpoints
    /\ behaviours \subseteq AllBehaviours

Flushed(t) == status[t] = "flushed"
FirstRow(t) == append_info[t][1]
LastRow(t) == append_info[t][2]

\* The append of t is in the vector until t has been cleaned up or rolled back.  Between the flush
\* of the append and the end of the transaction it is the last one, it has a vector with ids, no
\* other transaction flushes and no checkpoint has an id.
Appended(t) ==
    append_info[t] # <<>> =>
        /\ FirstRow(t) <= LastRow(t) /\ LastRow(t) < count
        /\ Flushed(t) \/ (status[t] = "done" /\ cleanup[t] # NoCleanup)

LastAppend(t) ==
    Flushed(t) =>
        /\ append_info[t] # <<>> /\ LastRow(t) = count - 1
        /\ version_info.vector_info # NoInfo
        /\ checkpoint.pc \notin UnderWay
        /\ \A u \in Txns \ {t} :
            status[u] # "flushed" /\ (append_info[u] # <<>> => LastRow(u) < FirstRow(t))

\* A cleanup is what is left of a transaction that is done.
CleanupPending(t) == cleanup[t] # NoCleanup => status[t] = "done"

Appends == \A t \in Txns : Appended(t) /\ LastAppend(t) /\ CleanupPending(t)

\* Timestamps and ids are drawn by transactions and checkpoints, of which there are only so many.
Idles == {t \in Txns : status[t] = "idle"}
BindStarted == checkpoint.bind # 0 \/ (checkpoint.pc = "finishing" /\ checkpoint.statement)
BindEnded == checkpoint.bind = 0 /\ checkpoint.pc = "finishing" /\ checkpoint.statement
One(b) == IF b THEN 1 ELSE 0

Counters ==
    /\ current_start_timestamp + 2 * Cardinality(Idles) + Cardinality(Running)
            + 2 * checkpoint.left - One(BindStarted) - One(BindEnded)
         <= 2 + 2 * Cardinality(Txns) + 2 * MaxCheckpoints
    /\ current_transaction_id + Cardinality(Idles) + checkpoint.left - One(BindStarted)
         <= TRANSACTION_ID_START + Cardinality(Txns) + MaxCheckpoints
    /\ checkpoint.pc # "idle" => checkpoint.left > 0
    /\ checkpoint.bind # 0 => checkpoint.pc \in UnderWay /\ checkpoint.statement

\* The id of a checkpoint that is under way is the active checkpoint.
ActiveCheckpoint ==
    /\ checkpoint.pc \notin UnderWay => active_checkpoint = MAX_TRANSACTION_ID
    /\ checkpoint.pc \in UnderWay => active_checkpoint = checkpoint.id /\ checkpoint.id <= last_commit

ShapeInv == Types /\ Good(version_info) /\ Appends /\ Counters /\ ActiveCheckpoint

-----------------------------------------------------------------------------
(* Counting *)

\* The numbers of transactions that are idle and that run.
LEMMA Counts ==
    ASSUME Types
    PROVE  /\ IsFiniteSet(Idles) /\ IsFiniteSet(Running)
           /\ Cardinality(Idles) \in Nat /\ Cardinality(Running) \in Nat
<1>1. Idles \subseteq Txns /\ Running \subseteq Txns
  BY DEF Idles, Running
<1> QED
  BY <1>1, Constants, FS_Subset, FS_CardinalityType

\* A member leaves a finite set.
LEMMA OneLess ==
    ASSUME NEW S, NEW T, IsFiniteSet(S), NEW t \in S, T = S \ {t}
    PROVE  Cardinality(T) = Cardinality(S) - 1
  BY FS_RemoveElement, FS_CardinalityType

\* A member joins a finite set.
LEMMA OneMore ==
    ASSUME NEW S, NEW T, IsFiniteSet(S), NEW t, t \notin S, T = S \cup {t}
    PROVE  Cardinality(T) = Cardinality(S) + 1
  BY FS_AddElement, FS_CardinalityType

\* The clocks stay far below the ids that they must not be confused with.
LEMMA Bounds ==
    ASSUME ShapeInv
    PROVE  /\ current_start_timestamp \in 2 .. TRANSACTION_ID_START - 1
           /\ current_transaction_id \in TRANSACTION_ID_START .. NOT_DELETED_ID - 1
           /\ current_start_timestamp \in Ids /\ last_commit \in 0 .. TRANSACTION_ID_START - 1
           /\ \A t \in Txns : transaction_id[t] \in Ids /\ transaction_id[t] # NOT_DELETED_ID
<1>1. /\ checkpoint.left \in Nat /\ checkpoint.pc \in PCs
      /\ checkpoint.bind # 0 \/ checkpoint.pc = "finishing" => checkpoint.left > 0
  BY DEF ShapeInv, Types, Counters, Checkpoints, PCs, UnderWay
<1>2. /\ 2 * checkpoint.left - One(BindStarted) - One(BindEnded) >= 0
      /\ checkpoint.left - One(BindStarted) >= 0
      /\ One(BindStarted) \in {0, 1} /\ One(BindEnded) \in {0, 1}
  BY <1>1 DEF One, BindStarted, BindEnded
<1> DEFINE I == Cardinality(Idles)
           R == Cardinality(Running)
           N == Cardinality(Txns)
           left == checkpoint.left
           bs == One(BindStarted)
           be == One(BindEnded)
<1>3. I \in Nat /\ R \in Nat /\ N \in Nat
  BY Counts, Constants DEF ShapeInv
<1>4. /\ current_start_timestamp + 2 * I + R + 2 * left - bs - be <= 2 + 2 * N + 2 * MaxCheckpoints
      /\ current_transaction_id + I + left - bs <= TRANSACTION_ID_START + N + MaxCheckpoints
      /\ TRANSACTION_ID_START > 2 + 2 * N + 2 * MaxCheckpoints
  BY ConstantsAssumption DEF ShapeInv, Counters
<1>5. current_start_timestamp \in Nat /\ current_transaction_id \in Nat
      /\ current_start_timestamp >= 2 /\ current_transaction_id >= TRANSACTION_ID_START
      /\ last_commit \in Nat /\ last_commit < current_start_timestamp
      /\ transaction_id \in [Txns -> {0} \cup TRANSACTION_ID_START .. NOT_DELETED_ID - 1]
  BY DEF ShapeInv, Types
<1>6. MaxCheckpoints \in Nat /\ TRANSACTION_ID_START \in Nat /\ NOT_DELETED_ID = 2 * TRANSACTION_ID_START
  BY Constants
<1> HIDE DEF I, R, N, left, bs, be
<1>7. bs \in {0, 1} /\ be \in {0, 1} /\ left \in Nat /\ 2 * left - bs - be >= 0 /\ left - bs >= 0
  BY <1>1, <1>2 DEF bs, be, left
<1>8. current_start_timestamp <= TRANSACTION_ID_START - 1
  BY <1>3, <1>4, <1>5, <1>6, <1>7
<1>9. current_transaction_id <= NOT_DELETED_ID - 1
  BY <1>3, <1>4, <1>5, <1>6, <1>7
<1>10. /\ current_start_timestamp \in 2 .. TRANSACTION_ID_START - 1
       /\ current_transaction_id \in TRANSACTION_ID_START .. NOT_DELETED_ID - 1
       /\ last_commit \in 0 .. TRANSACTION_ID_START - 1
  BY <1>5, <1>6, <1>8, <1>9
<1>11. current_start_timestamp \in Ids
  BY <1>10, Constants
<1>12. ASSUME NEW t \in Txns PROVE transaction_id[t] \in Ids /\ transaction_id[t] # NOT_DELETED_ID
  BY <1>5, Constants
<1> QED
  BY <1>10, <1>11, <1>12

\* The bind transaction of a checkpoint.
LEMMA BindValues ==
    ASSUME Types
    PROVE  /\ checkpoint.left \in Nat /\ checkpoint.bind \in Nat /\ checkpoint.pc \in PCs
           /\ checkpoint.statement \in BOOLEAN /\ checkpoint.id \in Nat /\ checkpoint.lowest \in Ids
           /\ checkpoint.type \in {"none", "full", "concurrent"}
           /\ checkpoint.rows \subseteq Rows
           /\ One(BindStarted) \in {0, 1} /\ One(BindEnded) \in {0, 1}
  BY DEF Types, Checkpoints, One

\* The counts change with the status of a transaction, and the clocks with them.
LEMMA StatusCounts ==
    ASSUME Types, NEW t \in Txns, NEW s \in Statuses, status' = [status EXCEPT ![t] = s]
    PROVE  /\ status[t] = "idle" /\ s = "active" =>
                /\ Cardinality(Idles') = Cardinality(Idles) - 1
                /\ Cardinality(Running') = Cardinality(Running) + 1
                /\ Cardinality(Idles) >= 1
           /\ t \in Running /\ s \in {"active", "invalidated", "flushed"} =>
                Idles' = Idles /\ Running' = Running
           /\ t \in Running /\ s = "done" =>
                /\ Idles' = Idles /\ Running' = Running \ {t}
                /\ Cardinality(Running') = Cardinality(Running) - 1
<1> status \in [Txns -> Statuses] /\ status'[t] = s /\ \A u \in Txns \ {t} : status'[u] = status[u]
  BY DEF Types
<1>1. ASSUME status[t] = "idle", s = "active"
      PROVE  /\ Cardinality(Idles') = Cardinality(Idles) - 1
             /\ Cardinality(Running') = Cardinality(Running) + 1
             /\ Cardinality(Idles) >= 1
  <2>1. /\ t \in Idles /\ Idles' = Idles \ {t}
        /\ t \notin Running /\ Running' = Running \cup {t}
    BY <1>1 DEF Idles, Running
  <2>2. Cardinality(Idles') = Cardinality(Idles) - 1 /\ Cardinality(Running') = Cardinality(Running) + 1
    BY <2>1, Counts, OneLess, OneMore
  <2>3. Cardinality(Idles) # 0
    BY <2>1, Counts, FS_EmptySet
  <2> QED
    BY <2>2, <2>3, Counts
<1>2. ASSUME t \in Running, s \in {"active", "invalidated", "flushed"}
      PROVE  Idles' = Idles /\ Running' = Running
  BY <1>2 DEF Idles, Running
<1>3. ASSUME t \in Running, s = "done"
      PROVE  /\ Idles' = Idles /\ Running' = Running \ {t}
             /\ Cardinality(Running') = Cardinality(Running) - 1
  <2>1. Idles' = Idles /\ Running' = Running \ {t}
    BY <1>3 DEF Idles, Running
  <2> QED
    BY <1>3, <2>1, Counts, OneLess
<1> QED
  BY <1>1, <1>2, <1>3

\* The arithmetic of a step: more is drawn from the clocks only as the counts go down.
LEMMA CountersStep ==
    ASSUME Types, Counters, Types',
           NEW dS \in Nat, NEW dT \in Nat,
           current_start_timestamp' <= current_start_timestamp + dS,
           current_transaction_id' <= current_transaction_id + dT,
           2 * Cardinality(Idles') + Cardinality(Running') + 2 * checkpoint'.left
                - One(BindStarted)' - One(BindEnded)' + dS
             <= 2 * Cardinality(Idles) + Cardinality(Running) + 2 * checkpoint.left
                - One(BindStarted) - One(BindEnded),
           Cardinality(Idles') + checkpoint'.left - One(BindStarted)' + dT
             <= Cardinality(Idles) + checkpoint.left - One(BindStarted),
           checkpoint'.pc # "idle" => checkpoint'.left > 0,
           checkpoint'.bind # 0 => checkpoint'.pc \in UnderWay /\ checkpoint'.statement
    PROVE  Counters'
<1> PICK I, R, L, s, e, ts, id : /\ I = Cardinality(Idles) /\ R = Cardinality(Running) /\ L = checkpoint.left
                              /\ s = One(BindStarted) /\ e = One(BindEnded)
                              /\ ts = current_start_timestamp /\ id = current_transaction_id
  OBVIOUS
<1> PICK I1, R1, L1, s1, e1, ts1, id1 :
            /\ I1 = Cardinality(Idles') /\ R1 = Cardinality(Running') /\ L1 = checkpoint'.left
            /\ s1 = One(BindStarted)' /\ e1 = One(BindEnded)'
            /\ ts1 = current_start_timestamp' /\ id1 = current_transaction_id'
  OBVIOUS
<1> PICK N : N = Cardinality(Txns) /\ N \in Nat
  BY Constants
<1>1. I \in Nat /\ R \in Nat /\ L \in Nat /\ s \in {0, 1} /\ e \in {0, 1} /\ ts \in Nat /\ id \in Nat
  BY Counts, BindValues DEF Types
<1>2. /\ s1 \in {0, 1} /\ e1 \in {0, 1}
      /\ ts1 \in Nat /\ id1 \in Nat /\ L1 \in Nat
  BY DEF Types, Checkpoints, One
<1>3. I1 \in Nat /\ R1 \in Nat
  <2>1. Idles' \subseteq Txns /\ Running' \subseteq Txns
    BY DEF Idles, Running
  <2> QED
    BY <2>1, Constants, FS_Subset, FS_CardinalityType
<1>4. /\ ts + 2 * I + R + 2 * L - s - e <= 2 + 2 * N + 2 * MaxCheckpoints
      /\ id + I + L - s <= TRANSACTION_ID_START + N + MaxCheckpoints
  BY DEF Counters
<1>5. /\ ts1 <= ts + dS /\ id1 <= id + dT
      /\ 2 * I1 + R1 + 2 * L1 - s1 - e1 + dS <= 2 * I + R + 2 * L - s - e
      /\ I1 + L1 - s1 + dT <= I + L - s
  OBVIOUS
<1>6. MaxCheckpoints \in Nat /\ TRANSACTION_ID_START \in Nat
  BY Constants
<1>7. ts1 + 2 * I1 + R1 + 2 * L1 - s1 - e1 <= 2 + 2 * N + 2 * MaxCheckpoints
  <2> HIDE DEF Types
  <2> QED
    BY <1>1, <1>2, <1>3, <1>4, <1>5, <1>6
<1>8. id1 + I1 + L1 - s1 <= TRANSACTION_ID_START + N + MaxCheckpoints
  BY <1>1, <1>2, <1>3, <1>4, <1>5, <1>6
<1> QED
  BY <1>7, <1>8 DEF Counters

\* The least of some start times and of TRANSACTION_ID_START is an id.
LEMMA LowestType ==
    ASSUME NEW S, S \subseteq Nat, TRANSACTION_ID_START \in S
    PROVE  /\ Min(S) \in Ids /\ Min(S) <= TRANSACTION_ID_START /\ Min(S) # NoCleanup
           /\ Min(S) \in S /\ \A x \in S : Min(S) <= x
<1>1. Min(S) \in S /\ Min(S) <= TRANSACTION_ID_START /\ \A x \in S : Min(S) <= x
  BY LeastOfNats
<1>2. Min(S) \in Nat
  BY <1>1
<1> QED
  BY <1>1, <1>2, Constants

\* LowestStartTime is one.
LEMMA LowestStartTimeType ==
    ASSUME Types, NEW t \in Txns
    PROVE  /\ LowestStartTime(t) \in Ids /\ LowestStartTime(t) <= TRANSACTION_ID_START
           /\ LowestStartTime(t) # NoCleanup
           /\ LowestStartTime(t) <= active_checkpoint
           /\ \A u \in Running \ {t} : LowestStartTime(t) <= start_time[u]
           /\ checkpoint.bind # 0 => LowestStartTime(t) <= checkpoint.bind
<1> DEFINE S == {TRANSACTION_ID_START, active_checkpoint}
                 \cup {start_time[u] : u \in Running \ {t}} \cup ({checkpoint.bind} \ {0})
<1>1. S \subseteq Nat /\ TRANSACTION_ID_START \in S
  BY Constants, BindValues, ZenonT(60) DEF Types, Running
<1>2. LowestStartTime(t) = Min(S)
  BY DEF LowestStartTime
<1>3. /\ active_checkpoint \in S /\ \A u \in Running \ {t} : start_time[u] \in S
      /\ checkpoint.bind # 0 => checkpoint.bind \in S
  OBVIOUS
<1> HIDE DEF S
<1> QED
  BY <1>1, <1>2, <1>3, LowestType

\* The operations on sequences of DeleteInfos.
LEMMA ReversedDeletes ==
    ASSUME NEW s \in Seq(DeleteInfos)
    PROVE  /\ Reverse(s) \in Seq(DeleteInfos) /\ Len(Reverse(s)) = Len(s)
           /\ Reverse(s) = <<>> <=> s = <<>>
           /\ FirstRows(Reverse(s), Len(Reverse(s))) = FirstRows(s, Len(s))
<1>1. Len(s) \in Nat /\ s = [i \in 1 .. Len(s) |-> s[i]] /\ \A i \in 1 .. Len(s) : s[i] \in DeleteInfos
  OBVIOUS
<1>2. Reverse(s) = [i \in 1 .. Len(s) |-> s[(Len(s) - i) + 1]]
  BY DEF Reverse
<1>3. \A i \in 1 .. Len(s) : (Len(s) - i) + 1 \in 1 .. Len(s)
  BY <1>1
<1>4. Reverse(s) \in [1 .. Len(s) -> DeleteInfos]
  BY <1>1, <1>2, <1>3
<1>5. Reverse(s) \in Seq(DeleteInfos) /\ Len(Reverse(s)) = Len(s)
  BY <1>1, <1>4
<1>6. Reverse(s) = <<>> <=> s = <<>>
  BY <1>5
<1>7. ASSUME NEW r PROVE r \in FirstRows(Reverse(s), Len(s)) <=> r \in FirstRows(s, Len(s))
  <2>1. ASSUME NEW i \in 1 .. Len(s), r \in Reverse(s)[i].rows
        PROVE  \E j \in 1 .. Len(s) : r \in s[j].rows
    BY <1>2, <1>3, <2>1
  <2>2. ASSUME NEW j \in 1 .. Len(s), r \in s[j].rows
        PROVE  \E i \in 1 .. Len(s) : r \in Reverse(s)[i].rows
    <3>1. (Len(s) - j) + 1 \in 1 .. Len(s) /\ (Len(s) - ((Len(s) - j) + 1)) + 1 = j
      BY <1>1
    <3> QED
      BY <1>2, <2>2, <3>1
  <2> QED
    BY <2>1, <2>2 DEF FirstRows
<1>8. FirstRows(Reverse(s), Len(s)) = FirstRows(s, Len(s))
  BY <1>7
<1> QED
  BY <1>5, <1>6, <1>8

\* The rows of the DeleteInfos of t.
LEMMA DeletedRowsOf ==
    ASSUME Types, NEW t \in Txns
    PROVE  /\ undo_buffer[t] \in Seq(DeleteInfos)
           /\ FirstRows(undo_buffer[t], Len(undo_buffer[t])) = DeletedBy(t)
           /\ DeletedBy(t) \subseteq Rows
           /\ undo_buffer[t] # <<>> => DeletedBy(t) # {}
           /\ undo_buffer[t] = <<>> => DeletedBy(t) = {}
<1>1. undo_buffer[t] \in Seq(DeleteInfos)
  BY DEF Types
<1>2. DOMAIN undo_buffer[t] = 1 .. Len(undo_buffer[t]) /\ Len(undo_buffer[t]) \in Nat
  BY <1>1
<1>3. \A i \in 1 .. Len(undo_buffer[t]) : undo_buffer[t][i] \in DeleteInfos
  BY <1>1
<1>4. FirstRows(undo_buffer[t], Len(undo_buffer[t])) = DeletedBy(t)
  BY <1>2 DEF FirstRows, DeletedBy
<1>5. DeletedBy(t) \subseteq Rows
  BY <1>2, <1>3 DEF DeletedBy, DeleteInfos
<1>6. ASSUME undo_buffer[t] # <<>> PROVE DeletedBy(t) # {}
  <2>1. 1 \in 1 .. Len(undo_buffer[t])
    BY <1>1, <1>6
  <2>2. undo_buffer[t][1].rows # {}
    BY <1>3, <2>1 DEF DeleteInfos
  <2> QED
    BY <1>2, <2>1, <2>2 DEF DeletedBy
<1>7. ASSUME undo_buffer[t] = <<>> PROVE DeletedBy(t) = {}
  <2>1. DOMAIN undo_buffer[t] = {}
    BY <1>2, <1>7
  <2> QED
    BY <2>1 DEF DeletedBy
<1> QED
  BY <1>1, <1>4, <1>5, <1>6, <1>7

-----------------------------------------------------------------------------
(* The end of a transaction *)

\* What the commit of t with an id makes of the ids.
CommitOf(new, t, id) ==
    LET old == GetVectorInfo(version_info)
        info == GetVectorInfo(new)
    IN  /\ Good(new) /\ new.storage = version_info.storage
        /\ version_info.vector_info # NoInfo \/ undo_buffer[t] # <<>> => new.vector_info # NoInfo
        /\ undo_buffer[t] = <<>> /\ append_info[t] = <<>> => new = version_info
        /\ new.uncheckpointed_delete_commit =
                IF undo_buffer[t] # <<>> /\ (\/ version_info.uncheckpointed_delete_commit = Invalid
                                             \/ id > version_info.uncheckpointed_delete_commit)
                THEN id ELSE version_info.uncheckpointed_delete_commit
        /\ info.deleted = [r \in Rows |-> IF r \in DeletedBy(t) THEN id ELSE old.deleted[r]]
        /\ info.constant_insert = old.constant_insert
        /\ append_info[t] = <<>> => info.inserted = old.inserted
        /\ append_info[t] # <<>> =>
            /\ old.constant_insert => info.inserted = [r \in Rows |-> id]
            /\ ~old.constant_insert =>
                info.inserted = [r \in Rows |-> IF r \in FirstRow(t) .. LastRow(t)
                                                THEN id ELSE old.inserted[r]]

\* The DeleteInfos of t get an id.
DeletesDone(m, new, t, id) ==
    /\ Good(new) /\ new.storage = m.storage
    /\ m.vector_info # NoInfo \/ undo_buffer[t] # <<>> => new.vector_info # NoInfo
    /\ undo_buffer[t] = <<>> => new = m
    /\ new.uncheckpointed_delete_commit =
         IF undo_buffer[t] # <<>> /\ (\/ m.uncheckpointed_delete_commit = Invalid
                                      \/ id > m.uncheckpointed_delete_commit)
         THEN id ELSE m.uncheckpointed_delete_commit
    /\ GetVectorInfo(new).deleted =
         [r \in Rows |-> IF r \in DeletedBy(t) THEN id ELSE GetVectorInfo(m).deleted[r]]
    /\ GetVectorInfo(new).constant_insert = GetVectorInfo(m).constant_insert
    /\ GetVectorInfo(new).inserted = GetVectorInfo(m).inserted

\* CommitDeletes does that for the undo buffer of t, in either order.
LEMMA DeletesOf ==
    ASSUME Types, NEW t \in Txns, NEW m, Good(m), NEW id \in Ids, NEW dels \in Seq(DeleteInfos),
           dels = <<>> <=> undo_buffer[t] = <<>>, FirstRows(dels, Len(dels)) = DeletedBy(t)
    PROVE  DeletesDone(m, CommitDeletes(m, id, dels), t, id)
<1> USE DEF DeletesDone
<1> DEFINE new == CommitDeletes(m, id, dels)
<1>1. /\ dels = <<>> => new = m
      /\ dels # <<>> => Overlaid(m, new, id, DeletedBy(t))
  BY CommitDeletesEffect
<1> PICK old : old = GetVectorInfo(m)
  OBVIOUS
<1>2. old \in VectorInfos /\ old.deleted \in [Rows -> Ids]
  BY ManagerFields, InfoFields
<1> HIDE DEF new
<1>3. CASE dels = <<>>
  <2>1. new = m /\ undo_buffer[t] = <<>> /\ DeletedBy(t) = {}
    BY <1>1, <1>3, DeletedRowsOf
  <2>2. old.deleted = [r \in Rows |-> IF r \in DeletedBy(t) THEN id ELSE old.deleted[r]]
    BY <1>2, <2>1
  <2> QED
    BY <2>1, <2>2 DEF new
<1>4. CASE dels # <<>>
  <2>1. Overlaid(m, new, id, DeletedBy(t)) /\ undo_buffer[t] # <<>>
    BY <1>1, <1>4
  <2> QED
    BY <2>1 DEF Overlaid, new
<1> QED
  BY <1>3, <1>4

\* The commit of t.
LEMMA ApplyCommitEffect ==
    ASSUME ShapeInv, NEW t \in Txns, NEW id \in Ids, append_info[t] # <<>> => Flushed(t)
    PROVE  CommitOf(ApplyCommit(version_info, t, id), t, id)
<1> PICK m : m = version_info
  OBVIOUS
<1> PICK mid : mid = CommitDeletes(m, id, undo_buffer[t])
  OBVIOUS
<1> PICK first, last : first = FirstRow(t) /\ last = LastRow(t)
  OBVIOUS
<1>1. Good(m) /\ Types
  BY DEF ShapeInv
<1>2. DeletesDone(m, mid, t, id)
  BY <1>1, DeletesOf, DeletedRowsOf
<1>3. CASE append_info[t] = <<>>
  <2>1. ApplyCommit(version_info, t, id) = mid
    BY <1>3 DEF ApplyCommit
  <2> QED
    BY <1>2, <1>3, <2>1 DEF CommitOf, DeletesDone
<1>4. CASE append_info[t] # <<>>
  <2> PICK new : new = ManagerCommitAppend(mid, id, first, last)
    OBVIOUS
  <2>1. ApplyCommit(version_info, t, id) = new
    BY <1>4 DEF ApplyCommit, FirstRow, LastRow
  <2>2. m.vector_info # NoInfo
    BY <1>4 DEF ShapeInv, Appends, LastAppend
  <2>3. Good(mid) /\ mid.vector_info # NoInfo
    BY <1>2, <2>2 DEF DeletesDone
  <2>4. AppendCommittedIn(mid, new, id, first, last)
    BY <2>3, ManagerCommitAppendEffect
  <2>5. CommitOf(new, t, id)
    BY <1>2, <1>4, <2>4 DEF CommitOf, DeletesDone, AppendCommittedIn
  <2> QED
    BY <2>1, <2>5
<1> QED
  BY <1>3, <1>4

\* What the rollback of t makes of the manager m.
RollbackOf(m, new, t) ==
    LET old == GetVectorInfo(m)
        info == GetVectorInfo(new)
        dropped == append_info[t] # <<>> /\ FirstRow(t) = 0
    IN  /\ Good(new) /\ new.storage = m.storage
        /\ m.vector_info # NoInfo /\ append_info[t] = <<>> => new.vector_info # NoInfo
        /\ new.uncheckpointed_delete_commit =
                IF undo_buffer[t] # <<>> /\ (\/ m.uncheckpointed_delete_commit = Invalid
                                             \/ NOT_DELETED_ID > m.uncheckpointed_delete_commit)
                THEN NOT_DELETED_ID ELSE m.uncheckpointed_delete_commit
        /\ dropped => /\ info.inserted = [r \in Rows |-> 0]
                      /\ info.deleted = [r \in Rows |-> NOT_DELETED_ID]
                      /\ info.constant_insert
        /\ ~dropped =>
            /\ info.inserted = old.inserted /\ info.constant_insert = old.constant_insert
            /\ info.deleted = [r \in Rows |-> IF r \in DeletedBy(t) THEN NOT_DELETED_ID ELSE old.deleted[r]]

\* The rollback of t.
LEMMA ApplyRollbackEffect ==
    ASSUME Types, NEW t \in Txns, NEW m, Good(m)
    PROVE  RollbackOf(m, ApplyRollback(m, t), t)
<1> PICK first : first = FirstRow(t)
  OBVIOUS
<1> PICK mid : mid = IF append_info[t] = <<>> THEN m ELSE RevertAppend(m, first)
  OBVIOUS
<1> PICK dels : dels = Reverse(undo_buffer[t])
  OBVIOUS
<1> PICK new : new = CommitDeletes(mid, NOT_DELETED_ID, dels)
  OBVIOUS
<1>1. ApplyRollback(m, t) = new
  BY DEF ApplyRollback, FirstRow
<1>2. /\ dels \in Seq(DeleteInfos) /\ (dels = <<>> <=> undo_buffer[t] = <<>>)
      /\ FirstRows(dels, Len(dels)) = DeletedBy(t)
  BY DeletedRowsOf, ReversedDeletes
<1>3. /\ append_info[t] = <<>> \/ first # 0 => mid = m
      /\ append_info[t] # <<>> /\ first = 0 => mid.vector_info = NoInfo /\ GetVectorInfo(mid) = NewInfo(0)
      /\ Good(mid) /\ mid.storage = m.storage
      /\ mid.uncheckpointed_delete_commit = m.uncheckpointed_delete_commit
  <2>1. CASE append_info[t] = <<>>
    BY <2>1
  <2>2. CASE append_info[t] # <<>>
    <3>1. mid = RevertAppend(m, first)
      BY <2>2
    <3> QED
      BY <2>2, <3>1, RevertAppendEffect DEF Reverted
  <2> QED
    BY <2>1, <2>2
<1>4. NOT_DELETED_ID \in Ids
  BY Constants
<1>5. DeletesDone(mid, new, t, NOT_DELETED_ID)
  <2>1. PICK id \in Ids : id = NOT_DELETED_ID
    BY <1>4
  <2>2. Good(mid)
    BY <1>3
  <2>3. DeletesDone(mid, CommitDeletes(mid, id, dels), t, id)
    BY <1>2, <2>2, DeletesOf
  <2> QED
    BY <2>1, <2>3
<1>6. CASE append_info[t] = <<>> \/ first # 0
  <2>1. mid = m
    BY <1>3, <1>6
  <2> QED
    BY <1>1, <1>5, <1>6, <2>1 DEF RollbackOf, DeletesDone
<1>7. CASE append_info[t] # <<>> /\ first = 0
  <2> PICK info : info = GetVectorInfo(new)
    OBVIOUS
  <2>1. GetVectorInfo(mid) = NewInfo(0)
    BY <1>3, <1>7
  <2>2. /\ NewInfo(0).inserted = [r \in Rows |-> 0] /\ NewInfo(0).constant_insert = TRUE
        /\ NewInfo(0).deleted = [r \in Rows |-> NOT_DELETED_ID]
    BY DEF NewInfo
  <2>3. info.inserted = [r \in Rows |-> 0] /\ info.constant_insert = TRUE
    BY <1>5, <2>1, <2>2 DEF DeletesDone
  <2>4. info.deleted = [r \in Rows |-> IF r \in DeletedBy(t) THEN NOT_DELETED_ID
                                       ELSE [s \in Rows |-> NOT_DELETED_ID][r]]
    BY <1>5, <2>1, <2>2 DEF DeletesDone
  <2>5. info.deleted = [r \in Rows |-> NOT_DELETED_ID]
    BY <2>4
  <2> QED
    BY <1>1, <1>3, <1>5, <1>7, <2>3, <2>5 DEF RollbackOf, DeletesDone
<1> QED
  BY <1>6, <1>7

\* What a failed flush makes of the ids: the deletes are undone; the append is dropped if the
\* vector is empty again, otherwise it keeps the commit id.
FlushFailedOf(new, t, id) ==
    LET old == GetVectorInfo(version_info)
        info == GetVectorInfo(new)
    IN  /\ Good(new) /\ new.storage = version_info.storage
        /\ FirstRow(t) = 0 => /\ info.inserted = [r \in Rows |-> 0]
                              /\ info.deleted = [r \in Rows |-> NOT_DELETED_ID]
                              /\ info.constant_insert
        /\ FirstRow(t) # 0 =>
            /\ info.deleted = [r \in Rows |-> IF r \in DeletedBy(t) THEN NOT_DELETED_ID ELSE old.deleted[r]]
            /\ info.constant_insert = old.constant_insert
            /\ old.constant_insert => info.inserted = [r \in Rows |-> id]
            /\ ~old.constant_insert =>
                info.inserted = [r \in Rows |-> IF r \in FirstRow(t) .. LastRow(t)
                                                THEN id ELSE old.inserted[r]]

\* The flush of the WAL fails.
LEMMA FlushFailsEffect ==
    ASSUME ShapeInv, NEW t \in Txns, Flushed(t), NEW id \in Ids,
           NEW new, new = ApplyRollback(RevertAppend(CommitDeletes(ApplyCommit(version_info, t, id),
                                            transaction_id[t], undo_buffer[t]), append_info[t][1]), t)
    PROVE  FlushFailedOf(new, t, id)
<1> PICK m1 : m1 = ApplyCommit(version_info, t, id)
  OBVIOUS
<1> PICK tid : tid = transaction_id[t]
  OBVIOUS
<1> PICK m2 : m2 = CommitDeletes(m1, tid, undo_buffer[t])
  OBVIOUS
<1> PICK first : first = FirstRow(t)
  OBVIOUS
<1> PICK m3 : m3 = RevertAppend(m2, first)
  OBVIOUS
<1> PICK D : D = DeletedBy(t)
  OBVIOUS
<1>0. Types /\ append_info[t] # <<>> /\ tid \in Ids
  BY Bounds DEF ShapeInv, Appends, LastAppend
<1>1. CommitOf(m1, t, id)
  BY ApplyCommitEffect
<1>2. Good(m1)
  BY <1>1 DEF CommitOf
<1>3. DeletesDone(m1, m2, t, tid) /\ Good(m2)
  <2>1. DeletesDone(m1, m2, t, tid)
    BY <1>0, <1>2, DeletesOf, DeletedRowsOf
  <2> QED
    BY <2>1 DEF DeletesDone
<1>4. /\ first # 0 => m3 = m2
      /\ Good(m3) /\ m3.storage = m2.storage
  BY <1>3, RevertAppendEffect DEF Reverted
<1>5. new = ApplyRollback(m3, t)
  BY DEF FirstRow
<1>6. RollbackOf(m3, new, t)
  BY <1>0, <1>4, <1>5, ApplyRollbackEffect
<1>7. Good(new) /\ new.storage = version_info.storage
  BY <1>1, <1>3, <1>4, <1>6 DEF CommitOf, RollbackOf, DeletesDone
<1>8. CASE first = 0
  BY <1>0, <1>6, <1>7, <1>8 DEF RollbackOf, FlushFailedOf
<1>9. CASE first # 0
  <2> PICK old : old = GetVectorInfo(version_info)
    OBVIOUS
  <2> PICK i1 : i1 = GetVectorInfo(m1)
    OBVIOUS
  <2> PICK i2 : i2 = GetVectorInfo(m2)
    OBVIOUS
  <2> PICK info : info = GetVectorInfo(new)
    OBVIOUS
  <2>1. /\ info.inserted = i2.inserted /\ info.constant_insert = i2.constant_insert
        /\ info.deleted = [r \in Rows |-> IF r \in D THEN NOT_DELETED_ID ELSE i2.deleted[r]]
    BY <1>4, <1>6, <1>9 DEF RollbackOf
  <2>2. /\ i1.deleted = [r \in Rows |-> IF r \in D THEN id ELSE old.deleted[r]]
        /\ i1.constant_insert = old.constant_insert
        /\ old.constant_insert => i1.inserted = [r \in Rows |-> id]
        /\ ~old.constant_insert =>
                i1.inserted = [r \in Rows |-> IF r \in FirstRow(t) .. LastRow(t)
                                                THEN id ELSE old.inserted[r]]
    BY <1>0, <1>1 DEF CommitOf
  <2>3. info.deleted = [r \in Rows |-> IF r \in D THEN NOT_DELETED_ID ELSE old.deleted[r]]
    <3>1. i2.deleted = [r \in Rows |-> IF r \in D THEN tid ELSE i1.deleted[r]]
      BY <1>3 DEF DeletesDone
    <3>2. ASSUME NEW r \in Rows
          PROVE  (IF r \in D THEN NOT_DELETED_ID ELSE i2.deleted[r])
                    = (IF r \in D THEN NOT_DELETED_ID ELSE old.deleted[r])
      BY <2>2, <3>1
    <3> QED
      BY <2>1, <3>2
  <2>4. info.inserted = i1.inserted /\ info.constant_insert = i1.constant_insert
    BY <1>3, <2>1 DEF DeletesDone
  <2> QED
    BY <1>7, <1>9, <2>2, <2>3, <2>4 DEF FlushFailedOf
<1> QED
  BY <1>8, <1>9

-----------------------------------------------------------------------------
(* ShapeInv is inductive *)

\* Initially nothing has happened.
LEMMA InitShape == Init => ShapeInv
<1> SUFFICES ASSUME Init PROVE ShapeInv
  OBVIOUS
<1>1. Types
  <2>1. checkpoint \in Checkpoints
    <3>1. checkpoint = [pc |-> "idle", type |-> "none", left |-> MaxCheckpoints, statement |-> FALSE,
                        id |-> 0, bind |-> 0, lowest |-> 0, rows |-> {}]
      BY DEF Init, Idle
    <3>2. 0 \in Ids /\ MaxCheckpoints \in 0 .. MaxCheckpoints
      BY Constants
    <3> QED
      BY <3>1, <3>2 DEF Checkpoints, PCs
  <2>2. count \in 0 .. VectorSize /\ behaviours \subseteq AllBehaviours
    BY ConstantsAssumption DEF Init
  <2>3. undo_buffer \in [Txns -> Seq(DeleteInfos)]
    BY DEF Init
  <2>4. /\ current_start_timestamp \in Nat /\ current_start_timestamp >= 2
        /\ current_transaction_id \in Nat /\ current_transaction_id >= TRANSACTION_ID_START
        /\ last_commit \in Nat /\ last_commit < current_start_timestamp
        /\ lowest_active_start \in Ids /\ active_checkpoint \in Ids
    BY Constants DEF Init
  <2>5. /\ status \in [Txns -> Statuses] /\ start_time \in [Txns -> Nat]
        /\ transaction_id \in [Txns -> {0} \cup TRANSACTION_ID_START .. NOT_DELETED_ID - 1]
        /\ append_info \in [Txns -> {<<>>} \cup (Rows \X Rows)]
        /\ cleanup \in [Txns -> Ids]
    BY Constants DEF Init, Statuses
  <2> QED
    BY <2>1, <2>2, <2>3, <2>4, <2>5 DEF Types
<1>2. Good(version_info)
  BY Constants DEF Init, Good, Managers
<1>3. Appends
  BY DEF Init, Appends, Appended, LastAppend, CleanupPending, Flushed
<1>4. Counters
  <2>1. Idles = Txns /\ Running = {}
    BY DEF Init, Idles, Running
  <2>2. Cardinality(Running) = 0
    BY <2>1, FS_EmptySet
  <2>3. /\ checkpoint.left = MaxCheckpoints /\ checkpoint.bind = 0 /\ checkpoint.pc = "idle"
    BY DEF Init, Idle
  <2>4. One(BindStarted) = 0 /\ One(BindEnded) = 0
    BY <2>3 DEF One, BindStarted, BindEnded
  <2> QED
    BY <2>1, <2>2, <2>3, <2>4, Constants, SMTT(30) DEF Init, Counters, UnderWay
<1>5. ActiveCheckpoint
  BY DEF Init, Idle, ActiveCheckpoint, UnderWay
<1> QED
  BY <1>1, <1>2, <1>3, <1>4, <1>5 DEF ShapeInv

\* A transaction starts.
LEMMA StartTransactionShape ==
    ASSUME ShapeInv, NEW t \in Txns, StartTransaction(t)
    PROVE  ShapeInv'
<1>1. Types /\ Good(version_info) /\ Appends /\ Counters /\ ActiveCheckpoint
  BY DEF ShapeInv
<1>2. /\ status' = [status EXCEPT ![t] = "active"] /\ status[t] = "idle"
      /\ checkpoint' = checkpoint /\ version_info' = version_info /\ count' = count
      /\ append_info' = append_info /\ cleanup' = cleanup
      /\ current_start_timestamp' = current_start_timestamp + 1
      /\ current_transaction_id' = current_transaction_id + 1
  BY DEF StartTransaction
<1>3. /\ Cardinality(Idles') = Cardinality(Idles) - 1 /\ Cardinality(Idles) >= 1
      /\ Cardinality(Running') = Cardinality(Running) + 1
  BY <1>1, <1>2, StatusCounts DEF Statuses
<1>4. Types'
  <2>1. current_start_timestamp \in Ids /\ current_transaction_id \in TRANSACTION_ID_START .. NOT_DELETED_ID - 1
    BY Bounds
  <2>2. start_time' \in [Txns -> Nat] /\ lowest_active_start' \in Ids
    BY <1>1, <2>1, Constants DEF StartTransaction, Types
  <2>3. transaction_id' \in [Txns -> {0} \cup TRANSACTION_ID_START .. NOT_DELETED_ID - 1]
    BY <1>1, <2>1 DEF StartTransaction, Types
  <2>4. status' \in [Txns -> Statuses]
    BY <1>1, <1>2 DEF Types, Statuses
  <2>5. /\ current_start_timestamp' \in Nat /\ current_start_timestamp' >= 2
        /\ current_transaction_id' \in Nat /\ current_transaction_id' >= TRANSACTION_ID_START
        /\ last_commit' \in Nat /\ last_commit' < current_start_timestamp'
    BY <1>1, <1>2, Constants DEF Types, StartTransaction
  <2> QED
    BY <1>1, <1>2, <2>2, <2>3, <2>4, <2>5 DEF Types, StartTransaction
<1>5. Appends'
  <2>1. \A u \in Txns : (status'[u] = "flushed" <=> status[u] = "flushed")
                     /\ (status[u] = "done" => status'[u] = "done")
    BY <1>1, <1>2 DEF Types
  <2> QED
    BY <1>1, <1>2, <2>1 DEF Appends, Appended, LastAppend, CleanupPending, Flushed, FirstRow, LastRow
<1>6. Counters'
  <2>1. One(BindStarted)' = One(BindStarted) /\ One(BindEnded)' = One(BindEnded)
    BY <1>2 DEF One, BindStarted, BindEnded
  <2>2. /\ Cardinality(Idles) \in Nat /\ Cardinality(Running) \in Nat /\ checkpoint.left \in Nat
        /\ One(BindStarted) \in {0, 1} /\ One(BindEnded) \in {0, 1}
        /\ current_start_timestamp \in Nat /\ current_transaction_id \in Nat
    BY <1>1, Counts, BindValues DEF Types
  <2>3. /\ 2 * Cardinality(Idles') + Cardinality(Running') + 2 * checkpoint'.left
              - One(BindStarted)' - One(BindEnded)' + 1
           <= 2 * Cardinality(Idles) + Cardinality(Running) + 2 * checkpoint.left
              - One(BindStarted) - One(BindEnded)
        /\ Cardinality(Idles') + checkpoint'.left - One(BindStarted)' + 1
           <= Cardinality(Idles) + checkpoint.left - One(BindStarted)
    BY <1>2, <1>3, <2>1, <2>2
  <2>4. /\ current_start_timestamp' <= current_start_timestamp + 1
        /\ current_transaction_id' <= current_transaction_id + 1
    BY <1>2, <2>2
  <2>5. /\ checkpoint'.pc # "idle" => checkpoint'.left > 0
        /\ checkpoint'.bind # 0 => checkpoint'.pc \in UnderWay /\ checkpoint'.statement
    BY <1>1, <1>2 DEF Counters
  <2> QED
    BY <1>1, <1>4, <2>3, <2>4, <2>5, CountersStep
<1>7. ActiveCheckpoint'
  BY <1>1, <1>2 DEF ActiveCheckpoint, StartTransaction
<1> QED
  BY <1>1, <1>2, <1>4, <1>5, <1>6, <1>7 DEF ShapeInv

\* The rows that t sees are rows.
LEMMA VisibleRows ==
    ASSUME ShapeInv, NEW t \in Txns
    PROVE  Visible(t) \subseteq 0 .. count - 1 /\ 0 .. count - 1 \subseteq Rows /\ Committed \subseteq Rows
           /\ count \in Nat
<1>1. count \in 0 .. VectorSize /\ 0 .. count - 1 \subseteq Rows
  BY Constants DEF ShapeInv, Types
<1> QED
  BY <1>1 DEF Visible, Committed, GetSelVector

\* The input of a delete, and the DeleteInfo it makes.
LEMMA DeleteInput ==
    ASSUME ShapeInv, NEW t \in Txns, NEW rows \in DeleteInputs(t)
    PROVE  \E n \in Nat \ {0} :
            /\ rows \in [1 .. n -> Rows]
            /\ "repeat" \notin behaviours => rows \in [1 .. n -> Visible(t)]
<1>1. Visible(t) \subseteq Rows /\ DeletedBy(t) \subseteq Rows
  BY VisibleRows, DeletedRowsOf DEF ShapeInv
<1> DEFINE seen == Visible(t) \cup (IF "repeat" \in behaviours THEN DeletedBy(t) ELSE {})
<1>2. PICK n \in 1 .. MaxDeleteCount : rows \in [1 .. n -> seen]
  BY DEF DeleteInputs
<1>3. n \in Nat \ {0}
  BY <1>2, ConstantsAssumption
<1>4. seen \subseteq Rows /\ ("repeat" \notin behaviours => seen = Visible(t))
  BY <1>1
<1>5. rows \in [1 .. n -> Rows] /\ ("repeat" \notin behaviours => rows \in [1 .. n -> Visible(t)])
  BY <1>2, <1>4
<1> QED
  BY <1>3, <1>5

\* A DeleteInfo.
LEMMA DeleteInfoType ==
    ASSUME NEW info, NEW n \in Nat \ {0}, NEW rows \in [1 .. n -> Rows], DeleteInfo(info, rows).rows # {}
    PROVE  DeleteInfo(info, rows) \in DeleteInfos
<1> DEFINE new == NewlyDeleted(info, rows)
           first(r) == Min({i \in 1 .. Len(rows) : rows[i] = r})
           entire == new = Rows /\ \A r, s \in Rows : r < s => first(r) < first(s)
<1>1. DeleteInfo(info, rows) = [rows |-> new, entire |-> entire]
  BY DEF DeleteInfo
<1>2. Len(rows) = n
  OBVIOUS
<1>3. new \subseteq Rows
  BY <1>2 DEF NewlyDeleted
<1>4. entire \in BOOLEAN /\ (entire => new = Rows)
  OBVIOUS
<1> HIDE DEF new, entire
<1>5. new # {}
  BY <1>1
<1> QED
  BY <1>1, <1>3, <1>4, <1>5 DEF DeleteInfos

\* A statement deletes.
LEMMA DeleteStatementShape ==
    ASSUME ShapeInv, NEW t \in Txns, NEW rows \in DeleteInputs(t), DeleteStatement(t, rows)
    PROVE  ShapeInv'
<1>1. Types /\ Good(version_info) /\ Appends /\ Counters /\ ActiveCheckpoint
  BY DEF ShapeInv
<1> PICK s : s = IF DeleteConflicts(GetVectorInfo(version_info), transaction_id[t], rows)
                 THEN "invalidated" ELSE status[t]
  OBVIOUS
<1>2. /\ status' = [status EXCEPT ![t] = s] /\ status[t] = "active" /\ s \in {"active", "invalidated"}
      /\ checkpoint' = checkpoint /\ count' = count
      /\ append_info' = append_info /\ cleanup' = cleanup
      /\ current_start_timestamp' = current_start_timestamp
      /\ current_transaction_id' = current_transaction_id
      /\ version_info' = DeleteRows(version_info, transaction_id[t], rows)
  BY DEF DeleteStatement, manager
<1>3. Idles' = Idles /\ Running' = Running
  BY <1>1, <1>2, StatusCounts DEF Statuses, Running
<1>4. PICK n \in Nat \ {0} : rows \in [1 .. n -> Rows]
  BY DeleteInput
<1>5. Good(version_info') /\ version_info'.vector_info # NoInfo
  <2> PICK m : m = version_info
    OBVIOUS
  <2> PICK id : id = transaction_id[t]
    OBVIOUS
  <2>1. id \in Ids /\ id # NOT_DELETED_ID
    BY Bounds
  <2>2. DeletedIn(m, DeleteRows(m, id, rows), id, rows)
    BY <1>1, <1>4, <2>1, DeleteRowsEffect
  <2> QED
    BY <1>2, <2>2 DEF DeletedIn
<1>6. Types'
  <2> PICK info : info = GetVectorInfo(version_info)
    OBVIOUS
  <2>1. undo_buffer' \in [Txns -> Seq(DeleteInfos)]
    <3>1. undo_buffer[t] \in Seq(DeleteInfos)
      BY <1>1 DEF Types
    <3>2. ASSUME DeleteInfo(info, rows).rows # {}
          PROVE  Append(undo_buffer[t], DeleteInfo(info, rows)) \in Seq(DeleteInfos)
      <4>1. DeleteInfo(info, rows) \in DeleteInfos
        BY <1>4, <3>2, DeleteInfoType
      <4> QED
        BY <3>1, <4>1
    <3>3. PICK u \in Seq(DeleteInfos) : undo_buffer' = [undo_buffer EXCEPT ![t] = u]
      BY <3>1, <3>2 DEF DeleteStatement
    <3> QED
      BY <1>1, <3>3 DEF Types
  <2>2. status' \in [Txns -> Statuses]
    BY <1>1, <1>2 DEF Types, Statuses
  <2> QED
    BY <1>1, <1>2, <2>1, <2>2 DEF Types, DeleteStatement, manager
<1>7. Appends'
  <2>1. \A u \in Txns : (status'[u] = "flushed" <=> status[u] = "flushed")
                     /\ (status[u] = "done" => status'[u] = "done")
    BY <1>1, <1>2 DEF Types
  <2> QED
    BY <1>1, <1>2, <1>5, <2>1 DEF Appends, Appended, LastAppend, CleanupPending, Flushed, FirstRow, LastRow
<1>8. Counters'
  BY <1>1, <1>2, <1>3 DEF Counters, One, BindStarted, BindEnded
<1>9. ActiveCheckpoint'
  BY <1>1, <1>2 DEF ActiveCheckpoint, DeleteStatement, manager
<1> QED
  BY <1>5, <1>6, <1>7, <1>8, <1>9 DEF ShapeInv

\* A commit flushes the append.
LEMMA FlushAppendShape ==
    ASSUME ShapeInv, NEW t \in Txns, NEW n \in 1 .. VectorSize, NEW optimistic \in BOOLEAN,
           FlushAppend(t, n, optimistic)
    PROVE  ShapeInv'
<1>1. Types /\ Good(version_info) /\ Appends /\ Counters /\ ActiveCheckpoint
  BY DEF ShapeInv
<1> PICK first, last : first = count /\ last = count + n - 1
  OBVIOUS
<1>2. /\ status' = [status EXCEPT ![t] = "flushed"] /\ status[t] = "active"
      /\ \A u \in Txns : status[u] # "flushed"
      /\ checkpoint' = checkpoint /\ count' = count + n /\ last < VectorSize
      /\ append_info' = [append_info EXCEPT ![t] = <<first, last>>] /\ cleanup' = cleanup
      /\ current_start_timestamp' = current_start_timestamp
      /\ current_transaction_id' = current_transaction_id
  BY DEF FlushAppend, manager
<1>3. Idles' = Idles /\ Running' = Running
  BY <1>1, <1>2, StatusCounts DEF Statuses, Running
<1>4. count \in Nat /\ n \in Nat /\ first \in Rows /\ last \in Rows /\ count' \in 0 .. VectorSize
      /\ first <= last
  BY <1>1, <1>2, Constants DEF Types
<1>5. Good(version_info') /\ version_info'.vector_info # NoInfo
  <2> PICK m : m = version_info
    OBVIOUS
  <2> PICK id : id = IF optimistic THEN 0 ELSE transaction_id[t]
    OBVIOUS
  <2>1. id \in Ids
    BY Bounds, Constants
  <2>2. AppendedTo(m, AppendVersionInfo(m, first, last, id), first, last, id)
    BY <1>1, <1>4, <2>1, AppendVersionInfoEffect
  <2> QED
    BY <2>2 DEF AppendedTo, FlushAppend
<1>6. Types'
  <2>1. status' \in [Txns -> Statuses] /\ append_info' \in [Txns -> {<<>>} \cup (Rows \X Rows)]
    BY <1>1, <1>2, <1>4 DEF Types, Statuses
  <2> QED
    BY <1>1, <1>2, <1>4, <2>1 DEF Types, FlushAppend, manager
<1>7. Appends'
  <2>1. /\ \A u \in Txns \ {t} : status'[u] = status[u] /\ append_info'[u] = append_info[u]
        /\ status'[t] = "flushed" /\ append_info'[t] = <<first, last>>
    BY <1>1, <1>2 DEF Types
  <2>2. ASSUME NEW u \in Txns \ {t}, append_info[u] # <<>>
        PROVE  LastRow(u) < count /\ LastRow(u) \in Nat
    BY <1>1, <2>2, Constants DEF Appends, Appended, Types, LastRow
  <2>3. checkpoint.pc \notin UnderWay
    <3>1. active_checkpoint = MAX_TRANSACTION_ID
      BY DEF FlushAppend
    <3>2. last_commit < MAX_TRANSACTION_ID /\ last_commit \in Nat /\ checkpoint.id \in Nat
      BY <1>1, Bounds, BindValues, Constants
    <3> QED
      BY <1>1, <3>1, <3>2, Constants DEF ActiveCheckpoint
  <2>4. Appended(t)' /\ LastAppend(t)' /\ CleanupPending(t)'
    BY <1>1, <1>2, <1>4, <1>5, <2>1, <2>2, <2>3 DEF Appends, Appended, LastAppend, CleanupPending, Flushed, FirstRow, LastRow
  <2>5. ASSUME NEW u \in Txns \ {t} PROVE Appended(u)' /\ LastAppend(u)' /\ CleanupPending(u)'
    BY <1>1, <1>2, <1>4, <2>1, <2>2 DEF Appends, Appended, LastAppend, CleanupPending, Flushed, FirstRow, LastRow
  <2> QED
    BY <2>4, <2>5 DEF Appends
<1>8. Counters'
  BY <1>1, <1>2, <1>3 DEF Counters, One, BindStarted, BindEnded
<1>9. ActiveCheckpoint'
  BY <1>1, <1>2 DEF ActiveCheckpoint, FlushAppend, manager
<1> QED
  BY <1>5, <1>6, <1>7, <1>8, <1>9 DEF ShapeInv

\* A transaction that appended and runs has been flushed.
LEMMA RunningAppends ==
    ASSUME ShapeInv, NEW t \in Running
    PROVE  t \in Txns /\ (append_info[t] # <<>> <=> Flushed(t))
  BY DEF ShapeInv, Appends, Appended, LastAppend, Running, Flushed

\* The counts when a transaction that runs has ended, and has drawn a commit id or not.
LEMMA EndCounters ==
    ASSUME ShapeInv, Types', NEW t \in Running, status' = [status EXCEPT ![t] = "done"],
           NEW d \in {0, 1}, current_start_timestamp' = current_start_timestamp + d,
           current_transaction_id' = current_transaction_id,
           checkpoint'.left = checkpoint.left, checkpoint'.bind = checkpoint.bind,
           checkpoint'.statement = checkpoint.statement,
           \/ checkpoint'.pc = checkpoint.pc
           \/ checkpoint.pc = "idle" /\ checkpoint'.pc = "decided" /\ checkpoint.left > 0
    PROVE  Counters'
<1>1. Types /\ Counters /\ t \in Txns
  BY DEF ShapeInv, Running
<1>2. /\ Idles' = Idles /\ Cardinality(Running') = Cardinality(Running) - 1
  BY <1>1, StatusCounts DEF Statuses
<1>3. checkpoint.pc = "idle" => checkpoint.bind = 0
  BY <1>1 DEF Counters, UnderWay
<1>4. One(BindStarted)' = One(BindStarted) /\ One(BindEnded)' = One(BindEnded)
  BY <1>3 DEF One, BindStarted, BindEnded
<1>5. /\ Cardinality(Idles) \in Nat /\ Cardinality(Running) \in Nat /\ checkpoint.left \in Nat
      /\ One(BindStarted) \in {0, 1} /\ One(BindEnded) \in {0, 1}
      /\ current_start_timestamp \in Nat /\ current_transaction_id \in Nat
  BY <1>1, Counts, BindValues DEF Types
<1>6. /\ 2 * Cardinality(Idles') + Cardinality(Running') + 2 * checkpoint'.left
              - One(BindStarted)' - One(BindEnded)' + d
           <= 2 * Cardinality(Idles) + Cardinality(Running) + 2 * checkpoint.left
              - One(BindStarted) - One(BindEnded)
      /\ Cardinality(Idles') + checkpoint'.left - One(BindStarted)' + 0
           <= Cardinality(Idles) + checkpoint.left - One(BindStarted)
  BY <1>2, <1>4, <1>5
<1>7. /\ current_start_timestamp' <= current_start_timestamp + d
      /\ current_transaction_id' <= current_transaction_id + 0
  BY <1>5
<1>8. /\ checkpoint'.pc # "idle" => checkpoint'.left > 0
      /\ checkpoint'.bind # 0 => checkpoint'.pc \in UnderWay /\ checkpoint'.statement
  BY <1>1, <1>3 DEF Counters
<1>9. d \in Nat /\ 0 \in Nat
  OBVIOUS
<1> QED
  BY <1>1, <1>6, <1>7, <1>8, <1>9, CountersStep

\* The fields that a commit changes in the checkpoint.
LEMMA CommitCheckpoint ==
    ASSUME ShapeInv, NEW t \in Txns, CommitTransaction(t)
    PROVE  /\ checkpoint' \in Checkpoints
           /\ checkpoint'.left = checkpoint.left /\ checkpoint'.bind = checkpoint.bind
           /\ checkpoint'.statement = checkpoint.statement /\ checkpoint'.id = checkpoint.id
           /\ checkpoint'.lowest = checkpoint.lowest /\ checkpoint'.rows = checkpoint.rows
           /\ \/ checkpoint' = checkpoint
              \/ checkpoint.pc = "idle" /\ checkpoint'.pc = "decided" /\ checkpoint.left > 0
<1>1. checkpoint \in Checkpoints
  BY DEF ShapeInv, Types
<1>2. \/ checkpoint' = checkpoint
      \/ /\ checkpoint.pc = "idle" /\ checkpoint.left > 0
         /\ \E type \in {"full", "concurrent"} :
                checkpoint' = [checkpoint EXCEPT !.pc = "decided", !.type = type]
  BY DEF CommitTransaction, AutomaticCheckpoint
<1>3. CASE checkpoint' = checkpoint
  BY <1>1, <1>3
<1>4. ASSUME NEW type \in {"full", "concurrent"}, checkpoint.pc = "idle", checkpoint.left > 0,
             checkpoint' = [checkpoint EXCEPT !.pc = "decided", !.type = type]
      PROVE  /\ checkpoint' \in Checkpoints /\ checkpoint'.pc = "decided"
             /\ checkpoint'.left = checkpoint.left /\ checkpoint'.bind = checkpoint.bind
             /\ checkpoint'.statement = checkpoint.statement /\ checkpoint'.id = checkpoint.id
             /\ checkpoint'.lowest = checkpoint.lowest /\ checkpoint'.rows = checkpoint.rows
  BY <1>1, <1>4 DEF Checkpoints, PCs
<1> QED
  BY <1>2, <1>3, <1>4

\* A commit.
LEMMA CommitTransactionShape ==
    ASSUME ShapeInv, NEW t \in Txns, CommitTransaction(t)
    PROVE  ShapeInv'
<1>1. Types /\ Good(version_info) /\ Appends /\ Counters /\ ActiveCheckpoint
  BY DEF ShapeInv
<1>2. /\ status' = [status EXCEPT ![t] = "done"] /\ t \in Running
      /\ current_start_timestamp' = current_start_timestamp + 1
      /\ last_commit' = current_start_timestamp
      /\ lowest_active_start' = LowestStartTime(t)
      /\ cleanup' = [cleanup EXCEPT ![t] = IF t \in VacuumReaders THEN LowestStartTime(t) ELSE NoCleanup]
      /\ version_info' = ApplyCommit(version_info, t, current_start_timestamp)
      /\ current_transaction_id' = current_transaction_id /\ active_checkpoint' = active_checkpoint
      /\ append_info' = append_info /\ undo_buffer' = undo_buffer /\ count' = count
      /\ start_time' = start_time /\ transaction_id' = transaction_id /\ behaviours' = behaviours
  BY DEF CommitTransaction, RemoveTransaction, Running
<1> PICK low : low = LowestStartTime(t)
  OBVIOUS
<1>3. low \in Ids /\ low # NoCleanup
  BY <1>1, LowestStartTimeType
<1>4. /\ checkpoint' \in Checkpoints
      /\ checkpoint'.left = checkpoint.left /\ checkpoint'.bind = checkpoint.bind
      /\ checkpoint'.statement = checkpoint.statement /\ checkpoint'.id = checkpoint.id
      /\ \/ checkpoint' = checkpoint
         \/ checkpoint.pc = "idle" /\ checkpoint'.pc = "decided" /\ checkpoint.left > 0
  BY CommitCheckpoint
<1>5. Types'
  <2>1. status' \in [Txns -> Statuses]
    BY <1>1, <1>2 DEF Types, Statuses
  <2>2. cleanup' \in [Txns -> Ids] /\ lowest_active_start' \in Ids
    BY <1>1, <1>2, <1>3, Constants DEF Types
  <2>3. /\ current_start_timestamp' \in Nat /\ current_start_timestamp' >= 2
        /\ last_commit' \in Nat /\ last_commit' < current_start_timestamp'
    BY <1>1, <1>2 DEF Types
  <2> QED
    BY <1>1, <1>2, <1>4, <2>1, <2>2, <2>3 DEF Types
<1>6. Good(version_info') /\ (version_info.vector_info # NoInfo => version_info'.vector_info # NoInfo)
  <2> PICK id : id = current_start_timestamp
    OBVIOUS
  <2>1. id \in Ids /\ (append_info[t] # <<>> => Flushed(t))
    BY <1>2, Bounds, RunningAppends
  <2>2. CommitOf(ApplyCommit(version_info, t, id), t, id)
    BY <2>1, ApplyCommitEffect
  <2> QED
    BY <1>2, <2>2 DEF CommitOf
<1>7. Appends'
  <2>1. /\ \A u \in Txns \ {t} : status'[u] = status[u] /\ cleanup'[u] = cleanup[u]
        /\ status'[t] = "done"
    BY <1>1, <1>2 DEF Types
  <2>2. append_info[t] # <<>> => cleanup'[t] = low
    BY <1>1, <1>2 DEF VacuumReaders, Types
  <2>3. Appended(t)' /\ LastAppend(t)' /\ CleanupPending(t)'
    BY <1>1, <1>2, <1>3, <2>1, <2>2 DEF Appends, Appended, LastAppend, CleanupPending, Flushed, FirstRow, LastRow
  <2>4. checkpoint'.pc \in UnderWay => checkpoint.pc \in UnderWay
    BY <1>4 DEF UnderWay
  <2>5. ASSUME NEW u \in Txns \ {t} PROVE Appended(u)' /\ LastAppend(u)' /\ CleanupPending(u)'
    BY <1>1, <1>2, <1>6, <2>1, <2>4 DEF Appends, Appended, LastAppend, CleanupPending, Flushed, FirstRow, LastRow
  <2> QED
    BY <2>3, <2>5 DEF Appends
<1>8. Counters'
  BY <1>2, <1>4, <1>5, EndCounters
<1>9. ActiveCheckpoint'
  <2>1. checkpoint'.pc \in UnderWay <=> checkpoint.pc \in UnderWay
    BY <1>4 DEF UnderWay
  <2>2. last_commit <= last_commit' /\ checkpoint.id \in Nat /\ last_commit \in Nat /\ last_commit' \in Nat
    BY <1>1, <1>2, BindValues DEF Types
  <2> QED
    BY <1>1, <1>2, <1>4, <2>1, <2>2 DEF ActiveCheckpoint
<1> QED
  BY <1>5, <1>6, <1>7, <1>8, <1>9 DEF ShapeInv

\* A transaction is rolled back, from whatever manager m.
LEMMA RollbackEffectShape ==
    ASSUME ShapeInv, NEW t \in Running, NEW m, Good(m),
           append_info[t] = <<>> => m = version_info, RollbackEffect(t, m),
           NEW d \in {0, 1}, current_start_timestamp' = current_start_timestamp + d,
           last_commit' = last_commit
    PROVE  ShapeInv'
<1>1. Types /\ Good(version_info) /\ Appends /\ Counters /\ ActiveCheckpoint /\ t \in Txns
  BY DEF ShapeInv, Running
<1>2. /\ status' = [status EXCEPT ![t] = "done"]
      /\ lowest_active_start' = LowestStartTime(t)
      /\ cleanup' = [cleanup EXCEPT ![t] = NoCleanup]
      /\ version_info' = ApplyRollback(m, t)
      /\ count' = IF append_info[t] = <<>> THEN count ELSE FirstRow(t)
      /\ current_transaction_id' = current_transaction_id /\ active_checkpoint' = active_checkpoint
      /\ undo_buffer' = [undo_buffer EXCEPT ![t] = <<>>]
      /\ append_info' = [append_info EXCEPT ![t] = <<>>]
      /\ start_time' = start_time /\ transaction_id' = transaction_id
      /\ checkpoint' = checkpoint /\ behaviours' = behaviours
  BY DEF RollbackEffect, RemoveTransaction, FirstRow
<1>3. count' \in 0 .. VectorSize
  BY <1>1, <1>2, Constants DEF Types, FirstRow
<1>4. Types'
  <2>1. status' \in [Txns -> Statuses]
    BY <1>1, <1>2 DEF Types, Statuses
  <2>2. cleanup' \in [Txns -> Ids] /\ lowest_active_start' \in Ids
    BY <1>1, <1>2, Constants, LowestStartTimeType DEF Types
  <2>3. undo_buffer' \in [Txns -> Seq(DeleteInfos)]
    BY <1>1, <1>2 DEF Types
  <2>4. append_info' \in [Txns -> {<<>>} \cup (Rows \X Rows)]
    BY <1>1, <1>2 DEF Types
  <2>5. /\ current_start_timestamp' \in Nat /\ current_start_timestamp' >= 2
        /\ last_commit' \in Nat /\ last_commit' < current_start_timestamp'
    BY <1>1 DEF Types
  <2> QED
    BY <1>1, <1>2, <1>3, <2>1, <2>2, <2>3, <2>4, <2>5 DEF Types
<1>5. RollbackOf(m, version_info', t)
  <2>1. RollbackOf(m, ApplyRollback(m, t), t)
    BY <1>1, ApplyRollbackEffect
  <2> QED
    BY <1>2, <2>1
<1>6. Good(version_info')
  BY <1>5 DEF RollbackOf
<1>7. Appends'
  <2>1. /\ \A u \in Txns \ {t} : /\ status'[u] = status[u] /\ cleanup'[u] = cleanup[u]
                                /\ append_info'[u] = append_info[u]
        /\ status'[t] = "done" /\ append_info'[t] = <<>>
    BY <1>1, <1>2 DEF Types
  <2>2. Appended(t)' /\ LastAppend(t)' /\ CleanupPending(t)'
    BY <1>1, <1>2, <2>1 DEF Appended, LastAppend, CleanupPending, Flushed, Types
  <2>3. CASE append_info[t] = <<>>
    <3>1. version_info.vector_info # NoInfo => version_info'.vector_info # NoInfo
      BY <1>5, <2>3 DEF RollbackOf
    <3>2. ASSUME NEW u \in Txns \ {t} PROVE Appended(u)' /\ LastAppend(u)' /\ CleanupPending(u)'
      BY <1>1, <1>2, <2>1, <2>3, <3>1 DEF Appends, Appended, LastAppend, CleanupPending, Flushed, FirstRow, LastRow
    <3> QED
      BY <2>2, <3>2 DEF Appends
  <2>4. CASE append_info[t] # <<>>
    <3>1. Flushed(t) /\ count' = FirstRow(t)
      BY <1>2, <2>4, RunningAppends
    <3>2. ASSUME NEW u \in Txns \ {t} PROVE Appended(u)' /\ LastAppend(u)' /\ CleanupPending(u)'
      BY <1>1, <2>1, <3>1 DEF Appends, Appended, LastAppend, CleanupPending, Flushed, FirstRow, LastRow
    <3> QED
      BY <2>2, <3>2 DEF Appends
  <2> QED
    BY <2>3, <2>4
<1>8. Counters'
  BY <1>2, <1>4, EndCounters
<1>9. ActiveCheckpoint'
  BY <1>1, <1>2 DEF ActiveCheckpoint
<1> QED
  BY <1>4, <1>6, <1>7, <1>8, <1>9 DEF ShapeInv

\* The three ways in which a transaction is rolled back.
LEMMA RollbackShape ==
    ASSUME ShapeInv, NEW t \in Txns, RollbackTransaction(t) \/ CommitFails(t) \/ FlushFails(t)
    PROVE  ShapeInv'
<1>1. Types /\ Good(version_info)
  BY DEF ShapeInv
<1>2. t \in Running
  BY DEF RollbackTransaction, CommitFails, FlushFails, Running
<1>3. CASE RollbackTransaction(t)
  <2>1. current_start_timestamp' = current_start_timestamp + 0
    BY <1>1, <1>3 DEF RollbackTransaction, Types
  <2> QED
    BY <1>1, <1>2, <1>3, <2>1, RollbackEffectShape DEF RollbackTransaction
<1>4. CASE CommitFails(t)
  BY <1>1, <1>2, <1>4, RollbackEffectShape DEF CommitFails
<1>5. CASE FlushFails(t)
  <2> PICK m1 : m1 = ApplyCommit(version_info, t, current_start_timestamp)
    OBVIOUS
  <2> PICK m2 : m2 = CommitDeletes(m1, transaction_id[t], undo_buffer[t])
    OBVIOUS
  <2> PICK m3 : m3 = RevertAppend(m2, append_info[t][1])
    OBVIOUS
  <2> PICK id, tid : id = current_start_timestamp /\ tid = transaction_id[t]
    OBVIOUS
  <2>1. id \in Ids /\ tid \in Ids /\ (append_info[t] # <<>> <=> Flushed(t)) /\ Flushed(t)
    BY <1>2, <1>5, Bounds, RunningAppends DEF FlushFails, Flushed
  <2>2. CommitOf(m1, t, id)
    BY <2>1, ApplyCommitEffect
  <2>3. Good(m1)
    BY <2>2 DEF CommitOf
  <2>4. DeletesDone(m1, m2, t, tid)
    BY <1>1, <2>1, <2>3, DeletesOf, DeletedRowsOf
  <2>5. Good(m2)
    BY <2>4 DEF DeletesDone
  <2>6. Good(m3)
    BY <2>5, RevertAppendEffect DEF Reverted
  <2> QED
    BY <1>2, <1>5, <2>1, <2>6, RollbackEffectShape DEF FlushFails
<1> QED
  BY <1>3, <1>4, <1>5

\* The cleanup of a transaction.  It drops the vector only if its append was the end of the vector:
\* then there is no other append that has been flushed.
LEMMA CleanupTransactionShape ==
    ASSUME ShapeInv, NEW t \in Txns, CleanupTransaction(t)
    PROVE  ShapeInv'
<1>1. Types /\ Good(version_info) /\ Appends /\ Counters /\ ActiveCheckpoint
  BY DEF ShapeInv
<1>2. /\ cleanup[t] # NoCleanup
      /\ cleanup' = [cleanup EXCEPT ![t] = NoCleanup]
      /\ undo_buffer' = [undo_buffer EXCEPT ![t] = <<>>]
      /\ append_info' = [append_info EXCEPT ![t] = <<>>]
      /\ version_info' = IF append_info[t] = <<>> THEN version_info
                         ELSE CleanupAppend(version_info, cleanup[t], FirstRow(t), LastRow(t))
      /\ current_start_timestamp' = current_start_timestamp
      /\ current_transaction_id' = current_transaction_id /\ active_checkpoint' = active_checkpoint
      /\ last_commit' = last_commit /\ lowest_active_start' = lowest_active_start
      /\ status' = status /\ start_time' = start_time /\ transaction_id' = transaction_id
      /\ count' = count /\ checkpoint' = checkpoint /\ behaviours' = behaviours
  BY DEF CleanupTransaction, manager, FirstRow, LastRow
<1>3. Types'
  <2>1. cleanup' \in [Txns -> Ids]
    BY <1>1, <1>2, Constants DEF Types
  <2>2. undo_buffer' \in [Txns -> Seq(DeleteInfos)]
    BY <1>1, <1>2 DEF Types
  <2>3. append_info' \in [Txns -> {<<>>} \cup (Rows \X Rows)]
    BY <1>1, <1>2 DEF Types
  <2> QED
    BY <1>1, <1>2, <2>1, <2>2, <2>3 DEF Types
<1>4. /\ Good(version_info')
      /\ version_info' = version_info \/ (append_info[t] # <<>> /\ LastRow(t) = VectorSize - 1)
  <2>1. CASE append_info[t] = <<>>
    BY <1>1, <1>2, <2>1
  <2>2. CASE append_info[t] # <<>>
    <3> PICK m, low, first, last : m = version_info /\ low = cleanup[t] /\ first = FirstRow(t) /\ last = LastRow(t)
      OBVIOUS
    <3>1. CleanedUp(m, CleanupAppend(m, low, first, last), low, first, last)
      BY <1>1, CleanupAppendEffect
    <3> QED
      BY <1>1, <1>2, <2>2, <3>1 DEF CleanedUp
  <2> QED
    BY <2>1, <2>2
<1>5. ASSUME append_info[t] # <<>>, LastRow(t) = VectorSize - 1, NEW u \in Txns, Flushed(u)
      PROVE  FALSE
  <2>1. u # t => LastRow(t) < FirstRow(u) /\ FirstRow(u) <= LastRow(u) /\ LastRow(u) < count
    BY <1>1, <1>5 DEF Appends, Appended, LastAppend
  <2>2. append_info[t] \in Rows \X Rows /\ append_info[u] \in Rows \X Rows
    BY <1>1, <1>5 DEF Types, Appends, LastAppend
  <2>3. FirstRow(u) \in Nat /\ LastRow(u) \in Nat /\ count \in 0 .. VectorSize
    BY <1>1, <2>2, Constants DEF Types, FirstRow, LastRow
  <2>4. u # t
    BY <1>1, <1>2, <1>5 DEF Appends, CleanupPending, Flushed
  <2> QED
    BY <1>5, <2>1, <2>3, <2>4, Constants
<1>6. Appends'
  <2>1. /\ \A u \in Txns \ {t} : cleanup'[u] = cleanup[u] /\ append_info'[u] = append_info[u]
        /\ append_info'[t] = <<>>
    BY <1>1, <1>2 DEF Types
  <2>2. ~Flushed(t)
    BY <1>1, <1>2 DEF Appends, CleanupPending, Flushed
  <2>3. Appended(t)' /\ LastAppend(t)' /\ CleanupPending(t)'
    BY <1>1, <1>2, <2>1, <2>2 DEF Appended, LastAppend, CleanupPending, Flushed, Types
  <2>4. ASSUME NEW u \in Txns \ {t} PROVE Appended(u)' /\ LastAppend(u)' /\ CleanupPending(u)'
    BY <1>1, <1>2, <1>4, <1>5, <2>1, <2>2 DEF Appends, Appended, LastAppend, CleanupPending, Flushed, FirstRow, LastRow
  <2> QED
    BY <2>3, <2>4 DEF Appends
<1>7. Counters'
  BY <1>1, <1>2 DEF Counters, One, BindStarted, BindEnded, Idles, Running
<1>8. ActiveCheckpoint'
  BY <1>1, <1>2 DEF ActiveCheckpoint
<1> QED
  BY <1>3, <1>4, <1>6, <1>7, <1>8 DEF ShapeInv

\* A step of a checkpoint, or of its bind transaction: the transactions are as they were.
LEMMA CheckpointStepShape ==
    ASSUME ShapeInv, Types', Good(version_info'),
           status' = status, append_info' = append_info, cleanup' = cleanup, count' = count,
           version_info'.vector_info = NoInfo => version_info.vector_info = NoInfo,
           checkpoint'.pc \in UnderWay => checkpoint.pc \in UnderWay \/ \A t \in Txns : ~Flushed(t),
           NEW d \in {0, 1}, NEW e \in {0, 1}, e <= d,
           current_start_timestamp' <= current_start_timestamp + d,
           current_transaction_id' <= current_transaction_id + e,
           2 * checkpoint'.left - One(BindStarted)' - One(BindEnded)' + d
             <= 2 * checkpoint.left - One(BindStarted) - One(BindEnded),
           checkpoint'.left - One(BindStarted)' + e <= checkpoint.left - One(BindStarted),
           checkpoint'.pc # "idle" => checkpoint'.left > 0,
           checkpoint'.bind # 0 => checkpoint'.pc \in UnderWay /\ checkpoint'.statement,
           ActiveCheckpoint'
    PROVE  ShapeInv'
<1>1. Types /\ Appends /\ Counters
  BY DEF ShapeInv
<1>2. Appends'
  BY <1>1 DEF Appends, Appended, LastAppend, CleanupPending, Flushed, FirstRow, LastRow
<1>3. Idles' = Idles /\ Running' = Running
  BY DEF Idles, Running
<1>4. /\ Cardinality(Idles) \in Nat /\ Cardinality(Running) \in Nat
      /\ checkpoint.left \in Nat /\ checkpoint'.left \in Nat
      /\ One(BindStarted) \in {0, 1} /\ One(BindEnded) \in {0, 1}
      /\ One(BindStarted)' \in {0, 1} /\ One(BindEnded)' \in {0, 1}
  <2>1. checkpoint'.left \in Nat /\ One(BindStarted)' \in {0, 1} /\ One(BindEnded)' \in {0, 1}
    BY DEF Types, Checkpoints, One
  <2> QED
    BY <1>1, <2>1, Counts, BindValues
<1>5. /\ 2 * Cardinality(Idles') + Cardinality(Running') + 2 * checkpoint'.left
              - One(BindStarted)' - One(BindEnded)' + d
           <= 2 * Cardinality(Idles) + Cardinality(Running) + 2 * checkpoint.left
              - One(BindStarted) - One(BindEnded)
      /\ Cardinality(Idles') + checkpoint'.left - One(BindStarted)' + e
           <= Cardinality(Idles) + checkpoint.left - One(BindStarted)
  BY <1>3, <1>4
<1>6. d \in Nat /\ e \in Nat
  OBVIOUS
<1>7. Counters'
  BY <1>1, <1>5, <1>6, CountersStep
<1> QED
  BY <1>2, <1>7 DEF ShapeInv

\* A step that changes only the checkpoint, and the version info perhaps, and draws nothing.
LEMMA QuietStepShape ==
    ASSUME ShapeInv, Good(version_info'), checkpoint' \in Checkpoints,
           UNCHANGED <<manager, transactions, count, behaviours>>,
           version_info'.vector_info = NoInfo => version_info.vector_info = NoInfo,
           checkpoint'.pc \in UnderWay <=> checkpoint.pc \in UnderWay,
           checkpoint'.left = checkpoint.left, checkpoint'.left > 0,
           checkpoint'.bind = checkpoint.bind, checkpoint'.id = checkpoint.id,
           checkpoint'.statement = checkpoint.statement \/ (checkpoint.bind = 0 /\ checkpoint.pc = "idle"),
           checkpoint.pc # "finishing"
    PROVE  ShapeInv'
<1>1. Types /\ Appends /\ Counters /\ ActiveCheckpoint
  BY DEF ShapeInv
<1>2. Types'
  BY <1>1 DEF Types, manager, transactions
<1>3. /\ checkpoint.left \in Nat /\ checkpoint'.left \in Nat
      /\ One(BindStarted) \in {0, 1} /\ One(BindEnded) \in {0, 1}
      /\ One(BindStarted)' \in {0, 1} /\ One(BindEnded)' \in {0, 1}
  BY <1>1, <1>2, BindValues DEF Types, Checkpoints, One
<1>4. One(BindStarted)' >= One(BindStarted) /\ One(BindEnded)' >= One(BindEnded)
  BY DEF One, BindStarted, BindEnded
<1>5. /\ 2 * checkpoint'.left - One(BindStarted)' - One(BindEnded)' + 0
            <= 2 * checkpoint.left - One(BindStarted) - One(BindEnded)
      /\ checkpoint'.left - One(BindStarted)' + 0 <= checkpoint.left - One(BindStarted)
  BY <1>3, <1>4
<1>6. /\ current_start_timestamp' <= current_start_timestamp + 0
      /\ current_transaction_id' <= current_transaction_id + 0
  BY <1>1 DEF Types, manager
<1>7. /\ status' = status /\ append_info' = append_info /\ cleanup' = cleanup /\ count' = count
  BY DEF transactions
<1>8. ActiveCheckpoint'
  BY <1>1 DEF ActiveCheckpoint, manager
<1>9. checkpoint'.bind # 0 => checkpoint'.pc \in UnderWay /\ checkpoint'.statement
  BY <1>1 DEF Counters
<1> QED
  BY <1>2, <1>5, <1>6, <1>7, <1>8, <1>9, CheckpointStepShape

\* The steps that change the phase of the checkpoint, and compress or write the version info.
LEMMA PhaseStepShape ==
    ASSUME ShapeInv,
           \/ DecideCheckpoint
           \/ \E type \in {"full", "concurrent"} : CreateCheckpoint(type)
           \/ ReadLowestActiveStart \/ CompressVersionInfo \/ CheckpointDeletes \/ UnlockTable
    PROVE  ShapeInv'
<1>1. Types /\ Good(version_info) /\ Counters /\ checkpoint \in Checkpoints /\ lowest_active_start \in Ids
  BY DEF ShapeInv, Types
<1>2. checkpoint.pc = "idle" => checkpoint.bind = 0
  BY <1>1 DEF Counters, UnderWay
<1>3. CASE DecideCheckpoint
  <2>1. /\ checkpoint.pc = "idle" /\ checkpoint.left > 0 /\ version_info' = version_info
        /\ UNCHANGED <<manager, transactions, count, behaviours>>
        /\ \E type \in {"full", "concurrent"} :
            checkpoint' = [checkpoint EXCEPT !.pc = "decided", !.statement = TRUE, !.type = type]
    BY <1>3 DEF DecideCheckpoint
  <2>2. /\ checkpoint' \in Checkpoints /\ checkpoint'.pc = "decided"
        /\ checkpoint'.left = checkpoint.left
        /\ checkpoint'.bind = checkpoint.bind /\ checkpoint'.id = checkpoint.id
    BY <1>1, <2>1 DEF Checkpoints, PCs
  <2>3. checkpoint'.pc \in UnderWay <=> checkpoint.pc \in UnderWay
    BY <2>1, <2>2 DEF UnderWay
  <2> QED
    BY <1>1, <1>2, <2>1, <2>2, <2>3, QuietStepShape
<1>4. ASSUME NEW pc \in PCs, NEW type \in {"none", "full", "concurrent"}, NEW lowest \in Ids,
             checkpoint' = [checkpoint EXCEPT !.pc = pc, !.type = type, !.lowest = lowest],
             checkpoint.pc \notin {"idle", "finishing"}, pc \in UnderWay <=> checkpoint.pc \in UnderWay,
             UNCHANGED <<manager, transactions, count, behaviours>>, Good(version_info'),
             version_info'.vector_info = NoInfo => version_info.vector_info = NoInfo
      PROVE  ShapeInv'
  <2>1. /\ checkpoint' \in Checkpoints /\ checkpoint'.pc = pc
        /\ checkpoint'.left = checkpoint.left /\ checkpoint'.statement = checkpoint.statement
        /\ checkpoint'.bind = checkpoint.bind /\ checkpoint'.id = checkpoint.id
    BY <1>1, <1>4 DEF Checkpoints
  <2>2. checkpoint'.left > 0
    BY <1>1, <1>4, <2>1 DEF Counters
  <2> QED
    BY <1>1, <1>4, <2>1, <2>2, QuietStepShape
<1> PICK type0, low0 : type0 = checkpoint.type /\ low0 = checkpoint.lowest
  OBVIOUS
<1>5. type0 \in {"none", "full", "concurrent"} /\ low0 \in Ids
  BY <1>1 DEF Checkpoints
<1>6. checkpoint = [checkpoint EXCEPT !.type = type0, !.lowest = low0]
  BY <1>1 DEF Checkpoints
<1>7. ASSUME NEW type \in {"full", "concurrent"}, CreateCheckpoint(type) PROVE ShapeInv'
  <2>1. checkpoint' = [checkpoint EXCEPT !.pc = "created", !.type = type, !.lowest = low0]
    BY <1>1, <1>7 DEF CreateCheckpoint, Checkpoints
  <2> QED
    BY <1>1, <1>4, <1>5, <1>7, <2>1, ZenonT(60) DEF CreateCheckpoint, PCs, UnderWay
<1>8. CASE ReadLowestActiveStart
  <2> PICK low \in Ids : low = lowest_active_start
    BY <1>1
  <2>1. checkpoint' = [checkpoint EXCEPT !.pc = "table", !.type = type0, !.lowest = low]
    BY <1>1, <1>8 DEF ReadLowestActiveStart, Checkpoints
  <2> QED
    BY <1>1, <1>4, <1>5, <1>8, <2>1 DEF ReadLowestActiveStart, PCs, UnderWay
<1>9. CASE CompressVersionInfo
  <2>1. checkpoint' = [checkpoint EXCEPT !.pc = "compressed", !.type = type0, !.lowest = low0]
    BY <1>1, <1>9 DEF CompressVersionInfo, Checkpoints
  <2>2. Good(version_info') /\ (version_info'.vector_info = NoInfo => version_info.vector_info = NoInfo)
    <3> PICK m : m = version_info
      OBVIOUS
    <3>1. CompressedIn(m, ManagerCompressVersionIds(m, low0), low0)
      BY <1>1, <1>5, ManagerCompressEffect
    <3> QED
      BY <1>9, <3>1 DEF CompressedIn, CompressVersionInfo
  <2> QED
    BY <1>4, <1>5, <1>9, <2>1, <2>2, ZenonT(60) DEF CompressVersionInfo, PCs, UnderWay
<1>10. CASE CheckpointDeletes
  <2>1. checkpoint' = [checkpoint EXCEPT !.pc = "written", !.type = type0, !.lowest = low0]
    BY <1>1, <1>10 DEF CheckpointDeletes, Checkpoints
  <2>2. Good(version_info') /\ (version_info'.vector_info = NoInfo => version_info.vector_info = NoInfo)
    <3> PICK m, id : m = version_info /\ id = checkpoint.id
      OBVIOUS
    <3>1. id \in Nat
      BY <1>1 DEF Checkpoints
    <3>2. WrittenIn(m, ManagerCheckpoint(m, id), id)
      BY <1>1, <3>1, ManagerCheckpointEffect
    <3> QED
      BY <1>10, <3>2 DEF WrittenIn, CheckpointDeletes
  <2> QED
    BY <1>4, <1>5, <1>10, <2>1, <2>2, ZenonT(60) DEF CheckpointDeletes, PCs, UnderWay
<1>11. CASE UnlockTable
  <2>1. checkpoint' = [checkpoint EXCEPT !.pc = "finishing", !.type = type0, !.lowest = low0]
    BY <1>1, <1>11 DEF UnlockTable, Checkpoints
  <2> QED
    BY <1>1, <1>4, <1>5, <1>11, <2>1 DEF UnlockTable, PCs, UnderWay
<1> QED
  BY <1>3, <1>7, <1>8, <1>9, <1>10, <1>11

\* A checkpoint gets its id.
LEMMA WALStartCheckpointShape ==
    ASSUME ShapeInv, WALStartCheckpoint
    PROVE  ShapeInv'
<1>1. Types /\ Good(version_info) /\ Counters /\ checkpoint \in Checkpoints
  BY DEF ShapeInv, Types
<1>2. /\ checkpoint.pc = "created" /\ \A t \in Txns : ~Flushed(t)
      /\ active_checkpoint' = last_commit
      /\ checkpoint' = [checkpoint EXCEPT !.pc = "started", !.id = last_commit, !.rows = Committed]
      /\ status' = status /\ append_info' = append_info /\ cleanup' = cleanup /\ count' = count
      /\ version_info' = version_info
      /\ current_start_timestamp' = current_start_timestamp
      /\ current_transaction_id' = current_transaction_id /\ last_commit' = last_commit
  BY DEF WALStartCheckpoint, transactions, Flushed
<1>3. last_commit \in Nat /\ last_commit \in Ids /\ Committed \subseteq Rows
  <2>1. Committed \subseteq 0 .. count - 1
    BY DEF Committed, GetSelVector
  <2>2. 0 .. count - 1 \subseteq Rows
    BY <1>1, Constants DEF Types
  <2> QED
    BY <2>1, <2>2, Bounds, Constants
<1>4. /\ checkpoint' \in Checkpoints /\ checkpoint'.pc = "started" /\ checkpoint'.id = last_commit
      /\ checkpoint'.left = checkpoint.left /\ checkpoint'.bind = checkpoint.bind
      /\ checkpoint'.statement = checkpoint.statement
  BY <1>1, <1>2, <1>3 DEF Checkpoints, PCs
<1>5. Types'
  BY <1>1, <1>2, <1>3, <1>4 DEF Types, WALStartCheckpoint, transactions
<1>6. One(BindStarted)' = One(BindStarted) /\ One(BindEnded)' = One(BindEnded)
  BY <1>2, <1>4 DEF One, BindStarted, BindEnded
<1>7. /\ checkpoint.left \in Nat /\ One(BindStarted) \in {0, 1} /\ One(BindEnded) \in {0, 1}
      /\ current_start_timestamp \in Nat /\ current_transaction_id \in Nat
  BY <1>1, BindValues DEF Types
<1>8. /\ 2 * checkpoint'.left - One(BindStarted)' - One(BindEnded)' + 0
            <= 2 * checkpoint.left - One(BindStarted) - One(BindEnded)
      /\ checkpoint'.left - One(BindStarted)' + 0 <= checkpoint.left - One(BindStarted)
      /\ current_start_timestamp' <= current_start_timestamp + 0
      /\ current_transaction_id' <= current_transaction_id + 0
  BY <1>2, <1>4, <1>6, <1>7
<1>9. ActiveCheckpoint'
  BY <1>2, <1>3, <1>4 DEF ActiveCheckpoint, UnderWay
<1>10. /\ checkpoint'.pc # "idle" => checkpoint'.left > 0
       /\ checkpoint'.bind # 0 => checkpoint'.pc \in UnderWay /\ checkpoint'.statement
  BY <1>1, <1>2, <1>4 DEF Counters, UnderWay
<1>11. Good(version_info') /\ (version_info'.vector_info = NoInfo => version_info.vector_info = NoInfo)
  BY <1>1, <1>2
<1> QED
  BY <1>2, <1>5, <1>8, <1>9, <1>10, <1>11, CheckpointStepShape

\* The bind transaction of a CHECKPOINT statement starts.
LEMMA StartBindShape ==
    ASSUME ShapeInv, StartBindTransaction
    PROVE  ShapeInv'
<1>1. Types /\ Good(version_info) /\ Counters /\ ActiveCheckpoint /\ checkpoint \in Checkpoints
  BY DEF ShapeInv, Types
<1>2. /\ checkpoint.pc = "started" /\ checkpoint.statement /\ checkpoint.bind = 0
      /\ checkpoint' = [checkpoint EXCEPT !.bind = current_start_timestamp]
      /\ active_checkpoint' = active_checkpoint
      /\ status' = status /\ append_info' = append_info /\ cleanup' = cleanup /\ count' = count
      /\ version_info' = version_info
      /\ current_start_timestamp' = current_start_timestamp + 1
      /\ current_transaction_id' = current_transaction_id + 1 /\ last_commit' = last_commit
      /\ lowest_active_start' \in {current_start_timestamp, lowest_active_start}
  BY DEF StartBindTransaction, transactions
<1>3. /\ checkpoint.left \in Nat
      /\ current_start_timestamp \in Nat /\ current_start_timestamp >= 2 /\ current_transaction_id \in Nat
      /\ current_start_timestamp \in Ids
  BY <1>1, BindValues, Bounds DEF Types
<1>4. /\ checkpoint' \in Checkpoints /\ checkpoint'.pc = "started"
      /\ checkpoint'.left = checkpoint.left /\ checkpoint'.bind = current_start_timestamp
      /\ checkpoint'.statement = checkpoint.statement /\ checkpoint'.id = checkpoint.id
  BY <1>1, <1>2, <1>3 DEF Checkpoints
<1>5. Types'
  <2>1. /\ current_start_timestamp' \in Nat /\ current_start_timestamp' >= 2
        /\ current_transaction_id' \in Nat /\ current_transaction_id' >= TRANSACTION_ID_START
        /\ last_commit' \in Nat /\ last_commit' < current_start_timestamp'
    BY <1>1, <1>2, Constants, SMTT(60) DEF Types
  <2>2. lowest_active_start' \in Ids
    BY <1>1, <1>2, <1>3 DEF Types
  <2> QED
    BY <1>1, <1>2, <1>4, <2>1, <2>2 DEF Types, StartBindTransaction, transactions
<1>6. /\ One(BindStarted)' = 1 /\ One(BindEnded)' = 0 /\ One(BindStarted) = 0 /\ One(BindEnded) = 0
  BY <1>2, <1>3, <1>4 DEF One, BindStarted, BindEnded
<1>7. /\ 2 * checkpoint'.left - One(BindStarted)' - One(BindEnded)' + 1
            <= 2 * checkpoint.left - One(BindStarted) - One(BindEnded)
      /\ checkpoint'.left - One(BindStarted)' + 1 <= checkpoint.left - One(BindStarted)
      /\ current_start_timestamp' <= current_start_timestamp + 1
      /\ current_transaction_id' <= current_transaction_id + 1
  BY <1>2, <1>3, <1>4, <1>6
<1>8. ActiveCheckpoint'
  BY <1>1, <1>2, <1>4 DEF ActiveCheckpoint
<1>9. /\ checkpoint'.pc # "idle" => checkpoint'.left > 0
      /\ checkpoint'.bind # 0 => checkpoint'.pc \in UnderWay /\ checkpoint'.statement
      /\ checkpoint'.pc \in UnderWay => checkpoint.pc \in UnderWay
  BY <1>1, <1>2, <1>4 DEF Counters, UnderWay
<1>10. Good(version_info') /\ (version_info'.vector_info = NoInfo => version_info.vector_info = NoInfo)
  BY <1>1, <1>2
<1> QED
  BY <1>2, <1>5, <1>7, <1>8, <1>9, <1>10, CheckpointStepShape

\* The bind transaction commits.
LEMMA CommitBindShape ==
    ASSUME ShapeInv, CommitBindTransaction
    PROVE  ShapeInv'
<1>1. Types /\ Good(version_info) /\ Counters /\ ActiveCheckpoint /\ checkpoint \in Checkpoints
  BY DEF ShapeInv, Types
<1> PICK S : S = {TRANSACTION_ID_START, active_checkpoint} \cup {start_time[u] : u \in Running}
  OBVIOUS
<1>2. /\ checkpoint.pc = "finishing" /\ checkpoint.bind # 0
      /\ checkpoint' = [checkpoint EXCEPT !.bind = 0]
      /\ active_checkpoint' = active_checkpoint
      /\ status' = status /\ append_info' = append_info /\ cleanup' = cleanup /\ count' = count
      /\ version_info' = version_info
      /\ current_start_timestamp' = current_start_timestamp + 1
      /\ current_transaction_id' = current_transaction_id /\ last_commit' = current_start_timestamp
      /\ lowest_active_start' = Min(S)
  BY DEF CommitBindTransaction, transactions
<1>3. /\ checkpoint.left \in Nat /\ checkpoint.id \in Nat /\ last_commit \in Nat
      /\ current_start_timestamp \in Nat /\ current_start_timestamp >= 2 /\ current_transaction_id \in Nat
      /\ last_commit < current_start_timestamp
  BY <1>1, BindValues DEF Types
<1>4. /\ checkpoint' \in Checkpoints /\ checkpoint'.pc = "finishing"
      /\ checkpoint'.left = checkpoint.left /\ checkpoint'.bind = 0
      /\ checkpoint'.statement = checkpoint.statement /\ checkpoint'.id = checkpoint.id
  BY <1>1, <1>2 DEF Checkpoints
<1>5. Types'
  <2>1. /\ current_start_timestamp' \in Nat /\ current_start_timestamp' >= 2
        /\ last_commit' \in Nat /\ last_commit' < current_start_timestamp'
    BY <1>2, <1>3
  <2>2. lowest_active_start' \in Ids
    <3>1. S \subseteq Nat /\ TRANSACTION_ID_START \in S
      BY <1>1, Constants DEF Types, Running
    <3> QED
      BY <1>2, <3>1, LowestType
  <2> QED
    BY <1>1, <1>2, <1>4, <2>1, <2>2 DEF Types, CommitBindTransaction, transactions
<1>6. /\ One(BindStarted)' = 1 /\ One(BindEnded)' = 1 /\ One(BindStarted) = 1 /\ One(BindEnded) = 0
  BY <1>1, <1>2, <1>4 DEF One, BindStarted, BindEnded, Counters
<1>7. /\ 2 * checkpoint'.left - One(BindStarted)' - One(BindEnded)' + 1
            <= 2 * checkpoint.left - One(BindStarted) - One(BindEnded)
      /\ checkpoint'.left - One(BindStarted)' + 0 <= checkpoint.left - One(BindStarted)
      /\ current_start_timestamp' <= current_start_timestamp + 1
      /\ current_transaction_id' <= current_transaction_id + 0
  BY <1>2, <1>3, <1>4, <1>6
<1>8. ActiveCheckpoint'
  BY <1>1, <1>2, <1>3, <1>4 DEF ActiveCheckpoint
<1>9. /\ checkpoint'.pc # "idle" => checkpoint'.left > 0
      /\ checkpoint'.bind # 0 => checkpoint'.pc \in UnderWay /\ checkpoint'.statement
      /\ checkpoint'.pc \in UnderWay => checkpoint.pc \in UnderWay
  BY <1>1, <1>2, <1>4 DEF Counters, UnderWay
<1>10. Good(version_info') /\ (version_info'.vector_info = NoInfo => version_info.vector_info = NoInfo)
  BY <1>1, <1>2
<1> QED
  BY <1>2, <1>5, <1>7, <1>8, <1>9, <1>10, CheckpointStepShape

\* A checkpoint ends.
LEMMA FinishCheckpointShape ==
    ASSUME ShapeInv, FinishCheckpoint
    PROVE  ShapeInv'
<1>1. Types /\ Good(version_info) /\ Counters /\ checkpoint \in Checkpoints
  BY DEF ShapeInv, Types
<1>2. /\ checkpoint.pc = "finishing" /\ checkpoint.bind = 0
      /\ checkpoint' = [Idle EXCEPT !.left = checkpoint.left - 1]
      /\ active_checkpoint' = MAX_TRANSACTION_ID
      /\ status' = status /\ append_info' = append_info /\ cleanup' = cleanup /\ count' = count
      /\ version_info' = version_info
      /\ current_start_timestamp' = current_start_timestamp
      /\ current_transaction_id' = current_transaction_id /\ last_commit' = last_commit
  BY DEF FinishCheckpoint, transactions
<1>3. /\ checkpoint.left \in 1 .. MaxCheckpoints /\ checkpoint.left - 1 \in 0 .. MaxCheckpoints
      /\ current_start_timestamp \in Nat /\ current_transaction_id \in Nat /\ MaxCheckpoints \in Nat
  <2>1. checkpoint.left > 0 /\ checkpoint.left \in 0 .. MaxCheckpoints
    BY <1>1, <1>2 DEF Counters, Checkpoints
  <2> QED
    BY <1>1, <2>1, Constants DEF Types
<1>4. /\ checkpoint' \in Checkpoints /\ checkpoint'.pc = "idle"
      /\ checkpoint'.left = checkpoint.left - 1 /\ checkpoint'.bind = 0
  <2>1. checkpoint' = [pc |-> "idle", type |-> "none", left |-> checkpoint.left - 1, statement |-> FALSE,
                       id |-> 0, bind |-> 0, lowest |-> 0, rows |-> {}]
    BY <1>2 DEF Idle
  <2>2. 0 \in Ids
    BY Constants
  <2> QED
    BY <1>3, <2>1, <2>2 DEF Checkpoints, PCs
<1>5. Types'
  BY <1>1, <1>2, <1>4, Constants DEF Types, FinishCheckpoint, transactions
<1>6. /\ One(BindStarted)' = 0 /\ One(BindEnded)' = 0
      /\ One(BindStarted) = One(BindEnded) /\ One(BindStarted) \in {0, 1}
  BY <1>1, <1>2, <1>4 DEF One, BindStarted, BindEnded
<1>7. /\ 2 * checkpoint'.left - One(BindStarted)' - One(BindEnded)' + 0
            <= 2 * checkpoint.left - One(BindStarted) - One(BindEnded)
      /\ checkpoint'.left - One(BindStarted)' + 0 <= checkpoint.left - One(BindStarted)
      /\ current_start_timestamp' <= current_start_timestamp + 0
      /\ current_transaction_id' <= current_transaction_id + 0
  BY <1>2, <1>3, <1>4, <1>6
<1>8. ActiveCheckpoint'
  BY <1>2, <1>4 DEF ActiveCheckpoint, UnderWay
<1>9. /\ checkpoint'.pc # "idle" => checkpoint'.left > 0
      /\ checkpoint'.bind # 0 => checkpoint'.pc \in UnderWay /\ checkpoint'.statement
      /\ checkpoint'.pc \in UnderWay => checkpoint.pc \in UnderWay
  BY <1>4 DEF UnderWay
<1>10. Good(version_info') /\ (version_info'.vector_info = NoInfo => version_info.vector_info = NoInfo)
  BY <1>1, <1>2
<1> QED
  BY <1>2, <1>5, <1>7, <1>8, <1>9, <1>10, CheckpointStepShape

\* The manager after a restart.
LEMMA RestartManager ==
    ASSUME ShapeInv, Restart
    PROVE  \E mid, low, id :
            /\ low = lowest_active_start /\ low \in Ids /\ id = last_commit /\ id \in Nat
            /\ CompressedIn(version_info, mid, low)
            /\ \E new : WrittenIn(mid, new, id) /\ Deserialized(new, version_info')
<1> PICK m : m = version_info
  OBVIOUS
<1> PICK low \in Ids : low = lowest_active_start
  BY DEF ShapeInv, Types
<1> PICK id \in Nat : id = last_commit
  BY DEF ShapeInv, Types
<1> PICK mid : mid = ManagerCompressVersionIds(m, low)
  OBVIOUS
<1> PICK new : new = ManagerCheckpoint(mid, id)
  OBVIOUS
<1>1. Good(m)
  BY DEF ShapeInv
<1>2. CompressedIn(m, mid, low)
  BY <1>1, ManagerCompressEffect
<1>3. Good(mid)
  BY <1>2 DEF CompressedIn
<1>4. WrittenIn(mid, new, id)
  BY <1>3, ManagerCheckpointEffect
<1>5. Good(new)
  BY <1>4 DEF WrittenIn
<1>6. Deserialized(new, Deserialize(new))
  BY <1>5, DeserializeEffect
<1>7. version_info' = Deserialize(new)
  BY DEF Restart
<1> QED
  BY <1>2, <1>4, <1>6, <1>7

\* The database is closed and opened.
LEMMA RestartShape ==
    ASSUME ShapeInv, Restart
    PROVE  ShapeInv'
<1>1. Types /\ Counters /\ ActiveCheckpoint /\ Appends
  BY DEF ShapeInv
<1>2. /\ checkpoint.pc = "idle" /\ Running = {}
      /\ checkpoint' = checkpoint /\ active_checkpoint' = active_checkpoint
      /\ status' = status /\ append_info' = append_info /\ cleanup' = cleanup /\ count' = count
      /\ current_start_timestamp' = 2 /\ current_transaction_id' = TRANSACTION_ID_START
      /\ last_commit' = 0 /\ lowest_active_start' = MAX_TRANSACTION_ID
  BY DEF Restart, transactions
<1>3. Types'
  BY <1>1, <1>2, Constants DEF Types, Restart, transactions
<1>4. Good(version_info')
  BY RestartManager DEF Deserialized
<1>5. \A t \in Txns : ~Flushed(t)
  BY <1>2 DEF Running, Flushed
<1>6. Appends'
  BY <1>1, <1>2, <1>5 DEF Appends, Appended, LastAppend, CleanupPending, Flushed, FirstRow, LastRow
<1>7. Counters'
  <2>1. Idles' = Idles /\ Running' = Running /\ One(BindStarted)' = One(BindStarted)
        /\ One(BindEnded)' = One(BindEnded)
    BY <1>2 DEF Idles, Running, One, BindStarted, BindEnded
  <2>2. /\ Cardinality(Idles) \in Nat /\ Cardinality(Running) \in Nat /\ checkpoint.left \in Nat
        /\ One(BindStarted) \in {0, 1} /\ One(BindEnded) \in {0, 1}
        /\ current_start_timestamp \in Nat /\ current_transaction_id \in Nat
        /\ current_start_timestamp >= 2 /\ current_transaction_id >= TRANSACTION_ID_START
    BY <1>1, Counts, BindValues DEF Types
  <2>3. /\ 2 * Cardinality(Idles') + Cardinality(Running') + 2 * checkpoint'.left
              - One(BindStarted)' - One(BindEnded)' + 0
           <= 2 * Cardinality(Idles) + Cardinality(Running) + 2 * checkpoint.left
              - One(BindStarted) - One(BindEnded)
        /\ Cardinality(Idles') + checkpoint'.left - One(BindStarted)' + 0
           <= Cardinality(Idles) + checkpoint.left - One(BindStarted)
    BY <1>2, <2>1, <2>2
  <2>4. /\ current_start_timestamp' <= current_start_timestamp + 0
        /\ current_transaction_id' <= current_transaction_id + 0
    BY <1>2, <2>2, Constants
  <2>5. /\ checkpoint'.pc # "idle" => checkpoint'.left > 0
        /\ checkpoint'.bind # 0 => checkpoint'.pc \in UnderWay /\ checkpoint'.statement
    BY <1>1, <1>2 DEF Counters
  <2> QED
    BY <1>1, <1>3, <2>3, <2>4, <2>5, CountersStep
<1>8. ActiveCheckpoint'
  BY <1>1, <1>2 DEF ActiveCheckpoint, UnderWay
<1> QED
  BY <1>3, <1>4, <1>6, <1>7, <1>8 DEF ShapeInv

\* Every step keeps the invariant.
LEMMA NextShape == ShapeInv /\ [Next]_vars => ShapeInv'
<1> SUFFICES ASSUME ShapeInv, [Next]_vars PROVE ShapeInv'
  OBVIOUS
<1>1. ASSUME NEW t \in Txns,
             \/ StartTransaction(t)
             \/ \E rows \in DeleteInputs(t) : DeleteStatement(t, rows)
             \/ \E n \in 1 .. VectorSize, optimistic \in BOOLEAN : FlushAppend(t, n, optimistic)
             \/ CommitTransaction(t)
             \/ RollbackTransaction(t)
             \/ CommitFails(t)
             \/ FlushFails(t)
             \/ CleanupTransaction(t)
      PROVE  ShapeInv'
  BY <1>1, StartTransactionShape, DeleteStatementShape, FlushAppendShape, CommitTransactionShape,
     RollbackShape, CleanupTransactionShape
<1>2. CASE UNCHANGED vars
  BY <1>2 DEF vars, manager, transactions, ShapeInv, Types, Appends, Appended, LastAppend, CleanupPending,
     Flushed, FirstRow, LastRow, Counters, Idles, Running, BindStarted, BindEnded, ActiveCheckpoint
<1> QED
  BY <1>1, <1>2, PhaseStepShape, WALStartCheckpointShape, StartBindShape, CommitBindShape,
     FinishCheckpointShape, RestartShape DEF Next

\* ShapeInv holds in every state.
THEOREM ShapeInvariant == Spec => []ShapeInv
  BY InitShape, NextShape, PTL DEF Spec

\* How the ids of a vector are stored is what the flags say, whatever transactions and checkpoints
\* do in whatever order: a vector whose check is disarmed (recheck_compression) has nothing left to
\* compress, and a manager whose check is disarmed has no vector that is armed
\* (VerifyCachedCompressionState of chunk_info.cpp).  The clocks do not run into the ids.
THEOREM CachedCompressionIsCurrent == Spec => []CachedCompressionHolds
<1>1. ShapeInv => CachedCompressionHolds
  <2> SUFFICES ASSUME ShapeInv PROVE CachedCompressionHolds
    OBVIOUS
  <2>1. Types /\ Good(version_info)
    BY DEF ShapeInv
  <2>2. TypeOK
    <3>1. /\ current_start_timestamp \in 2 .. TRANSACTION_ID_START - 1
          /\ current_transaction_id \in TRANSACTION_ID_START .. NOT_DELETED_ID - 1
          /\ last_commit \in 0 .. TRANSACTION_ID_START - 1
      BY Bounds
    <3>2. transaction_id \in [Txns -> {0} \cup TRANSACTION_ID_START .. NOT_DELETED_ID]
      <4>1. TRANSACTION_ID_START .. NOT_DELETED_ID - 1 \subseteq TRANSACTION_ID_START .. NOT_DELETED_ID
        BY Constants
      <4> QED
        BY <2>1, <4>1 DEF Types
    <3>3. \A t \in Txns : \A i \in DOMAIN undo_buffer[t] : undo_buffer[t][i].rows \subseteq Rows
      <4>1. ASSUME NEW t \in Txns, NEW i \in DOMAIN undo_buffer[t] PROVE undo_buffer[t][i].rows \subseteq Rows
        <5>1. undo_buffer[t] \in Seq(DeleteInfos)
          BY <2>1 DEF Types
        <5>2. undo_buffer[t][i] \in DeleteInfos
          BY <5>1
        <5> QED
          BY <5>2 DEF DeleteInfos
      <4> QED
        BY <4>1
    <3>4. \A t \in Txns : append_info[t] # <<>> => append_info[t] \in Rows \X Rows
      BY <2>1 DEF Types
    <3>5. /\ version_info.vector_info \in VectorInfos \cup {NoInfo} /\ version_info.storage \subseteq Rows
      BY <2>1, ManagerFields
    <3> QED
      BY <2>1, <3>1, <3>2, <3>3, <3>4, <3>5, BindValues DEF TypeOK, Types, Statuses
  <2> PICK info : info = version_info.vector_info
    OBVIOUS
  <2>3. ASSUME info # NoInfo
        PROVE  /\ ~info.recheck_compression =>
                    /\ info.constant_insert
                    /\ info.delete_state # "ARRAY"
                    /\ info.delete_state = "MASKED" => DeletedRows(info) \notin {{}, Rows}
               /\ ~version_info.needs_compression_check => ~info.recheck_compression
    BY <2>1, <2>3 DEF Good, Shape
  <2> QED
    BY <2>2, <2>3 DEF CachedCompressionHolds
<1> QED
  BY <1>1, ShapeInvariant, PTL
=============================================================================

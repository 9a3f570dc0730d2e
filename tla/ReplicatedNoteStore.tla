------------------------ MODULE ReplicatedNoteStore ------------------------
(***************************************************************************)
(* The indexer's note store with read replicas.  Writes go to the primary  *)
(* and at once to the replicas thought healthy; reads rotate over those.   *)
(* What a store holds is the set of leaf indices of its notes.             *)
(***************************************************************************)
EXTENDS Integers, Sequences, FiniteSets

CONSTANTS
    Replicas,   \* the number of replicas; they are numbered from 0
    ReadLimit   \* limit of GET /notes?after=

ASSUME StoreAssumption == Replicas \in Nat /\ ReadLimit \in Nat \ {0}

VARIABLES
    primary,         \* notes of the primary
    replica,         \* notes of each replica
    replicaHealthy,
    nextReplica

storeVars == <<primary, replica, replicaHealthy, nextReplica>>

ReplicaIds == 0 .. Replicas - 1

\* A store some time after it was opened: inserts may have failed.
InitReplicas ==
    /\ \E failing \in SUBSET ReplicaIds :
         /\ replica = [i \in ReplicaIds |->
                         IF i \in failing THEN primary \ {Cardinality(primary) - 1}
                         ELSE primary]
         /\ replicaHealthy = [i \in ReplicaIds |-> i \notin failing]
    /\ nextReplica = 0

\* Mutant: a replica whose insert failed stays healthy.
InsertNoteUnnoticed(leaf, failing) ==
    /\ primary' = primary \cup {leaf}
    /\ replica' = [i \in ReplicaIds |->
                     IF replicaHealthy[i] /\ i \notin failing
                     THEN replica[i] \cup {leaf} ELSE replica[i]]
    /\ UNCHANGED <<replicaHealthy, nextReplica>>

\* insertNote(): the inserts of the replicas in `failing` throw.
InsertNote(leaf, failing) ==
    /\ primary' = primary \cup {leaf}
    /\ replica' = [i \in ReplicaIds |->
                     IF replicaHealthy[i] /\ i \notin failing
                     THEN replica[i] \cup {leaf} ELSE replica[i]]
    /\ replicaHealthy' = [i \in ReplicaIds |->
                            replicaHealthy[i] /\ i \notin failing]
    /\ UNCHANGED nextReplica

-----------------------------------------------------------------------------
(* Reads.                                                                  *)

\* The k-th replica that readFromReplica() comes to.
InTurn(k) == (nextReplica + k) % Replicas

\* The replicas that are tried up to the k-th; all but the last one throw.
Tried(k) == {InTurn(j) : j \in 0 .. k}

\* readFromReplica() is answered by the replica at position k, after those
\* before it that were healthy threw.
ReadFromReplica(k) ==
    /\ replicaHealthy[InTurn(k)]
    /\ replicaHealthy' = [i \in ReplicaIds |->
                            replicaHealthy[i] /\ (i \in Tried(k) => i = InTurn(k))]
    /\ nextReplica' = (InTurn(k) + 1) % Replicas
    /\ UNCHANGED <<primary, replica>>

\* Every healthy replica throws, or there is none: the primary answers.
ReadFromPrimary ==
    /\ replicaHealthy' = [i \in ReplicaIds |-> FALSE]
    /\ UNCHANGED <<primary, replica, nextReplica>>

\* Mutant: the leaf asked from is left out.
NotesAfterExclusive(notes, leaf) ==
    LET found == {i \in notes : i > leaf}
        sorted == [k \in 1 .. Cardinality(found) |->
                     CHOOSE i \in found : Cardinality({j \in found : j < i}) = k - 1]
    IN  SubSeq(sorted, 1,
               IF Cardinality(found) < ReadLimit THEN Cardinality(found)
               ELSE ReadLimit)

\* getNotesAfter(): the notes from a leaf on, that leaf included, in order.
NotesAfter(notes, leaf) ==
    LET found == {i \in notes : i >= leaf}
        sorted == [k \in 1 .. Cardinality(found) |->
                     CHOOSE i \in found : Cardinality({j \in found : j < i}) = k - 1]
    IN  SubSeq(sorted, 1,
               IF Cardinality(found) < ReadLimit THEN Cardinality(found)
               ELSE ReadLimit)

-----------------------------------------------------------------------------
(* Repair and restart.                                                     *)

\* resyncReplica(): every insert that throws is taken for a duplicate.
ResyncReplica(i, failing) ==
    /\ primary # {}
    /\ replica' = [replica EXCEPT ![i] = @ \cup (primary \ failing)]
    /\ replicaHealthy' = [replicaHealthy EXCEPT ![i] = TRUE]
    /\ UNCHANGED <<primary, nextReplica>>

\* The process is started again on the same files.
Reopen ==
    /\ replicaHealthy' = [i \in ReplicaIds |-> TRUE]
    /\ nextReplica' = 0
    /\ UNCHANGED <<primary, replica>>

=============================================================================

----------------------------- MODULE Sha256Tree -----------------------------
(***************************************************************************)
(* The incremental SHA-256 Merkle tree that the pool contract keeps for    *)
(* its deposits.  A hash is the term it is computed from: Hash is          *)
(* injective, which is what collision resistance gives the contract.       *)
(***************************************************************************)
EXTENDS Integers

CONSTANTS
    TreeDepth,  \* TREE_DEPTH
    ZeroBytes   \* bytes32(0)

ASSUME TreeAssumption == TreeDepth \in Nat \ {0}

Levels == 0 .. TreeDepth - 1

Hash(left, right) == <<left, right>>

\* _zeros: the constructor starts the chain at the hash of two zero words, so
\* the sibling of a lone leaf is a hash and not bytes32(0).
Zeros[level \in Levels] ==
    IF level = 0 THEN Hash(ZeroBytes, ZeroBytes)
                 ELSE Hash(Zeros[level - 1], Zeros[level - 1])

\* _insertLeaf's variable `idx` on entry to each level; what is left of it at
\* TreeDepth is never looked at.
IndexAt(leafIndex) ==
    LET idx[level \in 0 .. TreeDepth] ==
            IF level = 0 THEN leafIndex ELSE idx[level - 1] \div 2
    IN  idx

\* Whether the path of a leaf is a left child at this level.
LeftAt(leafIndex, level) == IndexAt(leafIndex)[level] % 2 = 0

\* _insertLeaf's variable `current` on entry to each level; at TreeDepth it is
\* the new root.
PathHashes(subtrees, idx, leaf) ==
    LET current[level \in 0 .. TreeDepth] ==
            IF level = 0 THEN leaf
            ELSE IF LeftAt(idx, level - 1)
                 THEN Hash(current[level - 1], Zeros[level - 1])
                 ELSE Hash(subtrees[level - 1], current[level - 1])
    IN  current

SubtreesAfter(subtrees, idx, leaf) ==
    [level \in Levels |-> IF LeftAt(idx, level)
                          THEN PathHashes(subtrees, idx, leaf)[level]
                          ELSE subtrees[level]]

RootAfter(subtrees, idx, leaf) == PathHashes(subtrees, idx, leaf)[TreeDepth]

=============================================================================

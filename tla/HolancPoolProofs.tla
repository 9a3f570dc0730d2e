-------------------------- MODULE HolancPoolProofs --------------------------
(***************************************************************************)
(* The pool contract for every set of notes, every number of nullifiers a  *)
(* note may have, every assignment of nullifiers to registry bits and      *)
(* every bound: its types, that no nullifier is accepted twice, that it    *)
(* implements the ledger and what follows for its vault, how long a root   *)
(* is known and which deposits an accepted one covers; and that any ledger *)
(* is backed by its vault but for what it has booked as unbacked.          *)
(***************************************************************************)
EXTENDS HolancPool, SequenceTheorems, WellFoundedInduction, TLAPS

\* A ledger with a state of its own, whatever implements it.
VARIABLES live, spent, vault, owed
AnyLedger == INSTANCE ShieldedLedger WITH unbacked <- owed

\* A registered nullifier's bit is set: what makes the one-bit registry safe.
RegisteredIsMarked ==
    \A nf \in Nullifiers : registered[nf] > 0 => SlotOf[nf] \in bitmap[0]

\* The half of BooksReconcile that does not depend on the ledger.
FeesAccounted == totalDeposited = vaultBalance + transferFees

PoolInv == TypeOK /\ RegisteredIsMarked /\ NoDoubleSpend /\ FeesAccounted

USE PoolAssumption, NotesAssumption, TreeAssumption

-----------------------------------------------------------------------------
(* What consuming and creating notes does to the value of a set of notes.  *)

\* A note taken out of a set takes its value with it.
LEMMA ValueWithout ==
    ASSUME NEW S \in SUBSET Notes, NEW n \in S
    PROVE  TotalValue[S \ {n}] = TotalValue[S] - ValueOf[n]
<1>1. S \ {n} \in SUBSET Notes /\ n \in Notes \ (S \ {n})
  OBVIOUS
<1>2. (S \ {n}) \cup {n} = S
  OBVIOUS
<1>3. TotalValue[S] = TotalValue[S \ {n}] + ValueOf[n]
  BY <1>1, <1>2, NotesAssumption
<1>4. TotalValue[S] \in Int /\ TotalValue[S \ {n}] \in Int /\ ValueOf[n] \in Int
  BY <1>1, NotesAssumption
<1> QED
  BY <1>3, <1>4

\* Adding a note unless it is in D adds at most its value.
LEMMA ValueWith ==
    ASSUME NEW S \in SUBSET Notes, NEW n \in Notes, NEW D
    PROVE  /\ S \cup ({n} \ D) \in SUBSET Notes
           /\ TotalValue[S \cup ({n} \ D)] <= TotalValue[S] + ValueOf[n]
<1>0. S \cup ({n} \ D) \in SUBSET Notes
  OBVIOUS
<1>1. TotalValue[S] \in Nat /\ ValueOf[n] \in Nat
  BY NotesAssumption
<1>2. CASE n \in D \/ n \in S
  <2>1. S \cup ({n} \ D) = S
    BY <1>2
  <2>2. TotalValue[S] <= TotalValue[S] + ValueOf[n]
    BY <1>1
  <2> QED
    BY <1>0, <2>1, <2>2
<1>3. CASE n \notin D /\ n \notin S
  <2>1. S \cup ({n} \ D) = S \cup {n}
    BY <1>3
  <2>2. TotalValue[S \cup {n}] = TotalValue[S] + ValueOf[n]
    BY <1>3, NotesAssumption
  <2>3. TotalValue[S] + ValueOf[n] <= TotalValue[S] + ValueOf[n]
    BY <1>1
  <2> QED
    BY <1>0, <2>1, <2>2, <2>3
<1> QED
  BY <1>2, <1>3

\* What the notes a and b are worth to a set: each is counted once, and only if
\* it is there.
Worth(S, a, b) ==
    (IF a \in S THEN ValueOf[a] ELSE 0)
    + (IF b \in S \ {a} THEN ValueOf[b] ELSE 0)

LEMMA PairWorth ==
    ASSUME NEW S \in SUBSET Notes, NEW a \in Notes, NEW b \in Notes
    PROVE  /\ Worth(S, a, b) \in Nat
           /\ TotalValue[S \cap {a, b}] = Worth(S, a, b)
           /\ TotalValue[S \ {a, b}] = TotalValue[S] - Worth(S, a, b)
<1>1. ValueOf[a] \in Nat /\ ValueOf[b] \in Nat /\ TotalValue[S] \in Nat
      /\ TotalValue[{}] = 0
  OBVIOUS
<1>2. ASSUME NEW x \in Notes PROVE TotalValue[{x}] = ValueOf[x]
  <2>1. {} \in SUBSET Notes /\ x \in Notes \ {} /\ {} \cup {x} = {x}
    OBVIOUS
  <2>2. TotalValue[{} \cup {x}] = TotalValue[{}] + ValueOf[x]
    BY <2>1, NotesAssumption
  <2>3. ValueOf[x] \in Nat
    OBVIOUS
  <2> QED
    BY <2>1, <2>2, <2>3, <1>1
<1>3. CASE a \notin S /\ b \notin S
  <2>1. S \cap {a, b} = {} /\ S \ {a, b} = S
    BY <1>3
  <2>2. Worth(S, a, b) = 0
    BY <1>3 DEF Worth
  <2>3. TotalValue[S] - 0 = TotalValue[S]
    BY <1>1
  <2>4. TotalValue[S \cap {a, b}] = 0
    BY <1>1, <2>1, Zenon
  <2>5. TotalValue[S \ {a, b}] = TotalValue[S] - 0
    BY <2>1, <2>3, Zenon
  <2> QED
    BY <2>2, <2>4, <2>5
<1>4. CASE a \in S /\ b \notin S \ {a}
  <2>1. S \cap {a, b} = {a} /\ S \ {a, b} = S \ {a}
    BY <1>4
  <2>2. Worth(S, a, b) = ValueOf[a]
    BY <1>1, <1>4 DEF Worth
  <2>3. TotalValue[S \ {a}] = TotalValue[S] - ValueOf[a]
    BY <1>4, ValueWithout
  <2> QED
    BY <1>1, <1>2, <2>1, <2>2, <2>3
<1>5. CASE a \notin S /\ b \in S
  <2>1. S \cap {a, b} = {b} /\ S \ {a, b} = S \ {b}
    BY <1>5
  <2>2. Worth(S, a, b) = ValueOf[b]
    BY <1>1, <1>5 DEF Worth
  <2>3. TotalValue[S \ {b}] = TotalValue[S] - ValueOf[b]
    BY <1>5, ValueWithout
  <2> QED
    BY <1>1, <1>2, <2>1, <2>2, <2>3
<1>6. CASE a \in S /\ b \in S \ {a}
  <2>1. /\ S \cap {a, b} = {a} \cup {b} /\ S \ {a, b} = (S \ {a}) \ {b}
        /\ {a} \in SUBSET Notes /\ b \in Notes \ {a}
        /\ S \ {a} \in SUBSET Notes
    BY <1>6
  <2>2. Worth(S, a, b) = ValueOf[a] + ValueOf[b]
    BY <1>6 DEF Worth
  <2>3. TotalValue[{a} \cup {b}] = TotalValue[{a}] + ValueOf[b]
    BY <2>1, NotesAssumption
  <2>4. TotalValue[S \ {a}] = TotalValue[S] - ValueOf[a]
    BY <1>6, ValueWithout
  <2>5. TotalValue[(S \ {a}) \ {b}] = TotalValue[S \ {a}] - ValueOf[b]
    BY <1>6, <2>1, ValueWithout
  <2>6. TotalValue[{a}] = ValueOf[a]
    BY <1>2
  <2>7. TotalValue[S \cap {a, b}] = ValueOf[a] + ValueOf[b]
    BY <2>1, <2>3, <2>6
  <2>8. TotalValue[S \ {a, b}] = TotalValue[S] - ValueOf[a] - ValueOf[b]
    BY <2>1, <2>4, <2>5
  <2> QED
    BY <1>1, <2>2, <2>7, <2>8
<1> QED
  BY <1>3, <1>4, <1>5, <1>6

\* Two notes make room for two others, unless those are dead already.
LEMMA ValueReplaced ==
    ASSUME NEW S \in SUBSET Notes, NEW in1 \in Notes, NEW in2 \in Notes,
           NEW out1 \in Notes, NEW out2 \in Notes,
           NEW D, in1 \in D, in2 \in D, S \cap D \subseteq {in1, in2}
    PROVE  /\ (S \cup {out1, out2}) \ D \in SUBSET Notes
           /\ TotalValue[(S \cup {out1, out2}) \ D] <=
                 TotalValue[S] - Worth(S, in1, in2)
                               + ValueOf[out1] + ValueOf[out2]
<1> DEFINE kept == S \ {in1, in2}
           one == kept \cup ({out1} \ D)
           two == one \cup ({out2} \ D)
<1>2. TotalValue[kept] = TotalValue[S] - Worth(S, in1, in2)
      /\ Worth(S, in1, in2) \in Nat
  BY PairWorth
<1>3. kept \in SUBSET Notes
  OBVIOUS
<1>4. one \in SUBSET Notes /\ TotalValue[one] <= TotalValue[kept] + ValueOf[out1]
  BY <1>3, ValueWith
<1>5. two \in SUBSET Notes /\ TotalValue[two] <= TotalValue[one] + ValueOf[out2]
  BY <1>4, ValueWith
<1>6. (S \cup {out1, out2}) \ D = two
  OBVIOUS
<1>7. /\ TotalValue[S] \in Nat /\ TotalValue[kept] \in Nat
      /\ TotalValue[one] \in Nat /\ TotalValue[two] \in Nat
      /\ ValueOf[out1] \in Nat /\ ValueOf[out2] \in Nat
  BY <1>3, <1>4, <1>5, NotesAssumption
<1> HIDE DEF kept, one, two
<1>8. TotalValue[two] <= TotalValue[S] - Worth(S, in1, in2)
                                       + ValueOf[out1] + ValueOf[out2]
  BY <1>2, <1>4, <1>5, <1>7
<1> QED
  BY <1>5, <1>6, <1>8

\* Of constants: notes L that v, a vault and what is booked as unbacked, covers,
\* notes S dead.
BackedBy(L, S, v) ==
    /\ L \in SUBSET Notes /\ S \in SUBSET Notes /\ v \in Int
    /\ TotalValue[L] <= v
    /\ L \cap S = {}

\* A deposit pays for the note that it adds.
LEMMA MintedBacked ==
    ASSUME NEW L, NEW S, NEW v, BackedBy(L, S, v), NEW n \in Notes
    PROVE  BackedBy(L \cup ({n} \ S), S, v + ValueOf[n])
<1>1. /\ L \cup ({n} \ S) \in SUBSET Notes
      /\ TotalValue[L \cup ({n} \ S)] <= TotalValue[L] + ValueOf[n]
  BY ValueWith DEF BackedBy
<1>2. /\ ValueOf[n] \in Nat /\ TotalValue[L] \in Nat
      /\ TotalValue[L \cup ({n} \ S)] \in Nat
  BY <1>1 DEF BackedBy
<1> QED
  BY <1>1, <1>2 DEF BackedBy

\* What two notes are worth to the live ones pays for the two that replace them
\* and for what leaves the vault.
LEMMA SpentBacked ==
    ASSUME NEW L, NEW S, NEW v, BackedBy(L, S, v),
           NEW in1 \in Notes, NEW in2 \in Notes,
           NEW out1 \in Notes, NEW out2 \in Notes
    PROVE  BackedBy((L \cup {out1, out2}) \ (S \cup {in1, in2}),
                    S \cup {in1, in2},
                    v - TotalValue[L \cap {in1, in2}]
                      + ValueOf[out1] + ValueOf[out2])
<1> DEFINE D == S \cup {in1, in2}
           kept == (L \cup {out1, out2}) \ D
           worth == Worth(L, in1, in2)
<1>1. /\ kept \in SUBSET Notes
      /\ TotalValue[kept] <= TotalValue[L] - worth + ValueOf[out1] + ValueOf[out2]
  BY ValueReplaced DEF BackedBy
<1>2. D \in SUBSET Notes /\ kept \cap D = {}
  BY DEF BackedBy
<1>3. worth \in Nat /\ TotalValue[L \cap {in1, in2}] = worth
  BY PairWorth DEF BackedBy
<1>4. /\ TotalValue[L] \in Nat /\ TotalValue[kept] \in Nat
      /\ ValueOf[out1] \in Nat /\ ValueOf[out2] \in Nat
  BY <1>1 DEF BackedBy
<1>5. v \in Int /\ TotalValue[L] <= v
  BY DEF BackedBy
<1> DEFINE w == v - worth + ValueOf[out1] + ValueOf[out2]
<1> HIDE DEF kept, worth, D
<1>6. TotalValue[kept] <= w /\ w \in Int
  BY <1>1, <1>3, <1>4, <1>5
<1>7. BackedBy(kept, D, w)
  BY <1>1, <1>2, <1>6 DEF BackedBy
<1> QED
  BY <1>3, <1>7 DEF kept, D

-----------------------------------------------------------------------------
(* Leaves.                                                                 *)

\* The leaves under a root are notes, and the head covers every older root.
LEMMA LeavesUnderHead ==
    ASSUME TypeOK, NEW root \in 0 .. Len(leaves)
    PROVE  /\ LeavesUnder(root) \subseteq LeavesUnder(Len(leaves))
           /\ LeavesUnder(Len(leaves)) \subseteq Notes
BY DEF TypeOK, TreeOK, LeavesUnder

LEMMA KnownRootsAreOld ==
    ASSUME TypeOK, NEW root \in KnownRoots
    PROVE  root \in 0 .. Len(leaves)
BY DEF TypeOK, RootsOK, KnownRoots

\* The leaves under the head, of any log.
AllOf(s) == {s[i] : i \in 1 .. Len(s)}

\* Appending one leaf, or two, adds just them to the leaves under the head.
LEMMA LeavesAppended ==
    ASSUME NEW s \in Seq(Notes), NEW n \in Notes
    PROVE  AllOf(Append(s, n)) = AllOf(s) \cup {n}
<1> DEFINE t == Append(s, n)
<1>1. Len(t) = Len(s) + 1 /\ Len(s) \in Nat
  OBVIOUS
<1>2. t[Len(s) + 1] = n /\ \A i \in 1 .. Len(s) : t[i] = s[i]
  OBVIOUS
<1> HIDE DEF t
<1>3. AllOf(t) \subseteq AllOf(s) \cup {n}
  <2> SUFFICES ASSUME NEW i \in 1 .. Len(s) + 1
               PROVE  t[i] \in AllOf(s) \cup {n}
    BY <1>1 DEF AllOf
  <2>1. i \in 1 .. Len(s) \/ i = Len(s) + 1
    BY <1>1
  <2> QED
    BY <2>1, <1>2 DEF AllOf
<1>4. AllOf(s) \subseteq AllOf(t)
  <2> SUFFICES ASSUME NEW i \in 1 .. Len(s) PROVE s[i] \in AllOf(t)
    BY DEF AllOf
  <2>1. i \in 1 .. Len(t) /\ t[i] = s[i]
    BY <1>1, <1>2
  <2> QED
    BY <2>1 DEF AllOf
<1>5. n \in AllOf(t)
  <2>1. Len(s) + 1 \in 1 .. Len(t)
    BY <1>1
  <2> QED
    BY <2>1, <1>2 DEF AllOf
<1>6. AllOf(t) = AllOf(s) \cup {n}
  BY <1>3, <1>4, <1>5
<1> QED
  BY <1>6 DEF t

LEMMA OutputsAppended ==
    ASSUME NEW s \in Seq(Notes), NEW out1 \in Notes, NEW out2 \in Notes
    PROVE  /\ s \o <<out1, out2>> \in Seq(Notes)
           /\ Len(s \o <<out1, out2>>) = Len(s) + 2
           /\ AllOf(s \o <<out1, out2>>) = AllOf(s) \cup {out1, out2}
<1> DEFINE t == s \o <<out1, out2>>
           u == Append(s, out1)
<1>1. t \in Seq(Notes) /\ Len(t) = Len(s) + 2
  OBVIOUS
<1>2. u \in Seq(Notes) /\ t = Append(u, out2)
  OBVIOUS
<1>3. AllOf(u) = AllOf(s) \cup {out1}
  BY LeavesAppended
<1> HIDE DEF u
<1>4. AllOf(Append(u, out2)) = AllOf(u) \cup {out2}
  BY <1>2, LeavesAppended
<1> HIDE DEF t
<1>5. AllOf(t) = AllOf(s) \cup {out1, out2}
  BY <1>2, <1>3, <1>4
<1> QED
  BY <1>1, <1>5 DEF t

\* What a pair of registrations does to the event log.
LEMMA TwoRegistered ==
    ASSUME TypeOK, NEW nf1 \in Nullifiers, NEW nf2 \in Nullifiers,
           Registry!RegisterBoth(0, nf1, nf2)
    PROVE  /\ nf1 # nf2
           /\ bitmap' = [p \in {0} |-> bitmap[0] \cup {SlotOf[nf1], SlotOf[nf2]}]
           /\ \A nf \in {nf1, nf2} : SlotOf[nf] \notin bitmap[0]
           /\ registered' \in [Nullifiers -> Nat]
           /\ \A nf \in Nullifiers : registered'[nf] =
                 IF nf \in {nf1, nf2} THEN registered[nf] + 1 ELSE registered[nf]
<1> USE DEF TypeOK, Registry!TypeOKRegistry, Registry!RegisterBoth,
            Registry!IsNullifierSpent, Registry!Mark
<1>1. nf1 # nf2
  OBVIOUS
<1>2. \A nf \in {nf1, nf2} : SlotOf[nf] \notin bitmap[0]
  OBVIOUS
<1>3. bitmap' = [p \in {0} |-> bitmap[0] \cup {SlotOf[nf1], SlotOf[nf2]}]
  OBVIOUS
<1>4. registered' \in [Nullifiers -> Nat]
  OBVIOUS
<1>5. \A nf \in Nullifiers : registered'[nf] =
          IF nf \in {nf1, nf2} THEN registered[nf] + 1 ELSE registered[nf]
  BY <1>1
<1> QED
  BY <1>1, <1>2, <1>3, <1>4, <1>5

\* A claim without backing is worth the note's value at most.
LEMMA ClaimedIsWorth ==
    ASSUME NEW nf \in Nullifiers, NEW others
    PROVE  Claimed(nf, others) \in Nat
BY DEF Claimed

-----------------------------------------------------------------------------
(* The inductive invariant.                                                *)

LEMMA InitPoolInv == Init => PoolInv
<1> SUFFICES ASSUME Init PROVE PoolInv
  OBVIOUS
<1>1. TreeOK /\ RootsOK
  <2>1. TreeOK
    BY DEF Init, TreeOK
  <2>2. RootsOK
    BY DEF Init, RootsOK, TreeOK
  <2> QED
    BY <2>1, <2>2
<1>2. MoneyOK /\ SwitchesOK /\ OperatorOK
  <2>1. MoneyOK
    BY DEF Init, MoneyOK
  <2>2. SwitchesOK
    BY DEF Init, SwitchesOK
  <2>3. OperatorOK
    BY DEF Init, OperatorOK
  <2> QED
    BY <2>1, <2>2, <2>3
<1>3. Registry!TypeOKRegistry
  BY DEF Init, Registry!InitRegistry, Registry!TypeOKRegistry
<1>4. RegisteredIsMarked /\ NoDoubleSpend /\ FeesAccounted
  BY DEF Init, Registry!InitRegistry, RegisteredIsMarked, NoDoubleSpend,
         FeesAccounted
<1> QED
  BY <1>1, <1>2, <1>3, <1>4 DEF PoolInv, TypeOK

\* Roots and the operator's reads stay in range while the leaves only grow.
LEMMA RootsKept ==
    ASSUME TypeOK, leaves' \in Seq(Notes), Len(leaves) <= Len(leaves'),
           UNCHANGED <<rootVars, operator>>
    PROVE  RootsOK' /\ OperatorOK'
<1> USE DEF TypeOK, TreeOK
<1>1. 0 .. Len(leaves) \subseteq 0 .. Len(leaves')
  OBVIOUS
<1>2. RootsOK'
  BY <1>1 DEF RootsOK, rootVars
<1>3. OperatorOK'
  BY <1>1 DEF OperatorOK
<1> QED
  BY <1>2, <1>3

\* Nothing about the registry changes.
LEMMA RegistryKept ==
    ASSUME PoolInv, UNCHANGED registryVars
    PROVE  Registry!TypeOKRegistry' /\ RegisteredIsMarked' /\ NoDoubleSpend'
BY DEF PoolInv, TypeOK, registryVars, Registry!TypeOKRegistry,
       RegisteredIsMarked, NoDoubleSpend

LEMMA DepositKeepsInv ==
    ASSUME PoolInv, NEW n \in Notes, NEW amount \in 1 .. Supply,
           Deposit(n, amount)
    PROVE  PoolInv'
<1> USE DEF PoolInv, TypeOK
<1>1. TreeOK' /\ Len(leaves) <= Len(leaves')
  BY DEF TreeOK, Deposit, nextLeafIndex, InsertLeaf, SubtreesAfter
<1>2. RootsOK' /\ OperatorOK'
  BY <1>1, RootsKept DEF Deposit, TreeOK
<1>3. ValueOf[n] \in Nat /\ amount \in Nat
  OBVIOUS
<1>4. MoneyOK' /\ FeesAccounted'
  BY <1>3 DEF Deposit, MoneyOK, FeesAccounted
<1>5. SwitchesOK'
  BY DEF Deposit, SwitchesOK
<1>6. Registry!TypeOKRegistry' /\ RegisteredIsMarked' /\ NoDoubleSpend'
  BY RegistryKept DEF Deposit
<1> QED
  BY <1>1, <1>2, <1>4, <1>5, <1>6

\* What transfer() and withdraw() share: a bit that was clear is set for each
\* nullifier, so neither had been registered before.
LEMMA ConsumeKeeps ==
    ASSUME PoolInv, NEW root, NEW nf1 \in Nullifiers, NEW nf2 \in Nullifiers,
           NEW out1 \in Notes, NEW out2 \in Notes, NEW paid,
           Consume(root, nf1, nf2, out1, out2, paid),
           UNCHANGED <<rootVars, operator>>
    PROVE  /\ TreeOK' /\ RootsOK' /\ OperatorOK' /\ unbacked' \in Int
           /\ Registry!TypeOKRegistry' /\ RegisteredIsMarked' /\ NoDoubleSpend'
<1> USE DEF PoolInv
<1>2. /\ leaves \in Seq(Notes)
      /\ leaves' = leaves \o <<out1, out2>>
      /\ Len(leaves) + 2 <= MaxLeaves
      /\ lastDeposit' = lastDeposit /\ filledSubtrees' = filledSubtrees
  BY DEF Consume, AppendOutputs, nextLeafIndex, TypeOK, TreeOK
<1>3. leaves' \in Seq(Notes) /\ Len(leaves') = Len(leaves) + 2
  BY <1>2, OutputsAppended
<1>4. TreeOK' /\ Len(leaves) <= Len(leaves')
  BY <1>2, <1>3 DEF TypeOK, TreeOK
<1>5. RootsOK' /\ OperatorOK'
  BY <1>3, <1>4, RootsKept
<1>6. Registry!RegisterBoth(0, nf1, nf2)
  BY DEF Consume
<1>7. /\ bitmap' = [p \in {0} |-> bitmap[0] \cup {SlotOf[nf1], SlotOf[nf2]}]
      /\ \A nf \in {nf1, nf2} : SlotOf[nf] \notin bitmap[0]
      /\ registered' \in [Nullifiers -> Nat]
      /\ \A nf \in Nullifiers : registered'[nf] =
            IF nf \in {nf1, nf2} THEN registered[nf] + 1 ELSE registered[nf]
  BY <1>6, TwoRegistered
<1>8. Registry!TypeOKRegistry'
  BY <1>6, <1>7 DEF TypeOK, Registry!TypeOKRegistry,
                    Registry!RegisterBoth, Registry!Mark
<1>9. registered \in [Nullifiers -> Nat] /\ bitmap \in [{0} -> SUBSET Slots]
  BY DEF TypeOK, Registry!TypeOKRegistry
<1>10. RegisteredIsMarked'
  BY <1>7, <1>9 DEF RegisteredIsMarked
<1>11. NoDoubleSpend'
  <2> SUFFICES ASSUME NEW nf \in Nullifiers PROVE registered'[nf] <= 1
    BY DEF NoDoubleSpend
  <2>1. CASE nf \in {nf1, nf2}
    BY <2>1, <1>7, <1>9 DEF RegisteredIsMarked
  <2>2. CASE nf \notin {nf1, nf2}
    BY <2>2, <1>7 DEF NoDoubleSpend
  <2> QED
    BY <2>1, <2>2
<1>12. unbacked' \in Int
  BY ClaimedIsWorth DEF Consume, TypeOK, MoneyOK
<1> QED
  BY <1>4, <1>5, <1>8, <1>10, <1>11, <1>12

LEMMA TransferKeepsInv ==
    ASSUME PoolInv, NEW root, NEW nf1 \in Nullifiers, NEW nf2 \in Nullifiers,
           NEW out1 \in Notes, NEW out2 \in Notes, NEW fee \in Fees,
           Transfer(root, nf1, nf2, out1, out2, fee)
    PROVE  PoolInv'
<1>1. /\ TreeOK' /\ RootsOK' /\ OperatorOK' /\ unbacked' \in Int
      /\ Registry!TypeOKRegistry' /\ RegisteredIsMarked' /\ NoDoubleSpend'
  BY ConsumeKeeps DEF Transfer
<1>2. fee \in Nat
  OBVIOUS
<1>3. MoneyOK' /\ FeesAccounted'
  BY <1>1, <1>2 DEF Transfer, PoolInv, TypeOK, MoneyOK, FeesAccounted
<1>4. SwitchesOK'
  BY DEF Transfer, PoolInv, TypeOK, SwitchesOK
<1> QED
  BY <1>1, <1>3, <1>4 DEF PoolInv, TypeOK

LEMMA WithdrawKeepsInv ==
    ASSUME PoolInv, NEW root, NEW nf1 \in Nullifiers, NEW nf2 \in Nullifiers,
           NEW out1 \in Notes, NEW out2 \in Notes, NEW fee \in Fees,
           NEW exitAmount \in 1 .. Supply,
           Withdraw(root, nf1, nf2, out1, out2, exitAmount, fee)
    PROVE  PoolInv'
<1>1. /\ TreeOK' /\ RootsOK' /\ OperatorOK' /\ unbacked' \in Int
      /\ Registry!TypeOKRegistry' /\ RegisteredIsMarked' /\ NoDoubleSpend'
  BY ConsumeKeeps DEF Withdraw
<1>2. fee \in Nat /\ exitAmount \in Nat
  OBVIOUS
<1>3. MoneyOK' /\ FeesAccounted'
  BY <1>1, <1>2 DEF Withdraw, PoolInv, TypeOK, MoneyOK, FeesAccounted
<1>4. SwitchesOK'
  BY DEF Withdraw, PoolInv, TypeOK, SwitchesOK
<1> QED
  BY <1>1, <1>3, <1>4 DEF PoolInv, TypeOK

\* Steps that touch neither the leaves, the money nor the registry.
LEMMA OwnerKeepsInv ==
    ASSUME PoolInv,
           \/ \E n \in BridgedNotes : LockCommitment(n)
           \/ \E paused \in BOOLEAN : SetPaused(paused)
    PROVE  PoolInv'
<1>1. UNCHANGED <<treeVars, rootVars, moneyVars, operator, registryVars>>
  BY DEF LockCommitment, SetPaused
<1>2. SwitchesOK'
  BY DEF LockCommitment, SetPaused, PoolInv, TypeOK, SwitchesOK
<1>3. TreeOK' /\ RootsOK' /\ OperatorOK'
  <2>1. TreeOK'
    BY <1>1 DEF PoolInv, TypeOK, TreeOK, treeVars
  <2>2. leaves' \in Seq(Notes) /\ leaves' = leaves
    BY <1>1 DEF PoolInv, TypeOK, TreeOK, treeVars
  <2>3. RootsOK' /\ OperatorOK'
    BY <1>1, <2>2, RootsKept DEF PoolInv
  <2> QED
    BY <2>1, <2>3
<1>4. MoneyOK' /\ FeesAccounted'
  BY <1>1 DEF PoolInv, TypeOK, MoneyOK, FeesAccounted, moneyVars
<1>5. Registry!TypeOKRegistry' /\ RegisteredIsMarked' /\ NoDoubleSpend'
  BY <1>1, RegistryKept
<1> QED
  BY <1>2, <1>3, <1>4, <1>5 DEF PoolInv, TypeOK

LEMMA EpochKeepsInv ==
    ASSUME PoolInv, FinalizeEpoch
    PROVE  PoolInv'
<1>1. /\ UNCHANGED <<treeVars, rootVars, moneyVars, isPaused, commitmentLocks,
                     operator>>
      /\ UNCHANGED <<bitmap, totalNullifiers, registered>>
  BY DEF FinalizeEpoch, Registry!FinalizeEpoch
<1>2. Registry!TypeOKRegistry'
  BY <1>1 DEF FinalizeEpoch, Registry!FinalizeEpoch, PoolInv, TypeOK,
              Registry!TypeOKRegistry
<1>3. RegisteredIsMarked' /\ NoDoubleSpend'
  BY <1>1 DEF PoolInv, RegisteredIsMarked, NoDoubleSpend
<1>4. TreeOK'
  BY <1>1 DEF PoolInv, TypeOK, TreeOK, treeVars
<1>5. leaves' \in Seq(Notes) /\ leaves' = leaves
  BY <1>1 DEF PoolInv, TypeOK, TreeOK, treeVars
<1>6. RootsOK' /\ OperatorOK'
  BY <1>1, <1>5, RootsKept DEF PoolInv
<1>7. MoneyOK' /\ FeesAccounted' /\ SwitchesOK'
  BY <1>1 DEF PoolInv, TypeOK, MoneyOK, FeesAccounted, moneyVars, SwitchesOK
<1> QED
  BY <1>2, <1>3, <1>4, <1>6, <1>7 DEF PoolInv, TypeOK

\* What is kept of a sequence is a sequence.
LEMMA LastOfInSeq ==
    ASSUME NEW s \in Seq(Nat), NEW k \in Nat \ {0}
    PROVE  LastOf(s, k) \in Seq(Nat)
<1>1. CASE Len(s) <= k
  BY <1>1 DEF LastOf
<1>2. CASE ~(Len(s) <= k)
  <2>1. Len(s) - k + 1 \in 1 .. Len(s) /\ Len(s) \in Nat
    BY <1>2
  <2>2. \A i \in Len(s) - k + 1 .. Len(s) : s[i] \in Nat
    BY <2>1
  <2>3. SubSeq(s, Len(s) - k + 1, Len(s)) \in Seq(Nat)
    BY <2>1, <2>2, SubSeqProperties
  <2> QED
    BY <1>2, <2>3 DEF LastOf
<1> QED
  BY <1>1, <1>2

\* A root that is recorded lies between zero and the head.
LEMMA RecordKeepsRoots ==
    ASSUME PoolInv, NEW root \in 0 .. Len(leaves), RecordRoot(root),
           UNCHANGED leaves
    PROVE  RootsOK'
<1> USE DEF PoolInv, TypeOK, RootsOK, RecordRoot, TreeOK
<1>1. currentRoot' \in 0 .. Len(leaves')
  OBVIOUS
<1>2. rootHistory' \in [0 .. RootHistorySize - 1 -> 0 .. Len(leaves')]
  OBVIOUS
<1>3. rootHistoryIndex' \in 0 .. RootHistorySize - 1
  OBVIOUS
<1>4. recentRoots' \in Seq(Nat)
  <2> DEFINE s == Append(recentRoots, root)
  <2>1. s \in Seq(Nat) /\ Len(s) \in Nat
    OBVIOUS
  <2>2. recentRoots' = LastOf(s, RootHistorySize)
    OBVIOUS
  <2> HIDE DEF s
  <2>3. LastOf(s, RootHistorySize) \in Seq(Nat)
    BY <2>1, LastOfInSeq
  <2> QED
    BY <2>2, <2>3
<1> QED
  BY <1>1, <1>2, <1>3, <1>4

LEMMA OperatorKeepsInv ==
    ASSUME PoolInv, Operator
    PROVE  PoolInv'
<1> USE DEF PoolInv, TypeOK
<1>1. UNCHANGED <<treeVars, moneyVars, isPaused, commitmentLocks, registryVars>>
  BY DEF Operator, ReadShaRoot, ReadLeaves, UpdateRoot, UpdateRootReverts
<1>2. TreeOK' /\ leaves' = leaves
  BY <1>1 DEF TreeOK, treeVars
<1>3. MoneyOK' /\ FeesAccounted' /\ SwitchesOK'
  BY <1>1 DEF MoneyOK, FeesAccounted, moneyVars, SwitchesOK
<1>4. Registry!TypeOKRegistry' /\ RegisteredIsMarked' /\ NoDoubleSpend'
  BY <1>1, RegistryKept
<1>5. OperatorOK'
  BY <1>2 DEF Operator, ReadShaRoot, ReadLeaves, UpdateRoot, UpdateRootReverts,
              OperatorOK, Idle, TreeOK, nextLeafIndex
<1>6. RootsOK'
  <2>1. CASE UpdateRoot
    <3>1. operator.root \in 0 .. Len(leaves)
      BY <2>1 DEF UpdateRoot, OperatorOK, Idle
    <3> QED
      BY <2>1, <3>1, <1>2, RecordKeepsRoots DEF UpdateRoot
  <2>2. CASE UNCHANGED rootVars
    BY <2>2, <1>2 DEF RootsOK, rootVars
  <2> QED
    BY <2>1, <2>2 DEF Operator, ReadShaRoot, ReadLeaves, UpdateRootReverts
<1> QED
  BY <1>2, <1>3, <1>4, <1>5, <1>6

LEMMA NextKeepsInv == PoolInv /\ [Next]_vars => PoolInv'
<1> SUFFICES ASSUME PoolInv, [Next]_vars PROVE PoolInv'
  OBVIOUS
<1>1. ASSUME NEW n \in Notes, NEW amount \in 1 .. Supply, Deposit(n, amount)
      PROVE  PoolInv'
  BY <1>1, DepositKeepsInv
<1>2. ASSUME NEW root \in KnownRoots, NEW nf1 \in Nullifiers, NEW nf2 \in Nullifiers,
             NEW out1 \in Notes, NEW out2 \in Notes, NEW fee \in Fees,
             \/ Transfer(root, nf1, nf2, out1, out2, fee)
             \/ \E exitAmount \in 1 .. Supply :
                   Withdraw(root, nf1, nf2, out1, out2, exitAmount, fee)
      PROVE  PoolInv'
  BY <1>2, TransferKeepsInv, WithdrawKeepsInv
<1>3. CASE Operator
  BY <1>3, OperatorKeepsInv
<1>4. CASE FinalizeEpoch
  BY <1>4, EpochKeepsInv
<1>5. CASE \/ \E n \in BridgedNotes : LockCommitment(n)
           \/ \E paused \in BOOLEAN : SetPaused(paused)
  BY <1>5, OwnerKeepsInv
<1>6. CASE UNCHANGED vars
  <2>1. leaves' = leaves /\ leaves \in Seq(Notes)
    BY <1>6 DEF vars, treeVars, PoolInv, TypeOK, TreeOK
  <2>2. UNCHANGED <<treeVars, moneyVars, isPaused, commitmentLocks>>
    BY <1>6 DEF vars
  <2>3. RootsOK' /\ OperatorOK'
    BY <1>6, <2>1, RootsKept DEF vars, PoolInv, TypeOK, TreeOK
  <2>4. TreeOK' /\ MoneyOK' /\ SwitchesOK' /\ FeesAccounted'
    BY <2>2 DEF PoolInv, TypeOK, TreeOK, MoneyOK, SwitchesOK, FeesAccounted,
                treeVars, moneyVars
  <2>5. Registry!TypeOKRegistry' /\ RegisteredIsMarked' /\ NoDoubleSpend'
    BY <1>6, RegistryKept DEF vars
  <2> QED
    BY <2>3, <2>4, <2>5 DEF PoolInv, TypeOK
<1> QED
  BY <1>1, <1>2, <1>3, <1>4, <1>5, <1>6 DEF Next, Caller, Owner

LEMMA PoolInvariant == Spec => []PoolInv
BY InitPoolInv, NextKeepsInv, PTL DEF Spec

\* Every variable keeps its type and every root that the contract or the
\* operator holds covers at most the leaves that exist.
THEOREM PoolTypes == Spec => []TypeOK
BY PoolInvariant, PTL DEF PoolInv

\* However nullifiers are spread over the registry's bits, no nullifier is
\* registered twice.
THEOREM PoolNoDoubleSpend == Spec => []NoDoubleSpend
BY PoolInvariant, PTL DEF PoolInv

-----------------------------------------------------------------------------
(* The contract implements the ledger.                                     *)

LEMMA DepositMints ==
    ASSUME PoolInv, NEW n \in Notes, NEW amount \in 1 .. Supply,
           Deposit(n, amount)
    PROVE  Ledger!Mint(n)
<1>1. leaves \in Seq(Notes) /\ leaves' = Append(leaves, n)
      /\ registered' = registered
  BY DEF PoolInv, TypeOK, TreeOK, Deposit, registryVars
<1>2. LeavesUnder(Len(leaves))' = LeavesUnder(Len(leaves)) \cup {n}
  <2>1. AllOf(leaves') = AllOf(leaves) \cup {n}
    BY <1>1, LeavesAppended
  <2> QED
    BY <2>1 DEF LeavesUnder, AllOf
<1>3. Spent' = Spent
  BY <1>1 DEF Spent, Shown, NotesOf
<1>4. Unspent' = Unspent \cup ({n} \ Spent)
  BY <1>2, <1>3 DEF Unspent
<1>5. /\ amount \in Nat /\ amount >= 0
      /\ vaultBalance \in Nat /\ vaultBalance' = vaultBalance + amount
      /\ unbacked \in Int /\ ValueOf[n] \in Nat
      /\ unbacked' = unbacked + ValueOf[n] - amount
  BY DEF Deposit, PoolInv, TypeOK, MoneyOK
<1>6. /\ vaultBalance' \in Int /\ vaultBalance' >= vaultBalance
      /\ unbacked' = unbacked + ValueOf[n] - (vaultBalance' - vaultBalance)
  BY <1>5
<1> QED
  BY <1>3, <1>4, <1>6 DEF Ledger!Mint

\* What a proof claims without backing is what its notes are not worth to the
\* unspent ones: this is where the registry's refusals count.
LEMMA ClaimsBooked ==
    ASSUME PoolInv, NEW nf1 \in Nullifiers, NEW nf2 \in Nullifiers,
           nf1 \notin Shown, nf2 \notin Shown, nf1 # nf2
    PROVE  Claimed(nf1, Shown) + Claimed(nf2, Shown \cup {nf1}) =
              ValueOf[NoteOf[nf1]] + ValueOf[NoteOf[nf2]]
                - TotalValue[Unspent \cap {NoteOf[nf1], NoteOf[nf2]}]
<1> DEFINE in1 == NoteOf[nf1]
           in2 == NoteOf[nf2]
<1>1. in1 \in Notes /\ in2 \in Notes /\ ValueOf[in1] \in Nat /\ ValueOf[in2] \in Nat
  OBVIOUS
<1>2. Unspent \in SUBSET Notes
  BY LeavesUnderHead DEF PoolInv, TypeOK, TreeOK, Unspent
<1>3. TotalValue[Unspent \cap {in1, in2}] = Worth(Unspent, in1, in2)
  <2> HIDE DEF in1, in2
  <2> QED
    BY <1>1, <1>2, PairWorth, ZenonT(30)
<1>4. Claimed(nf1, Shown) = IF in1 \in Unspent THEN 0 ELSE ValueOf[in1]
  <2>1. Shown \ {nf1} = Shown
    OBVIOUS
  <2> QED
    BY <2>1 DEF Claimed, Unspent, Spent
<1>5. Claimed(nf2, Shown \cup {nf1}) =
         IF in2 \in Unspent \ {in1} THEN 0 ELSE ValueOf[in2]
  <2>1. (Shown \cup {nf1}) \ {nf2} = Shown \cup {nf1}
    OBVIOUS
  <2>2. NotesOf(Shown \cup {nf1}) = Spent \cup {in1}
    BY DEF NotesOf, Spent
  <2>3. LeavesUnder(Len(leaves)) \ (Spent \cup {in1}) = Unspent \ {in1}
    BY DEF Unspent
  <2> QED
    BY <2>1, <2>2, <2>3 DEF Claimed
<1> HIDE DEF in1, in2
<1>6. Claimed(nf1, Shown) + Claimed(nf2, Shown \cup {nf1}) =
         ValueOf[in1] + ValueOf[in2] - Worth(Unspent, in1, in2)
  BY <1>1, <1>4, <1>5 DEF Worth
<1> QED
  BY <1>3, <1>6 DEF in1, in2

LEMMA ConsumeSpends ==
    ASSUME PoolInv, NEW root, NEW nf1 \in Nullifiers, NEW nf2 \in Nullifiers,
           NEW out1 \in Notes, NEW out2 \in Notes, NEW paid \in Nat,
           Consume(root, nf1, nf2, out1, out2, paid),
           vaultBalance' = vaultBalance - paid
    PROVE  Ledger!Spend(NoteOf[nf1], NoteOf[nf2], out1, out2)
<1> USE DEF PoolInv
<1> DEFINE Appended == LeavesUnder(Len(leaves))
           in1 == NoteOf[nf1]
           in2 == NoteOf[nf2]
<1>1. in1 \in Notes /\ in2 \in Notes
  OBVIOUS
<1>2. Registry!RegisterBoth(0, nf1, nf2)
  BY DEF Consume
<1>3. /\ nf1 # nf2
      /\ \A nf \in {nf1, nf2} : SlotOf[nf] \notin bitmap[0]
      /\ \A nf \in Nullifiers : registered'[nf] =
            IF nf \in {nf1, nf2} THEN registered[nf] + 1 ELSE registered[nf]
  BY <1>2, TwoRegistered
<1>4. registered \in [Nullifiers -> Nat]
  BY DEF TypeOK, Registry!TypeOKRegistry
<1>5. nf1 \notin Shown /\ nf2 \notin Shown
  BY <1>3 DEF RegisteredIsMarked, Shown
<1>6. Shown' = Shown \cup {nf1, nf2}
  <2>1. \A nf \in Nullifiers :
           registered'[nf] > 0 <=> registered[nf] > 0 \/ nf \in {nf1, nf2}
    BY <1>3, <1>4
  <2> QED
    BY <2>1 DEF Shown
<1>7. Spent' = Spent \cup {in1, in2}
  BY <1>6 DEF Spent, NotesOf
<1>8. Appended' = Appended \cup {out1, out2}
  <2>1. leaves \in Seq(Notes) /\ leaves' = leaves \o <<out1, out2>>
    BY DEF Consume, AppendOutputs, TypeOK, TreeOK
  <2>2. AllOf(leaves') = AllOf(leaves) \cup {out1, out2}
    BY <2>1, OutputsAppended
  <2>3. Appended = AllOf(leaves) /\ Appended' = AllOf(leaves')
    BY DEF LeavesUnder, AllOf
  <2> QED
    BY <2>2, <2>3
<1>9. Unspent' = (Unspent \cup {out1, out2}) \ Spent'
  <2>1. Unspent = Appended \ Spent /\ Unspent' = Appended' \ Spent'
    BY DEF Unspent
  <2> QED
    BY <2>1, <1>7, <1>8
<1>10. /\ Ledger!Paid(in1, in2, out1, out2) = paid
       /\ Ledger!Paid(in1, in2, out1, out2) >= 0
  <2>1. ValueOf[in1] + ValueOf[in2] = ValueOf[out1] + ValueOf[out2] + paid
    BY DEF Consume, ProofVerifies
  <2>2. /\ ValueOf[in1] \in Nat /\ ValueOf[in2] \in Nat
        /\ ValueOf[out1] \in Nat /\ ValueOf[out2] \in Nat
    BY <1>1
  <2> HIDE DEF in1, in2
  <2> QED
    BY <2>1, <2>2 DEF Ledger!Paid
<1>11. unbacked' = unbacked + ValueOf[in1] + ValueOf[in2]
                            - TotalValue[Unspent \cap {in1, in2}]
  <2>1. unbacked' = unbacked + Claimed(nf1, Shown) + Claimed(nf2, Shown \cup {nf1})
    BY DEF Consume
  <2>2. Claimed(nf1, Shown) + Claimed(nf2, Shown \cup {nf1}) =
           ValueOf[in1] + ValueOf[in2] - TotalValue[Unspent \cap {in1, in2}]
    BY <1>3, <1>5, ClaimsBooked
  <2>3. /\ unbacked \in Int /\ ValueOf[in1] \in Nat /\ ValueOf[in2] \in Nat
        /\ Claimed(nf1, Shown) \in Nat /\ Claimed(nf2, Shown \cup {nf1}) \in Nat
    BY <1>1, ClaimedIsWorth DEF TypeOK, MoneyOK
  <2>4. TotalValue[Unspent \cap {in1, in2}] \in Nat
    <3>1. Unspent \cap {in1, in2} \in SUBSET Notes
      BY <1>1
    <3> QED
      BY <3>1
  <2> HIDE DEF in1, in2
  <2> QED
    BY <2>1, <2>2, <2>3, <2>4
<1> HIDE DEF in1, in2
<1>12. Ledger!Spend(in1, in2, out1, out2)
  BY <1>7, <1>9, <1>10, <1>11 DEF Ledger!Spend
<1> QED
  BY <1>12 DEF in1, in2

LEMMA InitLedger == Init => Ledger!Init
BY DEF Init, Ledger!Init, Unspent, Spent, Shown, NotesOf, LeavesUnder,
       Registry!InitRegistry

LEMMA NextLedger == PoolInv /\ [Next]_vars => [Ledger!Next]_(Ledger!vars)
<1> SUFFICES ASSUME PoolInv, [Next]_vars
             PROVE  Ledger!Next \/ UNCHANGED Ledger!vars
  OBVIOUS
<1>1. ASSUME NEW n \in Notes, NEW amount \in 1 .. Supply, Deposit(n, amount)
      PROVE  Ledger!Next
  BY <1>1, DepositMints DEF Ledger!Next
<1>2. ASSUME NEW root \in KnownRoots, NEW nf1 \in Nullifiers, NEW nf2 \in Nullifiers,
             NEW out1 \in Notes, NEW out2 \in Notes, NEW fee \in Fees,
             \/ Transfer(root, nf1, nf2, out1, out2, fee)
             \/ \E exitAmount \in 1 .. Supply :
                   Withdraw(root, nf1, nf2, out1, out2, exitAmount, fee)
      PROVE  Ledger!Next
  <2>1. NoteOf[nf1] \in Notes /\ NoteOf[nf2] \in Notes /\ fee \in Nat
    OBVIOUS
  <2>2. vaultBalance \in Nat
    BY DEF PoolInv, TypeOK, MoneyOK
  <2>3. CASE Transfer(root, nf1, nf2, out1, out2, fee)
    BY <2>1, <2>3, ConsumeSpends DEF Transfer, Ledger!Next
  <2>4. ASSUME NEW exitAmount \in 1 .. Supply,
               Withdraw(root, nf1, nf2, out1, out2, exitAmount, fee)
        PROVE  Ledger!Next
    <3>1. vaultBalance' = vaultBalance - (exitAmount + fee)
          /\ exitAmount + fee \in Nat
      BY <2>1, <2>2, <2>4 DEF Withdraw
    <3>2. Consume(root, nf1, nf2, out1, out2, exitAmount + fee)
      BY <2>4 DEF Withdraw
    <3>3. Ledger!Spend(NoteOf[nf1], NoteOf[nf2], out1, out2)
      BY <3>1, <3>2, ConsumeSpends
    <3> QED
      BY <2>1, <3>3 DEF Ledger!Next
  <2> QED
    BY <1>2, <2>3, <2>4
<1>3. CASE UNCHANGED <<leaves, vaultBalance, unbacked, registered>>
  BY <1>3 DEF Ledger!vars, Unspent, Spent, Shown, NotesOf, LeavesUnder
<1>4. CASE Operator \/ Owner \/ UNCHANGED vars
           \/ \E n \in BridgedNotes : LockCommitment(n)
  <2>1. UNCHANGED <<leaves, vaultBalance, unbacked, registered>>
    BY <1>4 DEF Operator, ReadShaRoot, ReadLeaves, UpdateRoot, Owner,
                UpdateRootReverts, FinalizeEpoch, Registry!FinalizeEpoch,
                SetPaused, LockCommitment, vars, treeVars, moneyVars,
                registryVars
  <2> QED
    BY <1>3, <2>1
<1> QED
  BY <1>1, <1>2, <1>4 DEF Next, Caller

\* Deposits mint, transfers and withdrawals spend, and no other call of the
\* contract is visible in the ledger.
THEOREM PoolImplementsLedger == Spec => ImplementsLedger
BY PoolInvariant, InitLedger, NextLedger, PTL
   DEF Spec, ImplementsLedger, Ledger!Spec

-----------------------------------------------------------------------------
(* What the ledger promises holds of the contract.                         *)

LEMMA LedgerKeepsBacked ==
    ASSUME Ledger!TypeOK, Ledger!Backed, [Ledger!Next]_(Ledger!vars)
    PROVE  Ledger!TypeOK' /\ Ledger!Backed'
<1> DEFINE sum == vaultBalance + unbacked
<1>1. BackedBy(Unspent, Spent, sum) /\ vaultBalance \in Int /\ unbacked \in Int
  BY DEF BackedBy, Ledger!TypeOK, Ledger!Backed
<1>2. ASSUME NEW n \in Notes, Ledger!Mint(n)
      PROVE  /\ BackedBy(Unspent', Spent', sum')
             /\ vaultBalance' \in Int /\ unbacked' \in Int
  <2>1. /\ Unspent' = Unspent \cup ({n} \ Spent)
        /\ Spent' = Spent
        /\ vaultBalance' \in Int
        /\ unbacked' = unbacked + ValueOf[n] - (vaultBalance' - vaultBalance)
    BY <1>2 DEF Ledger!Mint
  <2>2. ValueOf[n] \in Nat
    OBVIOUS
  <2>3. sum' = sum + ValueOf[n] /\ unbacked' \in Int
    BY <1>1, <2>1, <2>2
  <2> HIDE DEF sum
  <2>4. BackedBy(Unspent \cup ({n} \ Spent), Spent, sum + ValueOf[n])
    BY <1>1, MintedBacked
  <2> QED
    BY <2>1, <2>3, <2>4
<1>3. ASSUME NEW in1 \in Notes, NEW in2 \in Notes,
             NEW out1 \in Notes, NEW out2 \in Notes,
             Ledger!Spend(in1, in2, out1, out2)
      PROVE  /\ BackedBy(Unspent', Spent', sum')
             /\ vaultBalance' \in Int /\ unbacked' \in Int
  <2> DEFINE worth == TotalValue[Unspent \cap {in1, in2}]
  <2>1. /\ Spent' = Spent \cup {in1, in2}
        /\ Unspent' = (Unspent \cup {out1, out2}) \ Spent'
        /\ vaultBalance' = vaultBalance - (ValueOf[in1] + ValueOf[in2]
                                            - ValueOf[out1] - ValueOf[out2])
        /\ unbacked' = unbacked + ValueOf[in1] + ValueOf[in2] - worth
    BY <1>3 DEF Ledger!Spend, Ledger!Paid
  <2>2. /\ ValueOf[in1] \in Nat /\ ValueOf[in2] \in Nat
        /\ ValueOf[out1] \in Nat /\ ValueOf[out2] \in Nat
        /\ worth \in Nat
    BY <1>1 DEF BackedBy
  <2> HIDE DEF worth
  <2>3. /\ sum' = sum - worth + ValueOf[out1] + ValueOf[out2]
        /\ vaultBalance' \in Int /\ unbacked' \in Int
    BY <1>1, <2>1, <2>2
  <2> HIDE DEF sum
  <2>4. BackedBy((Unspent \cup {out1, out2}) \ (Spent \cup {in1, in2}),
                 Spent \cup {in1, in2},
                 sum - worth + ValueOf[out1] + ValueOf[out2])
    BY <1>1, SpentBacked DEF worth
  <2> QED
    BY <2>1, <2>3, <2>4
<1>4. CASE UNCHANGED Ledger!vars
  BY <1>1, <1>4 DEF Ledger!vars, Ledger!TypeOK, Ledger!Backed
<1>5. /\ BackedBy(Unspent', Spent', sum')
      /\ vaultBalance' \in Int /\ unbacked' \in Int
      => Ledger!TypeOK' /\ Ledger!Backed'
  BY DEF BackedBy, Ledger!TypeOK, Ledger!Backed
<1> QED
  BY <1>2, <1>3, <1>4, <1>5 DEF Ledger!Next

\* The vault of a ledger can always pay all of its live notes but for what the
\* books carry as unbacked, and no consumed note is live: what the pool contract
\* inherits by implementing the ledger.
THEOREM LedgerBacked == AnyLedger!Spec => [](AnyLedger!TypeOK /\ AnyLedger!Backed)
<1> DEFINE Inv == AnyLedger!TypeOK /\ AnyLedger!Backed
           sum == vault + owed
<1>1. Inv <=> BackedBy(live, spent, sum) /\ vault \in Int /\ owed \in Int
  BY DEF BackedBy, AnyLedger!TypeOK, AnyLedger!Backed
<1>2. Inv' <=> BackedBy(live', spent', sum') /\ vault' \in Int /\ owed' \in Int
  BY DEF BackedBy, AnyLedger!TypeOK, AnyLedger!Backed
<1>3. AnyLedger!Init => Inv
  BY DEF AnyLedger!Init, AnyLedger!TypeOK, AnyLedger!Backed
<1>4. ASSUME Inv, [AnyLedger!Next]_(AnyLedger!vars) PROVE Inv'
  <2>1. ASSUME NEW n \in Notes, AnyLedger!Mint(n) PROVE Inv'
    <3>1. /\ live' = live \cup ({n} \ spent)
          /\ spent' = spent
          /\ vault' \in Int
          /\ owed' = owed + ValueOf[n] - (vault' - vault)
          /\ ValueOf[n] \in Nat
      BY <2>1 DEF AnyLedger!Mint
    <3> HIDE DEF Inv
    <3>2. sum' = sum + ValueOf[n] /\ owed' \in Int
      BY <1>1, <1>4, <3>1
    <3> HIDE DEF sum
    <3>3. BackedBy(live \cup ({n} \ spent), spent, sum + ValueOf[n])
      BY <1>1, <1>4, MintedBacked
    <3> QED
      BY <1>2, <3>1, <3>2, <3>3
  <2>2. ASSUME NEW in1 \in Notes, NEW in2 \in Notes,
               NEW out1 \in Notes, NEW out2 \in Notes,
               AnyLedger!Spend(in1, in2, out1, out2)
        PROVE  Inv'
    <3> DEFINE worth == TotalValue[live \cap {in1, in2}]
    <3>1. /\ spent' = spent \cup {in1, in2}
          /\ live' = (live \cup {out1, out2}) \ spent'
          /\ vault' = vault - (ValueOf[in1] + ValueOf[in2]
                                - ValueOf[out1] - ValueOf[out2])
          /\ owed' = owed + ValueOf[in1] + ValueOf[in2] - worth
      BY <2>2 DEF AnyLedger!Spend, AnyLedger!Paid
    <3> HIDE DEF Inv
    <3>2. /\ ValueOf[in1] \in Nat /\ ValueOf[in2] \in Nat
          /\ ValueOf[out1] \in Nat /\ ValueOf[out2] \in Nat
          /\ worth \in Nat
      BY <1>1, <1>4 DEF BackedBy
    <3> HIDE DEF worth
    <3>3. /\ sum' = sum - worth + ValueOf[out1] + ValueOf[out2]
          /\ vault' \in Int /\ owed' \in Int
      BY <1>1, <1>4, <3>1, <3>2
    <3> HIDE DEF sum
    <3>4. BackedBy((live \cup {out1, out2}) \ (spent \cup {in1, in2}),
                   spent \cup {in1, in2},
                   sum - worth + ValueOf[out1] + ValueOf[out2])
      BY <1>1, <1>4, SpentBacked DEF worth
    <3> QED
      BY <1>2, <3>1, <3>3, <3>4
  <2>3. CASE UNCHANGED AnyLedger!vars
    BY <1>4, <2>3 DEF AnyLedger!vars, AnyLedger!TypeOK, AnyLedger!Backed
  <2> HIDE DEF Inv
  <2> QED
    BY <1>4, <2>1, <2>2, <2>3 DEF AnyLedger!Next
<1> QED
  BY <1>3, <1>4, PTL DEF AnyLedger!Spec

\* The vault can pay every unspent note, but for what deposits below a note's
\* value and proofs of dead or missing notes have claimed.
THEOREM PoolSolvent == Spec => []Solvency
<1>1. Ledger!Init => Ledger!TypeOK /\ Ledger!Backed
  BY DEF Ledger!Init, Ledger!TypeOK, Ledger!Backed
<1>2. Ledger!Spec => [](Ledger!TypeOK /\ Ledger!Backed)
  BY <1>1, LedgerKeepsBacked, PTL DEF Ledger!Spec
<1>3. Ledger!Backed => Solvency
  BY DEF Ledger!Backed, Solvency
<1> QED
  BY <1>2, <1>3, PoolImplementsLedger, PTL DEF ImplementsLedger

\* totalDeposited and the vault's balance differ by transfer()'s fees, and
\* withdraw()'s check of totalDeposited refuses unspent notes' value only for
\* what was claimed without backing.
THEOREM PoolBooksReconcile == Spec => []BooksReconcile
<1>1. PoolInv /\ Solvency => BooksReconcile
  <2> SUFFICES ASSUME PoolInv, Solvency PROVE BooksReconcile
    OBVIOUS
  <2>1. Unspent \in SUBSET Notes
    BY LeavesUnderHead DEF PoolInv, TypeOK, TreeOK, Unspent
  <2>2. TotalValue[Unspent] \in Nat
    BY <2>1
  <2> QED
    BY <2>2 DEF PoolInv, TypeOK, MoneyOK, FeesAccounted, Solvency,
                BooksReconcile
<1> QED
  BY <1>1, PoolInvariant, PoolSolvent, PTL

-----------------------------------------------------------------------------
(* The ring buffer of roots.                                               *)

\* Entry by entry: before the write position stand the newest roots, from there on
\* the oldest, or nothing as long as the ring has not been filled.
RingHolds ==
    /\ Len(recentRoots) <= RootHistorySize
    /\ Len(recentRoots) < RootHistorySize => rootHistoryIndex = Len(recentRoots)
    /\ \A i \in 0 .. RootHistorySize - 1 :
         /\ i < rootHistoryIndex =>
              rootHistory[i] = recentRoots[Len(recentRoots) - rootHistoryIndex + i + 1]
         /\ i >= rootHistoryIndex =>
              IF Len(recentRoots) < RootHistorySize THEN rootHistory[i] = 0
              ELSE rootHistory[i] = recentRoots[i - rootHistoryIndex + 1]

\* The operator never records the empty tree.
RootsCoverLeaves ==
    /\ operator.stage = "sha" => Len(leaves) > 0
    /\ operator.stage = "ready" => operator.root # 0
    /\ \A j \in 1 .. Len(recentRoots) : recentRoots[j] # 0

RingInv == PoolInv /\ RingHolds /\ RootsCoverLeaves

\* What the history of roots is after one more.
LEMMA RecentRootsAfter ==
    ASSUME PoolInv, Len(recentRoots) <= RootHistorySize, NEW root \in Nat,
           recentRoots' = LastOf(Append(recentRoots, root), RootHistorySize)
    PROVE  LET n == Len(recentRoots)
           IN  IF n < RootHistorySize
               THEN /\ Len(recentRoots') = n + 1
                    /\ recentRoots'[n + 1] = root
                    /\ \A j \in 1 .. n : recentRoots'[j] = recentRoots[j]
               ELSE /\ Len(recentRoots') = n
                    /\ recentRoots'[n] = root
                    /\ \A j \in 1 .. n - 1 : recentRoots'[j] = recentRoots[j + 1]
<1> DEFINE n == Len(recentRoots)
           s == Append(recentRoots, root)
<1>1. recentRoots \in Seq(Nat) /\ n \in Nat /\ RootHistorySize \in Nat /\ RootHistorySize > 0
  BY DEF PoolInv, TypeOK, RootsOK
<1>2. /\ s \in Seq(Nat) /\ Len(s) = n + 1 /\ s[n + 1] = root
      /\ \A j \in 1 .. n : s[j] = recentRoots[j]
  BY <1>1
<1>3. CASE n < RootHistorySize
  <2>1. recentRoots' = s
    BY <1>1, <1>2, <1>3 DEF LastOf
  <2> QED
    BY <1>2, <1>3, <2>1
<1>4. CASE n = RootHistorySize
  <2> HIDE DEF s
  <2>1. recentRoots' = SubSeq(s, 2, n + 1)
    BY <1>1, <1>2, <1>4 DEF LastOf, s
  <2>2. /\ Len(recentRoots') = n
        /\ \A j \in 1 .. n : recentRoots'[j] = s[j + 1]
    BY <1>1, <1>2, <2>1
  <2> QED
    BY <1>1, <1>2, <1>4, <2>2
<1> QED
  BY <1>1, <1>3, <1>4

LEMMA Wraps ==
    ASSUME NEW h \in Nat \ {0}, NEW k \in 0 .. h - 1
    PROVE  (k + 1) % h = IF k = h - 1 THEN 0 ELSE k + 1
<1>1. CASE k = h - 1
  BY <1>1
<1>2. CASE k # h - 1
  BY <1>2
<1> QED
  BY <1>1, <1>2

LEMMA RecordKeepsRing ==
    ASSUME RingInv, NEW root \in Nat \ {0}, RecordRoot(root)
    PROVE  RingHolds' /\ \A j \in 1 .. Len(recentRoots') : recentRoots'[j] # 0
<1> DEFINE n == Len(recentRoots)
           H == RootHistorySize
           at == rootHistoryIndex
<1>1. /\ H \in Nat /\ H > 0 /\ n \in Nat /\ n <= H /\ at \in 0 .. H - 1
      /\ n < H => at = n
      /\ DOMAIN rootHistory = 0 .. H - 1
  BY DEF RingInv, RingHolds, PoolInv, TypeOK, RootsOK
<1>2. IF n < H
      THEN /\ Len(recentRoots') = n + 1 /\ recentRoots'[n + 1] = root
           /\ \A j \in 1 .. n : recentRoots'[j] = recentRoots[j]
      ELSE /\ Len(recentRoots') = n /\ recentRoots'[n] = root
           /\ \A j \in 1 .. n - 1 : recentRoots'[j] = recentRoots[j + 1]
  BY <1>1, RecentRootsAfter DEF RingInv, RingHolds, RecordRoot
<1>3. rootHistoryIndex' = IF at = H - 1 THEN 0 ELSE at + 1
  BY <1>1, Wraps DEF RecordRoot
<1>4. \A i \in 0 .. H - 1 : rootHistory'[i] = IF i = at THEN root ELSE rootHistory[i]
  BY <1>1 DEF RecordRoot
<1>5. \A i \in 0 .. H - 1 :
        /\ i < at => rootHistory[i] = recentRoots[n - at + i + 1]
        /\ i >= at => IF n < H THEN rootHistory[i] = 0
                      ELSE rootHistory[i] = recentRoots[i - at + 1]
  BY DEF RingInv, RingHolds
<1>6. \A j \in 1 .. n : recentRoots[j] # 0
  BY DEF RingInv, RootsCoverLeaves
<1> HIDE DEF n, H, at
<1>7. \A j \in 1 .. Len(recentRoots') : recentRoots'[j] # 0
  <2>1. CASE n < H
    BY <1>1, <1>2, <1>6, <2>1
  <2>2. CASE ~(n < H)
    <3>1. recentRoots'[n] # 0
      BY <1>2, <2>2
    <3>2. \A j \in 1 .. n - 1 : recentRoots'[j] # 0
      <4> SUFFICES ASSUME NEW j \in 1 .. n - 1 PROVE recentRoots[j + 1] # 0
        BY <1>2, <2>2
      <4>1. j + 1 \in 1 .. n
        BY <1>1
      <4> QED
        BY <4>1, <1>6
    <3> QED
      BY <1>1, <1>2, <2>2, <3>1, <3>2
  <2> QED
    BY <2>1, <2>2
<1>8. /\ Len(recentRoots') <= H
      /\ Len(recentRoots') < H => rootHistoryIndex' = Len(recentRoots')
  BY <1>1, <1>2, <1>3
<1>9. ASSUME NEW i \in 0 .. H - 1
      PROVE  /\ i < rootHistoryIndex' =>
                  rootHistory'[i] = recentRoots'[Len(recentRoots') - rootHistoryIndex' + i + 1]
             /\ i >= rootHistoryIndex' =>
                  IF Len(recentRoots') < H THEN rootHistory'[i] = 0
                  ELSE rootHistory'[i] = recentRoots'[i - rootHistoryIndex' + 1]
  <2>1. CASE n < H
    <3>1. /\ at = n /\ Len(recentRoots') = n + 1
          /\ rootHistoryIndex' = IF n = H - 1 THEN 0 ELSE n + 1
      BY <1>1, <1>2, <1>3, <2>1
    <3>2. rootHistory'[i] = IF i = n THEN root ELSE rootHistory[i]
      BY <1>4, <3>1
    <3>3. i < n => /\ i + 1 \in 1 .. n
                   /\ rootHistory[i] = recentRoots[i + 1]
                   /\ recentRoots'[i + 1] = recentRoots[i + 1]
      <4> SUFFICES ASSUME i < n PROVE /\ i + 1 \in 1 .. n
                                      /\ rootHistory[i] = recentRoots[i + 1]
                                      /\ recentRoots'[i + 1] = recentRoots[i + 1]
        OBVIOUS
      <4>1. i + 1 \in 1 .. n /\ n - at + i + 1 = i + 1
        BY <1>1, <3>1
      <4> QED
        BY <1>2, <1>5, <2>1, <3>1, <4>1
    <3>4. i > n => rootHistory[i] = 0
      BY <1>1, <1>5, <2>1, <3>1
    <3>5. recentRoots'[n + 1] = root
      BY <1>2, <2>1
    <3>6. CASE n = H - 1
      <4>1. rootHistoryIndex' = 0 /\ ~(i < 0) /\ i - 0 + 1 = i + 1 /\ i <= n
            /\ Len(recentRoots') = H
        BY <1>1, <3>1, <3>6
      <4>2. rootHistory'[i] = recentRoots'[i + 1]
        BY <1>1, <3>2, <3>3, <3>5, <4>1
      <4> QED
        BY <1>1, <4>1, <4>2
    <3>7. CASE n < H - 1
      <4>1. /\ rootHistoryIndex' = n + 1 /\ Len(recentRoots') < H
            /\ Len(recentRoots') - rootHistoryIndex' + i + 1 = i + 1
        BY <1>1, <3>1, <3>7
      <4>2. i < n + 1 => rootHistory'[i] = recentRoots'[i + 1]
        BY <1>1, <3>2, <3>3, <3>5
      <4>3. i >= n + 1 => rootHistory'[i] = 0
        BY <1>1, <3>2, <3>4
      <4> QED
        BY <4>1, <4>2, <4>3
    <3> QED
      BY <1>1, <2>1, <3>6, <3>7
  <2>2. CASE n = H /\ at = H - 1
    BY <1>1, <1>2, <1>3, <1>4, <1>5, <2>2
  <2>3. CASE n = H /\ at < H - 1
    <3>1. rootHistoryIndex' = at + 1 /\ Len(recentRoots') = n
      BY <1>1, <1>2, <1>3, <2>3
    <3>2. CASE i < at
      <4>1. n - at + i \in 1 .. n - 1
        BY <1>1, <2>3, <3>2
      <4>2. recentRoots'[n - at + i] = recentRoots[n - at + i + 1]
        BY <1>1, <1>2, <2>3, <4>1
      <4>3. Len(recentRoots') - rootHistoryIndex' + i + 1 = n - at + i
        BY <1>1, <3>1
      <4> QED
        BY <1>1, <1>4, <1>5, <3>1, <3>2, <4>2, <4>3
    <3>3. CASE i = at
      <4>1. Len(recentRoots') - rootHistoryIndex' + i + 1 = n
        BY <1>1, <3>1, <3>3
      <4>2. recentRoots'[n] = root
        BY <1>1, <1>2, <2>3
      <4> QED
        BY <1>1, <1>4, <3>1, <3>3, <4>1, <4>2
    <3>4. CASE i > at
      <4>1. i - at \in 1 .. n - 1
        BY <1>1, <2>3, <3>4
      <4>2. recentRoots'[i - at] = recentRoots[i - at + 1]
        BY <1>1, <1>2, <2>3, <4>1
      <4>3. i - rootHistoryIndex' + 1 = i - at
        BY <1>1, <3>1
      <4> QED
        BY <1>1, <1>4, <1>5, <2>3, <3>1, <3>4, <4>2, <4>3
    <3> QED
      BY <1>1, <3>2, <3>3, <3>4
  <2> QED
    BY <1>1, <2>1, <2>2, <2>3
<1> QED
  BY <1>7, <1>8, <1>9 DEF RingHolds, H

\* Leaves only grow, so an operator that has read one leaf goes on having one.
LEMMA LeavesGrow ==
    ASSUME PoolInv, [Next]_vars
    PROVE  Len(leaves') >= Len(leaves) /\ Len(leaves) \in Nat
<1>1. leaves \in Seq(Notes) /\ Len(leaves) \in Nat
  BY DEF PoolInv, TypeOK, TreeOK
<1>2. ASSUME NEW n \in Notes, NEW amount, Deposit(n, amount)
      PROVE  Len(leaves') >= Len(leaves)
  BY <1>1, <1>2 DEF Deposit
<1>3. ASSUME NEW root, NEW nf1, NEW nf2, NEW out1 \in Notes, NEW out2 \in Notes, NEW paid,
             Consume(root, nf1, nf2, out1, out2, paid)
      PROVE  Len(leaves') >= Len(leaves)
  BY <1>1, <1>3 DEF Consume, AppendOutputs
<1>4. CASE Operator \/ Owner \/ UNCHANGED vars
  BY <1>1, <1>4 DEF Operator, ReadShaRoot, ReadLeaves, UpdateRoot, UpdateRootReverts,
                    Owner, FinalizeEpoch, SetPaused, vars, treeVars
<1>5. CASE \E n \in BridgedNotes : LockCommitment(n)
  BY <1>1, <1>5 DEF LockCommitment, treeVars
<1> QED
  BY <1>1, <1>2, <1>3, <1>4, <1>5 DEF Next, Caller, Transfer, Withdraw

LEMMA RingKept ==
    ASSUME RingInv, [Next]_vars
    PROVE  RingInv'
<1>1. PoolInv' /\ Len(leaves') >= Len(leaves) /\ Len(leaves) \in Nat /\ Len(leaves') \in Nat
  BY NextKeepsInv, LeavesGrow DEF RingInv, PoolInv, TypeOK, TreeOK
<1>2. CASE UNCHANGED <<rootVars, operator>>
  BY <1>1, <1>2 DEF RingInv, RingHolds, RootsCoverLeaves, rootVars
<1>3. CASE ReadShaRoot
  <2>1. Len(leaves) # 0
    <3>1. currentRoot \in 0 .. Len(leaves) /\ currentRoot # Len(leaves)
      BY <1>3 DEF ReadShaRoot, nextLeafIndex, RingInv, PoolInv, TypeOK, RootsOK
    <3> QED
      BY <1>1, <3>1
  <2>2. operator'.stage = "sha" /\ UNCHANGED rootVars
    BY <1>3 DEF ReadShaRoot
  <2> QED
    BY <1>1, <2>1, <2>2 DEF RingInv, RingHolds, RootsCoverLeaves, rootVars
<1>4. CASE ReadLeaves
  <2>1. operator'.stage = "ready" /\ operator'.root = Len(leaves) /\ UNCHANGED rootVars
    BY <1>4 DEF ReadLeaves, nextLeafIndex
  <2>2. Len(leaves) # 0
    BY <1>1, <1>4 DEF ReadLeaves, RingInv, RootsCoverLeaves
  <2> QED
    BY <1>1, <2>1, <2>2 DEF RingInv, RingHolds, RootsCoverLeaves, rootVars
<1>5. CASE UpdateRoot
  <2>1. operator.root \in Nat \ {0} /\ RecordRoot(operator.root) /\ operator'.stage = "idle"
    BY <1>1, <1>5
       DEF UpdateRoot, Idle, RingInv, RootsCoverLeaves, PoolInv, TypeOK, OperatorOK
  <2> QED
    BY <1>1, <2>1, RecordKeepsRing DEF RingInv, RootsCoverLeaves
<1>6. CASE UpdateRootReverts
  BY <1>1, <1>6 DEF UpdateRootReverts, Idle, RingInv, RingHolds, RootsCoverLeaves, rootVars
<1>7. CASE Caller \/ Owner \/ UNCHANGED vars
  BY <1>2, <1>7 DEF Caller, Deposit, LockCommitment, Transfer, Withdraw, Owner,
                    FinalizeEpoch, SetPaused, vars
<1> QED
  BY <1>3, <1>4, <1>5, <1>6, <1>7 DEF Next, Operator

LEMMA RingIsWindow == RingInv => RootWindow
<1> SUFFICES ASSUME RingInv PROVE RootWindow
  OBVIOUS
<1> DEFINE n == Len(recentRoots)
           H == RootHistorySize
           at == rootHistoryIndex
<1>1. /\ H \in Nat /\ H > 0 /\ n \in Nat /\ n <= H /\ at \in 0 .. H - 1
      /\ n < H => at = n
  BY DEF RingInv, RingHolds, PoolInv, TypeOK, RootsOK
<1>2. \A i \in 0 .. H - 1 :
        /\ i < at => rootHistory[i] = recentRoots[n - at + i + 1]
        /\ i >= at => IF n < H THEN rootHistory[i] = 0
                      ELSE rootHistory[i] = recentRoots[i - at + 1]
  BY DEF RingInv, RingHolds
<1>3. \A j \in 1 .. n : recentRoots[j] # 0
  BY DEF RingInv, RootsCoverLeaves
<1> HIDE DEF n, H, at
<1>4. ASSUME NEW i \in 0 .. H - 1, rootHistory[i] # 0
      PROVE  \E j \in 1 .. n : rootHistory[i] = recentRoots[j]
  <2>1. CASE i < at
    <3>1. n - at + i + 1 \in 1 .. n
      BY <1>1, <2>1
    <3> QED
      BY <1>2, <2>1, <3>1
  <2>2. CASE i >= at
    <3>1. n = H
      BY <1>1, <1>2, <1>4, <2>2
    <3>2. i - at + 1 \in 1 .. n
      BY <1>1, <2>2, <3>1
    <3> QED
      BY <1>1, <1>2, <2>2, <3>1, <3>2
  <2> QED
    BY <1>1, <2>1, <2>2
<1>5. ASSUME NEW j \in 1 .. n
      PROVE  \E i \in 0 .. H - 1 : rootHistory[i] = recentRoots[j]
  <2>1. CASE j <= n - at
    <3>1. n = H
      BY <1>1, <2>1
    <3> DEFINE i == j + at - 1
    <3>2. i \in 0 .. H - 1 /\ i >= at /\ i - at + 1 = j
      BY <1>1, <2>1, <3>1
    <3> HIDE DEF i
    <3>3. rootHistory[i] = recentRoots[i - at + 1]
      BY <1>1, <1>2, <3>1, <3>2
    <3> QED
      BY <3>2, <3>3
  <2>2. CASE j > n - at
    <3> DEFINE i == j - (n - at) - 1
    <3>1. i \in 0 .. H - 1 /\ i < at /\ n - at + i + 1 = j
      BY <1>1, <2>2
    <3> HIDE DEF i
    <3> QED
      BY <1>2, <3>1
  <2> QED
    BY <1>1, <2>1, <2>2
<1>6. {rootHistory[i] : i \in 0 .. H - 1} \ {0} = {recentRoots[j] : j \in 1 .. n}
  BY <1>3, <1>4, <1>5
<1> QED
  BY <1>6 DEF RootWindow, H, n

\* RootWindow: the ring buffer holds exactly the last ROOT_HISTORY_SIZE roots, for
\* every size and however often it wraps (updateRoot, _isKnownRoot).
THEOREM PoolRootWindow == Spec => []RootWindow
<1>1. Init => RingInv
  <2> SUFFICES ASSUME Init PROVE RingInv
    OBVIOUS
  <2>1. recentRoots = <<>> /\ rootHistoryIndex = 0 /\ operator.stage = "idle"
        /\ rootHistory = [i \in 0 .. RootHistorySize - 1 |-> 0]
    BY DEF Init, Idle
  <2>2. RingHolds
    BY <2>1 DEF RingHolds
  <2>3. RootsCoverLeaves
    BY <2>1 DEF RootsCoverLeaves
  <2> QED
    BY <2>2, <2>3, InitPoolInv DEF RingInv
<1>2. RingInv /\ [Next]_vars => RingInv'
  BY RingKept
<1> QED
  BY <1>1, <1>2, RingIsWindow, PTL DEF Spec

-----------------------------------------------------------------------------
(* What an equal SHA-256 root says of the deposits: the tree's recursive   *)
(* functions level by level, then the operator's reads.                    *)

\* A set of numbers that has a member has a least one.
LEMMA LeastNumber ==
    ASSUME NEW T, T \subseteq Nat, T # {}
    PROVE  \E n \in T : \A m \in T : n <= m
<1> DEFINE R == {p \in Nat \X Nat : p[1] < p[2]}
<1>1. IsWellFoundedOn(R, Nat)
  BY NatLessThanWellFounded DEF OpToRel
<1> HIDE DEF R
<1>2. PICK n \in T : \A m \in T : <<m, n>> \notin R
  BY <1>1, WFMin
<1>3. ASSUME NEW m \in T PROVE n <= m
  <2>1. n \in Nat /\ m \in Nat /\ (<<m, n>> \in R <=> m < n)
    BY DEF R
  <2> QED
    BY <1>2, <2>1
<1> QED
  BY <1>3

\* Induction over the numbers, as a fact about sets.
LEMMA EveryNumber ==
    ASSUME NEW T, 0 \in T, \A n \in Nat : n \in T => n + 1 \in T
    PROVE  Nat \subseteq T
<1> DEFINE missing == Nat \ T
<1>1. SUFFICES ASSUME missing # {} PROVE FALSE
  OBVIOUS
<1>2. PICK n \in missing : \A m \in missing : n <= m
  BY <1>1, LeastNumber
<1>3. n - 1 \in Nat /\ n - 1 + 1 = n
  BY <1>2
<1>4. n - 1 \in T
  BY <1>2, <1>3
<1> QED
  BY <1>3, <1>4

\* What the recursive definitions of the tree say at each level: a function
\* that satisfies the recursion exists for every depth.
LEMMA ZerosAtLevels ==
    /\ Zeros[0] = Hash(ZeroBytes, ZeroBytes)
    /\ \A l \in Levels : l # 0 => Zeros[l] = Hash(Zeros[l - 1], Zeros[l - 1])
<1> DEFINE Step(f, l) == IF l = 0 THEN Hash(ZeroBytes, ZeroBytes)
                                  ELSE Hash(f[l - 1], f[l - 1])
           defined == {n \in Nat : \E f : f = [l \in 0 .. n |-> Step(f, l)]}
<1>1. 0 \in defined
  <2> DEFINE f == [l \in 0 .. 0 |-> Hash(ZeroBytes, ZeroBytes)]
  <2>1. f = [l \in 0 .. 0 |-> Step(f, l)]
    OBVIOUS
  <2> QED
    BY <2>1
<1>2. ASSUME NEW n \in Nat, n \in defined PROVE n + 1 \in defined
  <2>1. PICK f : f = [l \in 0 .. n |-> Step(f, l)]
    BY <1>2
  <2> DEFINE g == [l \in 0 .. n + 1 |-> IF l = n + 1 THEN Step(f, l) ELSE f[l]]
  <2>2. ASSUME NEW l \in 0 .. n + 1 PROVE g[l] = Step(g, l)
    BY <2>1
  <2>3. g = [l \in 0 .. n + 1 |-> Step(g, l)]
    BY <2>2
  <2> HIDE DEF g
  <2> QED
    BY SMTT(20), <2>3
<1>3. TreeDepth - 1 \in defined
  <2> HIDE DEF defined
  <2> QED
    BY <1>1, <1>2, EveryNumber, TreeAssumption
<1>4. PICK f : f = [l \in Levels |-> Step(f, l)]
  BY <1>3 DEF Levels
<1>5. Zeros = [l \in Levels |-> Step(Zeros, l)]
  BY <1>4 DEF Zeros
<1>6. 0 \in Levels
  BY TreeAssumption DEF Levels
<1> QED
  BY <1>5, <1>6

\* A leaf's index is halved from each level to the next.
LEMMA IndexAtLevels ==
    ASSUME NEW i \in Nat
    PROVE  /\ IndexAt(i)[0] = i
           /\ \A l \in Levels : IndexAt(i)[l + 1] = IndexAt(i)[l] \div 2
           /\ \A l \in 0 .. TreeDepth : IndexAt(i)[l] \in Nat
<1> DEFINE Step(f, l) == IF l = 0 THEN i ELSE f[l - 1] \div 2
           defined == {n \in Nat : \E f : f = [l \in 0 .. n |-> Step(f, l)]}
<1>1. 0 \in defined
  <2> DEFINE f == [l \in 0 .. 0 |-> i]
  <2>1. f = [l \in 0 .. 0 |-> Step(f, l)]
    OBVIOUS
  <2> QED
    BY <2>1
<1>2. ASSUME NEW n \in Nat, n \in defined PROVE n + 1 \in defined
  <2>1. PICK f : f = [l \in 0 .. n |-> Step(f, l)]
    BY <1>2
  <2> DEFINE g == [l \in 0 .. n + 1 |-> IF l = n + 1 THEN Step(f, l) ELSE f[l]]
  <2>2. ASSUME NEW l \in 0 .. n + 1 PROVE g[l] = Step(g, l)
    BY <2>1
  <2>3. g = [l \in 0 .. n + 1 |-> Step(g, l)]
    BY <2>2
  <2> HIDE DEF g
  <2> QED
    BY <2>3
<1>3. TreeDepth \in defined
  <2> HIDE DEF defined
  <2> QED
    BY <1>1, <1>2, EveryNumber, TreeAssumption
<1>4. PICK f : f = [l \in 0 .. TreeDepth |-> Step(f, l)]
  BY <1>3
<1> DEFINE a == IndexAt(i)
<1>5. a = [l \in 0 .. TreeDepth |-> Step(a, l)]
  BY <1>4 DEF IndexAt
<1> HIDE DEF a
<1>6. \A l \in 0 .. TreeDepth : a[l] = IF l = 0 THEN i ELSE a[l - 1] \div 2
  BY <1>5
<1>7. a[0] = i
  BY <1>6, TreeAssumption
<1>8. ASSUME NEW l \in Levels PROVE a[l + 1] = a[l] \div 2
  <2>1. l \in Nat /\ l + 1 \in 0 .. TreeDepth
    BY TreeAssumption DEF Levels
  <2> QED
    BY <1>6, <2>1
<1>9. \A l \in 0 .. TreeDepth : a[l] \in Nat
  <2> DEFINE natural == {l \in Nat : l <= TreeDepth => a[l] \in Nat}
  <2>1. 0 \in natural
    BY <1>7
  <2>2. ASSUME NEW l \in Nat, l \in natural PROVE l + 1 \in natural
    <3>1. SUFFICES ASSUME l + 1 <= TreeDepth PROVE a[l + 1] \in Nat
      OBVIOUS
    <3>2. l \in Levels /\ l <= TreeDepth
      BY <3>1, TreeAssumption DEF Levels
    <3>3. a[l + 1] = a[l] \div 2 /\ a[l] \in Nat
      BY <1>8, <2>2, <3>2
    <3> QED
      BY <3>3
  <2>3. Nat \subseteq natural
    <3> HIDE DEF natural
    <3> QED
      BY <2>1, <2>2, EveryNumber
  <2> QED
    BY <2>3, TreeAssumption
<1> QED
  BY <1>7, <1>8, <1>9 DEF a

\* Each hash of a path is made of the one below and of what stands beside it.
LEMMA PathAtLevels ==
    ASSUME NEW s, NEW i, NEW leaf
    PROVE  /\ PathHashes(s, i, leaf)[0] = leaf
           /\ \A l \in Levels : PathHashes(s, i, leaf)[l + 1] =
                IF LeftAt(i, l) THEN Hash(PathHashes(s, i, leaf)[l], Zeros[l])
                                ELSE Hash(s[l], PathHashes(s, i, leaf)[l])
<1> DEFINE Step(f, l) == IF l = 0 THEN leaf
                         ELSE IF LeftAt(i, l - 1) THEN Hash(f[l - 1], Zeros[l - 1])
                                                  ELSE Hash(s[l - 1], f[l - 1])
           defined == {n \in Nat : \E f : f = [l \in 0 .. n |-> Step(f, l)]}
<1>1. 0 \in defined
  <2> DEFINE f == [l \in 0 .. 0 |-> leaf]
  <2>1. f = [l \in 0 .. 0 |-> Step(f, l)]
    OBVIOUS
  <2> QED
    BY <2>1
<1>2. ASSUME NEW n \in Nat, n \in defined PROVE n + 1 \in defined
  <2>1. PICK f : f = [l \in 0 .. n |-> Step(f, l)]
    BY <1>2
  <2> DEFINE g == [l \in 0 .. n + 1 |-> IF l = n + 1 THEN Step(f, l) ELSE f[l]]
  <2>2. ASSUME NEW l \in 0 .. n + 1 PROVE g[l] = Step(g, l)
    BY <2>1
  <2>3. g = [l \in 0 .. n + 1 |-> g[l]]
    OBVIOUS
  <2> HIDE DEF g
  <2>4. [l \in 0 .. n + 1 |-> g[l]] = [l \in 0 .. n + 1 |-> Step(g, l)]
    BY <2>2, Zenon
  <2>5. g = [l \in 0 .. n + 1 |-> Step(g, l)]
    BY <2>3, <2>4, Zenon
  <2> QED
    BY SMTT(20), <2>5
<1>3. TreeDepth \in defined
  <2> HIDE DEF defined
  <2> QED
    BY <1>1, <1>2, EveryNumber, TreeAssumption
<1>4. PICK f : f = [l \in 0 .. TreeDepth |-> Step(f, l)]
  BY <1>3
<1> DEFINE p == PathHashes(s, i, leaf)
<1>5. p = [l \in 0 .. TreeDepth |-> Step(p, l)]
  BY <1>4 DEF PathHashes
<1> HIDE DEF p
<1>6. p[0] = leaf
  BY <1>5, TreeAssumption
<1>7. ASSUME NEW l \in Levels PROVE p[l + 1] = Step(p, l + 1)
  <2>1. l + 1 \in 0 .. TreeDepth
    BY TreeAssumption DEF Levels
  <2> HIDE DEF Step
  <2> QED
    BY <1>5, <2>1
<1>8. ASSUME NEW l \in Levels
      PROVE  p[l + 1] = IF LeftAt(i, l) THEN Hash(p[l], Zeros[l]) ELSE Hash(s[l], p[l])
  <2>1. l \in Nat
    BY TreeAssumption DEF Levels
  <2> QED
    BY <1>7, <2>1
<1> QED
  BY <1>6, <1>8 DEF p

\* A path that starts at a leaf is at no level the chain of empty subtrees.
LEMMA PathIsNotEmpty ==
    ASSUME Hash(ZeroBytes, ZeroBytes) \notin Notes,
           NEW s, NEW i, NEW n \in Notes, NEW l \in Levels
    PROVE  PathHashes(s, i, n)[l] # Zeros[l]
<1> DEFINE path == PathHashes(s, i, n)
           equal == {k \in Levels : path[k] = Zeros[k]}
<1>1. SUFFICES ASSUME equal # {} PROVE FALSE
  OBVIOUS
<1>2. Levels \subseteq Nat /\ equal \subseteq Nat
  BY TreeAssumption DEF Levels
<1>3. PICK k \in equal : \A m \in equal : k <= m
  BY <1>1, <1>2, LeastNumber
<1>4. path[k] = Zeros[k] /\ k \in Levels
  OBVIOUS
<1>5. CASE k = 0
  <2>1. path[k] = n /\ Zeros[k] = Hash(ZeroBytes, ZeroBytes)
    BY <1>5, PathAtLevels, ZerosAtLevels
  <2> QED
    BY <1>4, <2>1
<1>6. CASE k # 0
  <2>1. k - 1 \in Levels /\ k - 1 + 1 = k
    BY <1>2, <1>4, <1>6, TreeAssumption DEF Levels
  <2>2. \/ path[k] = Hash(path[k - 1], Zeros[k - 1])
        \/ path[k] = Hash(s[k - 1], path[k - 1])
    <3> HIDE DEF path
    <3>1. path[k - 1 + 1] = IF LeftAt(i, k - 1) THEN Hash(path[k - 1], Zeros[k - 1])
                                               ELSE Hash(s[k - 1], path[k - 1])
      BY <2>1, PathAtLevels DEF path
    <3> QED
      BY <2>1, <3>1
  <2>3. Zeros[k] = Hash(Zeros[k - 1], Zeros[k - 1])
    BY <1>4, <1>6, ZerosAtLevels
  <2>4. path[k - 1] = Zeros[k - 1]
    <3> HIDE DEF path
    <3> QED
      BY <1>4, <2>2, <2>3 DEF Hash
  <2>5. k - 1 \in equal
    BY <2>1, <2>4
  <2> QED
    BY <1>2, <1>3, <2>1, <2>5 DEF Levels
<1> QED
  BY <1>5, <1>6

\* Two leaves that fit the tree and lead to one root have one index.
LEMMA RootDeterminesIndex ==
    ASSUME Hash(ZeroBytes, ZeroBytes) \notin Notes,
           NEW s, NEW i \in Nat, NEW n \in Notes, IndexAt(i)[TreeDepth] = 0,
           NEW t, NEW j \in Nat, NEW m \in Notes, IndexAt(j)[TreeDepth] = 0,
           RootAfter(s, i, n) = RootAfter(t, j, m)
    PROVE  i = j
<1> DEFINE p == PathHashes(s, i, n)
           q == PathHashes(t, j, m)
           a == IndexAt(i)
           b == IndexAt(j)
           equal == {k \in 0 .. TreeDepth : p[k] = q[k] /\ a[k] = b[k]}
<1>1. TreeDepth \in equal
  BY TreeAssumption DEF RootAfter
<1>2. equal \subseteq Nat
  BY TreeAssumption
<1>3. PICK k \in equal : \A l \in equal : k <= l
  BY <1>1, <1>2, LeastNumber
<1>4. p[k] = q[k] /\ a[k] = b[k] /\ k \in 0 .. TreeDepth
  OBVIOUS
<1>5. CASE k = 0
  <2>1. a[0] = i /\ b[0] = j
    BY IndexAtLevels
  <2> QED
    BY <1>4, <1>5, <2>1
<1>6. CASE k # 0
  <2> DEFINE l == k - 1
  <2>1. l \in Levels /\ l + 1 = k /\ l \in 0 .. TreeDepth /\ l \in Nat
    BY <1>4, <1>6, TreeAssumption DEF Levels
  <2>2. /\ a[k] = a[l] \div 2 /\ a[l] \in Nat
        /\ b[k] = b[l] \div 2 /\ b[l] \in Nat
    <3> HIDE DEF l, a, b
    <3>1. /\ a[l + 1] = a[l] \div 2 /\ a[l] \in Nat
          /\ b[l + 1] = b[l] \div 2 /\ b[l] \in Nat
      BY <2>1, IndexAtLevels DEF a, b
    <3> QED
      BY <2>1, <3>1
  <2>3. /\ p[k] = IF a[l] % 2 = 0 THEN Hash(p[l], Zeros[l]) ELSE Hash(s[l], p[l])
        /\ q[k] = IF b[l] % 2 = 0 THEN Hash(q[l], Zeros[l]) ELSE Hash(t[l], q[l])
    <3> HIDE DEF l, p, q
    <3>1. /\ p[l + 1] = IF LeftAt(i, l) THEN Hash(p[l], Zeros[l]) ELSE Hash(s[l], p[l])
          /\ q[l + 1] = IF LeftAt(j, l) THEN Hash(q[l], Zeros[l]) ELSE Hash(t[l], q[l])
      BY <2>1, PathAtLevels DEF p, q
    <3> QED
      BY <2>1, <3>1 DEF LeftAt
  <2>4. p[l] # Zeros[l] /\ q[l] # Zeros[l]
    <3> HIDE DEF l
    <3> QED
      BY <2>1, PathIsNotEmpty
  <2> HIDE DEF l, p, q, a, b
  <2>5. p[l] = q[l] /\ (a[l] % 2 = 0 <=> b[l] % 2 = 0)
    BY <1>4, <2>3, <2>4 DEF Hash
  <2>6. a[l] = b[l]
    <3>1. a[l] \div 2 = b[l] \div 2
      BY <1>4, <2>2
    <3> QED
      BY <2>2, <2>5, <3>1
  <2>7. l \in equal
    BY <2>1, <2>5, <2>6 DEF p, q, a, b
  <2> QED
    BY <1>3, <2>1, <2>7, <1>2
<1> QED
  BY <1>5, <1>6

\* Every leaf of a behaviour has a place of its own in the tree, and neither a
\* note nor bytes32(0) is a hash.
LeavesFit == \A i \in 0 .. MaxLeaves - 1 : IndexAt(i)[TreeDepth] = 0
HashesAreFresh ==
    /\ Hash(ZeroBytes, ZeroBytes) \notin Notes
    /\ \A left, right : ZeroBytes # Hash(left, right)

\* r is the root that a deposit as leaf number k left behind; 0 is no deposit.
RootOfDeposit(k, r) ==
    \/ k = 0 /\ r = ZeroBytes
    \/ k > 0 /\ \E subtrees, n : n \in Notes /\ r = RootAfter(subtrees, k - 1, n)

\* The root that the operator has read is that of a deposit it will cover.
OperatorReadRoot ==
    operator.stage \in {"sha", "ready"} =>
        \E k \in 0 .. lastDeposit :
            /\ RootOfDeposit(k, operator.sha)
            /\ operator.stage = "ready" => k <= operator.root

DepositRootInv ==
    PoolInv /\ RootOfDeposit(lastDeposit, sha256Root) /\ OperatorReadRoot

\* A root tells after which deposit it was the contract's.
LEMMA RootTellsDeposit ==
    ASSUME LeavesFit, HashesAreFresh, NEW r,
           NEW k \in 0 .. MaxLeaves, RootOfDeposit(k, r),
           NEW l \in 0 .. MaxLeaves, RootOfDeposit(l, r)
    PROVE  k = l
<1>1. ASSUME NEW m \in 0 .. MaxLeaves, m > 0, RootOfDeposit(m, r)
      PROVE  /\ r # ZeroBytes
             /\ m - 1 \in Nat /\ IndexAt(m - 1)[TreeDepth] = 0
             /\ \E subtrees, n : n \in Notes /\ r = RootAfter(subtrees, m - 1, n)
  <2>1. PICK subtrees, n : n \in Notes /\ r = RootAfter(subtrees, m - 1, n)
    BY <1>1 DEF RootOfDeposit
  <2> DEFINE top == TreeDepth - 1
             path == PathHashes(subtrees, m - 1, n)
  <2>2. top \in Levels /\ top + 1 = TreeDepth
    BY TreeAssumption DEF Levels
  <2>3. r = path[top + 1]
    BY <2>1, <2>2 DEF RootAfter
  <2>4. r = Hash(path[top], Zeros[top]) \/ r = Hash(subtrees[top], path[top])
    <3> HIDE DEF top
    <3> QED
      BY <2>2, <2>3, PathAtLevels
  <2>5. r # ZeroBytes
    <3> HIDE DEF path
    <3> QED
      BY <2>4 DEF HashesAreFresh
  <2>6. m - 1 \in 0 .. MaxLeaves - 1
    BY <1>1, PoolAssumption
  <2> QED
    BY <2>1, <2>5, <2>6 DEF LeavesFit
<1>2. CASE k = 0 /\ l = 0
  BY <1>2
<1>3. CASE k = 0 /\ l > 0
  BY <1>1, <1>3 DEF RootOfDeposit
<1>4. CASE k > 0 /\ l = 0
  BY <1>1, <1>4 DEF RootOfDeposit
<1>5. CASE k > 0 /\ l > 0
  <2>1. PICK s, n : n \in Notes /\ r = RootAfter(s, k - 1, n)
    BY <1>1, <1>5
  <2>2. PICK t, m : m \in Notes /\ r = RootAfter(t, l - 1, m)
    BY <1>1, <1>5
  <2> DEFINE i == k - 1
             j == l - 1
  <2>3. i \in Nat /\ IndexAt(i)[TreeDepth] = 0 /\ j \in Nat /\ IndexAt(j)[TreeDepth] = 0
    BY <1>1, <1>5
  <2>4. RootAfter(s, i, n) = RootAfter(t, j, m)
    BY <2>1, <2>2
  <2>5. i = j
    <3> HIDE DEF i, j
    <3> QED
      BY <2>1, <2>2, <2>3, <2>4, RootDeterminesIndex DEF HashesAreFresh
  <2> QED
    BY <2>5, PoolAssumption
<1> QED
  BY <1>2, <1>3, <1>4, <1>5, PoolAssumption

LEMMA DepositRootKept ==
    ASSUME DepositRootInv, [Next]_vars
    PROVE  DepositRootInv'
<1>1. /\ PoolInv' /\ PoolInv /\ Len(leaves) \in Nat
      /\ lastDeposit \in 0 .. Len(leaves) /\ RootOfDeposit(lastDeposit, sha256Root)
  BY NextKeepsInv, LeavesGrow DEF DepositRootInv, PoolInv, TypeOK, TreeOK
<1>2. ASSUME NEW n \in Notes, NEW amount, Deposit(n, amount)
      PROVE  DepositRootInv'
  <2>1. /\ lastDeposit' = Len(leaves) + 1 /\ UNCHANGED operator
        /\ sha256Root' = RootAfter(filledSubtrees, Len(leaves), n)
    BY <1>2 DEF Deposit, InsertLeaf, nextLeafIndex
  <2>2. RootOfDeposit(lastDeposit, sha256Root)'
    <3>1. lastDeposit' > 0 /\ lastDeposit' - 1 = Len(leaves)
      BY <1>1, <2>1
    <3> QED
      BY <2>1, <3>1 DEF RootOfDeposit
  <2>3. OperatorReadRoot'
    <3> SUFFICES ASSUME operator.stage \in {"sha", "ready"} PROVE OperatorReadRoot'
      BY <2>1 DEF OperatorReadRoot
    <3>1. PICK k \in 0 .. lastDeposit :
            RootOfDeposit(k, operator.sha) /\ (operator.stage = "ready" => k <= operator.root)
      BY DEF DepositRootInv, OperatorReadRoot
    <3>2. k \in 0 .. lastDeposit'
      BY <1>1, <2>1
    <3> QED
      BY <2>1, <3>1, <3>2 DEF OperatorReadRoot
  <2> QED
    BY <1>1, <2>2, <2>3 DEF DepositRootInv
<1>3. ASSUME UNCHANGED <<lastDeposit, sha256Root>>, OperatorReadRoot' PROVE DepositRootInv'
  BY <1>1, <1>3 DEF DepositRootInv
<1>4. CASE ReadShaRoot
  <2>1. operator' = [stage |-> "sha", sha |-> sha256Root]
        /\ UNCHANGED <<lastDeposit, sha256Root>>
    BY <1>4 DEF ReadShaRoot, treeVars
  <2>2. lastDeposit \in 0 .. lastDeposit'
    BY <1>1, <2>1
  <2> QED
    BY <1>1, <1>3, <2>1, <2>2 DEF OperatorReadRoot
<1>5. CASE ReadLeaves
  <2>1. operator' = [stage |-> "ready", sha |-> operator.sha, root |-> Len(leaves)]
        /\ operator.stage = "sha" /\ UNCHANGED <<lastDeposit, sha256Root>>
    BY <1>5 DEF ReadLeaves, nextLeafIndex, treeVars
  <2>2. PICK k \in 0 .. lastDeposit : RootOfDeposit(k, operator.sha)
    BY <2>1 DEF DepositRootInv, OperatorReadRoot
  <2>3. k <= Len(leaves)
    BY <1>1
  <2> QED
    BY <1>3, <2>1, <2>2, <2>3 DEF OperatorReadRoot
<1>6. CASE UpdateRoot \/ UpdateRootReverts
  <2>1. operator' = Idle /\ UNCHANGED <<lastDeposit, sha256Root>>
    BY <1>6 DEF UpdateRoot, UpdateRootReverts, treeVars
  <2> QED
    BY <1>3, <2>1 DEF OperatorReadRoot, Idle
<1>7. CASE UNCHANGED <<lastDeposit, sha256Root, operator>>
  BY <1>3, <1>7 DEF DepositRootInv, OperatorReadRoot
<1>8. ASSUME NEW root, NEW nf1, NEW nf2, NEW out1, NEW out2, NEW paid,
             Consume(root, nf1, nf2, out1, out2, paid)
      PROVE  UNCHANGED <<lastDeposit, sha256Root>>
  BY <1>8 DEF Consume, AppendOutputs
<1>9. CASE Owner \/ UNCHANGED vars \/ \E n \in BridgedNotes : LockCommitment(n)
  BY <1>7, <1>9 DEF Owner, FinalizeEpoch, SetPaused, LockCommitment, vars, treeVars
<1> QED
  BY <1>2, <1>4, <1>5, <1>6, <1>7, <1>8, <1>9
     DEF Next, Caller, Operator, Transfer, Withdraw

\* Only updateRoot() changes the current root, and the root that it is handed
\* covers the deposit whose SHA-256 root the contract still has.
LEMMA UpdateCovers ==
    ASSUME LeavesFit, HashesAreFresh, DepositRootInv, [Next]_vars
    PROVE  currentRoot' # currentRoot => currentRoot' >= lastDeposit
<1>1. /\ lastDeposit \in 0 .. Len(leaves) /\ Len(leaves) \in Nat /\ Len(leaves) <= MaxLeaves
      /\ RootOfDeposit(lastDeposit, sha256Root) /\ OperatorOK
  BY DEF DepositRootInv, PoolInv, TypeOK, TreeOK
<1>2. CASE UpdateRoot
  <2>1. /\ operator.stage = "ready" /\ sha256Root = operator.sha
        /\ currentRoot' = operator.root
    BY <1>2 DEF UpdateRoot, RecordRoot
  <2>2. PICK k \in 0 .. lastDeposit :
            RootOfDeposit(k, operator.sha) /\ k <= operator.root
    BY <2>1 DEF DepositRootInv, OperatorReadRoot
  <2>3. k \in 0 .. MaxLeaves /\ lastDeposit \in 0 .. MaxLeaves
    BY <1>1, PoolAssumption
  <2>4. k = lastDeposit
    BY <1>1, <2>1, <2>2, <2>3, RootTellsDeposit
  <2>5. operator.root \in Nat
    BY <1>1, <2>1 DEF OperatorOK, Idle
  <2> QED
    BY <1>1, <2>1, <2>2, <2>4, <2>5
<1>3. CASE UNCHANGED currentRoot
  BY <1>3
<1> QED
  BY <1>2, <1>3 DEF Next, Caller, Deposit, LockCommitment, Transfer, Withdraw, Operator,
     ReadShaRoot, ReadLeaves, UpdateRootReverts, Owner, FinalizeEpoch, SetPaused, vars,
     rootVars

\* UpdateCoversDeposits: while the leaves fit the tree, updateRoot()'s comparison
\* of SHA-256 roots lets no root in that misses a deposit, whatever happened
\* between the operator's reads and its transaction.
THEOREM PoolUpdateCoversDeposits ==
    ASSUME LeavesFit, HashesAreFresh
    PROVE  Spec => UpdateCoversDeposits
<1>1. Init => DepositRootInv
  <2> SUFFICES ASSUME Init PROVE DepositRootInv
    OBVIOUS
  <2>1. lastDeposit = 0 /\ sha256Root = ZeroBytes /\ operator = [stage |-> "idle"]
    BY DEF Init, Idle
  <2> QED
    BY <2>1, InitPoolInv DEF DepositRootInv, RootOfDeposit, OperatorReadRoot
<1>2. DepositRootInv /\ [Next]_vars => DepositRootInv'
  BY DepositRootKept
<1>3. DepositRootInv /\ [Next]_vars
        => [currentRoot' # currentRoot => currentRoot' >= lastDeposit]_vars
  BY UpdateCovers
<1> QED
  BY <1>1, <1>2, <1>3, PTL DEF Spec, UpdateCoversDeposits

=============================================================================

------------------------- MODULE HolancBridgeProofs -------------------------
(***************************************************************************)
(* The bridges for every set of chains of either kind, every tree of words *)
(* and every bound: their types, where the roots come from that a chain    *)
(* holds, when a word that verifies may stop verifying, and that a         *)
(* commitment is locked once.                                              *)
(***************************************************************************)
EXTENDS HolancBridge, TLAPS

(***************************************************************************)
(* That peers agree is not inductive, and need not be: roots that were     *)
(* both published for one epoch differ only if the source contradicted     *)
(* itself.  LockedOnce is inductive with the fact that a lock's record is  *)
(* never unlocked, which it does not say of a lock that nobody announced.  *)
(***************************************************************************)
RootsIInv == TypeOK /\ HeldWasPublished

\* The contract never sets isUnlocked.
LocksStay ==
    \A k \in Chains, c \in Commitments :
        commitmentLocks[k][c] # NoLock => ~commitmentLocks[k][c].isUnlocked

LocksIInv == TypeOK /\ LocksStay /\ LockedOnce

USE BridgeAssumption

-----------------------------------------------------------------------------
(* What each operation writes.                                             *)

LEMMA Published ==
    ASSUME TypeOK, NEW k \in Chains, NEW e \in Epochs, NEW r \in Words,
           PublishEpochRoot(k, e, r)
    PROVE  /\ outboundMessages' \in [Chains -> Seq(Messages)]
           /\ \A j \in Chains : \A i \in DOMAIN outboundMessages[j] :
                 /\ i \in DOMAIN outboundMessages'[j]
                 /\ outboundMessages'[j][i] = outboundMessages[j][i]
<1> DEFINE m == [epoch |-> e, root |-> r]
<1>1. m \in Messages
  BY DEF Messages
<1>2. outboundMessages' = [outboundMessages EXCEPT ![k] = Append(@, m)]
  BY DEF PublishEpochRoot
<1>3. outboundMessages \in [Chains -> Seq(Messages)]
  BY DEF TypeOK
<1> HIDE DEF m
<1>4. Append(outboundMessages[k], m) \in Seq(Messages)
  BY <1>1, <1>3
<1>5. \A i \in DOMAIN outboundMessages[k] :
          /\ i \in DOMAIN Append(outboundMessages[k], m)
          /\ Append(outboundMessages[k], m)[i] = outboundMessages[k][i]
  BY <1>1, <1>3
<1> QED
  BY <1>2, <1>3, <1>4, <1>5

\* What is stored is a root of the message, for its epoch; on Solana, only
\* where there was none.
LEMMA Received ==
    ASSUME TypeOK, NEW k \in Chains, NEW s \in Chains,
           NEW i \in DOMAIN outboundMessages[s], ReceiveEpochRoot(k, s, i)
    PROVE  /\ foreignRoots' \in
                 [Chains -> [Chains -> [Epochs -> Words \cup {NoRoot}]]]
           /\ s # k
           /\ outboundMessages[s][i] \in Messages
           /\ k \in SvmChains =>
                 foreignRoots[k][s][outboundMessages[s][i].epoch] = NoRoot
           /\ foreignRoots'[k][s][outboundMessages[s][i].epoch] =
                 outboundMessages[s][i].root
           /\ \A l, j \in Chains, e \in Epochs :
                 (l # k \/ j # s \/ e # outboundMessages[s][i].epoch) =>
                    foreignRoots'[l][j][e] = foreignRoots[l][j][e]
<1> DEFINE m == outboundMessages[s][i]
<1>1. m \in Messages
  <2>1. outboundMessages[s] \in Seq(Messages)
    BY DEF TypeOK
  <2> QED
    BY <2>1
<1>2. m.epoch \in Epochs /\ m.root \in Words
  BY <1>1 DEF Messages
<1>3. foreignRoots' = [foreignRoots EXCEPT ![k][s][m.epoch] = m.root]
  BY DEF ReceiveEpochRoot
<1>4. foreignRoots \in [Chains -> [Chains -> [Epochs -> Words \cup {NoRoot}]]]
  BY DEF TypeOK
<1>5. s # k /\ (k \in SvmChains => foreignRoots[k][s][m.epoch] = NoRoot)
  BY DEF ReceiveEpochRoot
<1> HIDE DEF m
<1>6. foreignRoots' \in [Chains -> [Chains -> [Epochs -> Words \cup {NoRoot}]]]
  BY <1>2, <1>3, <1>4
<1>7. foreignRoots'[k][s][m.epoch] = m.root
  BY <1>2, <1>3, <1>4
<1>8. \A l, j \in Chains, e \in Epochs :
          (l # k \/ j # s \/ e # m.epoch) =>
             foreignRoots'[l][j][e] = foreignRoots[l][j][e]
  BY <1>2, <1>3, <1>4
<1> QED
  BY <1>1, <1>5, <1>6, <1>7, <1>8 DEF m

LEMMA Locked ==
    ASSUME TypeOK, NEW k \in Chains, NEW c \in Commitments, NEW d \in Chains,
           NEW w \in Wallets, LockCommitment(k, c, d, w)
    PROVE  /\ commitmentLocks' \in
                 [Chains -> [Commitments -> LockRecords \cup {NoLock}]]
           /\ commitmentLocks'[k][c] =
                 [to |-> d, locker |-> w, isUnlocked |-> FALSE]
           /\ \A j \in Chains, b \in Commitments :
                 (j # k \/ b # c) =>
                    commitmentLocks'[j][b] = commitmentLocks[j][b]
<1> DEFINE lock == [to |-> d, locker |-> w, isUnlocked |-> FALSE]
<1>1. lock \in LockRecords
  BY DEF LockRecords
<1>2. commitmentLocks' = [commitmentLocks EXCEPT ![k][c] = lock]
  BY DEF LockCommitment, Lock
<1>3. commitmentLocks \in [Chains -> [Commitments -> LockRecords \cup {NoLock}]]
  BY DEF TypeOK
<1> HIDE DEF lock
<1> QED
  BY <1>1, <1>2, <1>3 DEF lock

-----------------------------------------------------------------------------
(* Types.                                                                  *)

LEMMA InitTypes == Init => TypeOK
BY DEF Init, TypeOK

LEMMA StepTypes ==
    ASSUME TypeOK, [Next]_vars
    PROVE  TypeOK'
<1>1. CASE UNCHANGED vars
  BY <1>1 DEF vars, rootVars, lockVars, TypeOK
<1>2. CASE Next
  <2> PICK k \in Chains :
        \/ SetActive(k)
        \/ \E e \in Epochs, r \in Words : PublishEpochRoot(k, e, r)
        \/ \E j \in Chains : \E i \in DOMAIN outboundMessages[j] :
              ReceiveEpochRoot(k, j, i)
        \/ \E c \in Commitments, d \in Chains, w \in Wallets :
              LockCommitment(k, c, d, w)
        \/ \E j \in Chains, c \in Commitments : UnlockCommitment(k, j, c)
    BY <1>2 DEF Next
  <2>1. CASE SetActive(k)
    BY <2>1 DEF SetActive, TypeOK, rootVars, lockVars
  <2>2. CASE \E e \in Epochs, r \in Words : PublishEpochRoot(k, e, r)
    <3> PICK e \in Epochs, r \in Words : PublishEpochRoot(k, e, r)
      BY <2>2
    <3>1. outboundMessages' \in [Chains -> Seq(Messages)]
      BY Published
    <3>2. published' \in 0 .. MaxMessages
      BY DEF PublishEpochRoot, TypeOK
    <3> QED
      BY <3>1, <3>2 DEF PublishEpochRoot, TypeOK, lockVars
  <2>3. CASE \E j \in Chains : \E i \in DOMAIN outboundMessages[j] :
                ReceiveEpochRoot(k, j, i)
    <3> PICK j \in Chains : \E i \in DOMAIN outboundMessages[j] :
                ReceiveEpochRoot(k, j, i)
      BY <2>3
    <3> PICK i \in DOMAIN outboundMessages[j] : ReceiveEpochRoot(k, j, i)
      OBVIOUS
    <3>1. foreignRoots' \in
             [Chains -> [Chains -> [Epochs -> Words \cup {NoRoot}]]]
      BY Received
    <3> QED
      BY <3>1 DEF ReceiveEpochRoot, TypeOK, lockVars
  <2>4. CASE \E c \in Commitments, d \in Chains, w \in Wallets :
                LockCommitment(k, c, d, w)
    <3> PICK c \in Commitments, d \in Chains, w \in Wallets :
                LockCommitment(k, c, d, w)
      BY <2>4
    <3>1. commitmentLocks' \in
             [Chains -> [Commitments -> LockRecords \cup {NoLock}]]
      BY Locked
    <3>2. /\ lockEvents' \subseteq [commitment : Commitments, from : Chains,
                                    to : Chains, locker : Wallets]
          /\ \A event \in lockEvents' : event.from # event.to
      BY DEF LockCommitment, Lock, TypeOK
    <3>3. bridged' \in 0 .. MaxBridged
      BY DEF LockCommitment, Lock, TypeOK
    <3> QED
      BY <3>1, <3>2, <3>3 DEF LockCommitment, Lock, TypeOK, rootVars
  <2>5. CASE \E j \in Chains, c \in Commitments : UnlockCommitment(k, j, c)
    <3> PICK j \in Chains, c \in Commitments : UnlockCommitment(k, j, c)
      BY <2>5
    <3>1. unlockRecords' \in [Chains -> SUBSET (Chains \X Commitments)]
      BY DEF UnlockCommitment, TypeOK
    <3>2. bridged' \in 0 .. MaxBridged
      BY DEF UnlockCommitment, TypeOK
    <3> QED
      BY <3>1, <3>2 DEF UnlockCommitment, TypeOK, rootVars
  <2> QED
    BY <2>1, <2>2, <2>3, <2>4, <2>5
<1> QED
  BY <1>1, <1>2

\* Types, for every set of chains and every bound.
THEOREM BridgeTypes == Spec => []TypeOK
<1>1. Init => TypeOK
  BY InitTypes
<1>2. TypeOK /\ [Next]_vars => TypeOK'
  BY StepTypes
<1> QED
  BY <1>1, <1>2, PTL DEF Spec

-----------------------------------------------------------------------------
(* Roots.                                                                  *)

\* Whatever is held in the next state is held already or is the message's that
\* arrives.
LEMMA StepHeld ==
    ASSUME RootsIInv, [Next]_vars
    PROVE  HeldWasPublished'
<1> SUFFICES ASSUME NEW l \in Chains, NEW j \in Chains, NEW e \in Epochs,
                    foreignRoots'[l][j][e] # NoRoot
             PROVE  /\ j # l
                    /\ \E i \in DOMAIN outboundMessages'[j] :
                          outboundMessages'[j][i] =
                             [epoch |-> e, root |-> foreignRoots'[l][j][e]]
  BY DEF HeldWasPublished
<1> DEFINE Held == /\ j # l
                   /\ \E i \in DOMAIN outboundMessages[j] :
                         outboundMessages[j][i] =
                            [epoch |-> e, root |-> foreignRoots'[l][j][e]]
<1>1. ASSUME foreignRoots'[l][j][e] = foreignRoots[l][j][e]
      PROVE  Held
  BY <1>1 DEF RootsIInv, HeldWasPublished
<1>2. CASE UNCHANGED vars
  BY <1>1, <1>2 DEF vars, rootVars
<1>3. CASE Next
  <2> PICK k \in Chains :
        \/ SetActive(k)
        \/ \E f \in Epochs, r \in Words : PublishEpochRoot(k, f, r)
        \/ \E s \in Chains : \E i \in DOMAIN outboundMessages[s] :
              ReceiveEpochRoot(k, s, i)
        \/ \E c \in Commitments, d \in Chains, w \in Wallets :
              LockCommitment(k, c, d, w)
        \/ \E s \in Chains, c \in Commitments : UnlockCommitment(k, s, c)
    BY <1>3 DEF Next
  <2>1. CASE SetActive(k)
    BY <1>1, <2>1 DEF SetActive, rootVars
  <2>2. CASE \E f \in Epochs, r \in Words : PublishEpochRoot(k, f, r)
    <3> PICK f \in Epochs, r \in Words : PublishEpochRoot(k, f, r)
      BY <2>2
    <3>1. Held
      BY <1>1 DEF PublishEpochRoot
    <3>2. \A i \in DOMAIN outboundMessages[j] :
             /\ i \in DOMAIN outboundMessages'[j]
             /\ outboundMessages'[j][i] = outboundMessages[j][i]
      BY Published DEF RootsIInv
    <3> QED
      BY <3>1, <3>2
  <2>3. CASE \E s \in Chains : \E i \in DOMAIN outboundMessages[s] :
                ReceiveEpochRoot(k, s, i)
    <3> PICK s \in Chains : \E i \in DOMAIN outboundMessages[s] :
                ReceiveEpochRoot(k, s, i)
      BY <2>3
    <3> PICK i \in DOMAIN outboundMessages[s] : ReceiveEpochRoot(k, s, i)
      OBVIOUS
    <3>1. outboundMessages' = outboundMessages
      BY DEF ReceiveEpochRoot
    <3>2. CASE l # k \/ j # s \/ e # outboundMessages[s][i].epoch
      <4>1. foreignRoots'[l][j][e] = foreignRoots[l][j][e]
        BY <3>2, Received DEF RootsIInv
      <4> QED
        BY <1>1, <3>1, <4>1
    <3>3. CASE l = k /\ j = s /\ e = outboundMessages[s][i].epoch
      <4>1. /\ s # k
            /\ outboundMessages[s][i] \in Messages
            /\ foreignRoots'[l][j][e] = outboundMessages[s][i].root
        BY <3>3, Received DEF RootsIInv
      <4>2. outboundMessages[s][i] =
               [epoch |-> e, root |-> foreignRoots'[l][j][e]]
        BY <3>3, <4>1 DEF Messages
      <4> QED
        BY <3>1, <3>3, <4>1, <4>2
    <3> QED
      BY <3>2, <3>3
  <2>4. CASE \E c \in Commitments, d \in Chains, w \in Wallets :
                LockCommitment(k, c, d, w)
    BY <1>1, <2>4 DEF LockCommitment, Lock, rootVars
  <2>5. CASE \E s \in Chains, c \in Commitments : UnlockCommitment(k, s, c)
    BY <1>1, <2>5 DEF UnlockCommitment, rootVars
  <2> QED
    BY <2>1, <2>2, <2>3, <2>4, <2>5
<1> QED
  BY <1>2, <1>3

\* Two roots of one epoch that were both published contradict each other.
LEMMA Contradiction ==
    ASSUME NEW l \in Chains, NEW e \in Epochs,
           NEW i1 \in DOMAIN outboundMessages[l],
           NEW i2 \in DOMAIN outboundMessages[l],
           outboundMessages[l][i1].epoch = e,
           outboundMessages[l][i2].epoch = e,
           outboundMessages[l][i1].root # outboundMessages[l][i2].root
    PROVE  Contradicted(l, e)
BY DEF Contradicted

LEMMA HeldRootsAgree == RootsIInv => RootsInv
<1> SUFFICES ASSUME RootsIInv PROVE PeersAgree
  BY DEF RootsIInv, RootsInv
<1> SUFFICES ASSUME NEW j \in Chains, NEW k \in Chains, NEW l \in Chains,
                    NEW e \in Epochs,
                    foreignRoots[j][l][e] # NoRoot,
                    foreignRoots[k][l][e] # NoRoot,
                    foreignRoots[j][l][e] # foreignRoots[k][l][e]
             PROVE  Contradicted(l, e)
  BY DEF PeersAgree
<1>1. PICK i1 \in DOMAIN outboundMessages[l] :
         outboundMessages[l][i1] =
            [epoch |-> e, root |-> foreignRoots[j][l][e]]
  BY DEF RootsIInv, HeldWasPublished
<1>2. PICK i2 \in DOMAIN outboundMessages[l] :
         outboundMessages[l][i2] =
            [epoch |-> e, root |-> foreignRoots[k][l][e]]
  BY DEF RootsIInv, HeldWasPublished
<1>3. /\ outboundMessages[l][i1].epoch = e
      /\ outboundMessages[l][i2].epoch = e
      /\ outboundMessages[l][i1].root # outboundMessages[l][i2].root
  BY <1>1, <1>2
<1> QED
  BY <1>3, Contradiction

LEMMA RootsInductive == Spec => []RootsIInv
<1>1. Init => RootsIInv
  BY InitTypes DEF Init, RootsIInv, HeldWasPublished
<1>2. RootsIInv /\ [Next]_vars => RootsIInv'
  BY StepTypes, StepHeld DEF RootsIInv
<1> QED
  BY <1>1, <1>2, PTL DEF Spec

\* What a chain holds for an epoch of another was published there for that
\* epoch, and chains that hold a root of it agree unless its source contradicted
\* itself.
THEOREM BridgeRoots == Spec => []RootsInv
BY RootsInductive, HeldRootsAgree, PTL

\* Only a message with another root of the epoch can end a verification.
LEMMA StepVerified ==
    ASSUME RootsIInv, Next,
           NEW l \in Chains, NEW j \in Chains, NEW e \in Epochs,
           NEW word \in Words, VerifyForeignNullifier(l, j, e, word)
    PROVE  \/ VerifyForeignNullifier(l, j, e, word)'
           \/ l \notin SvmChains /\ Contradicted(j, e)
<1>1. ASSUME foreignRoots'[l][j][e] = foreignRoots[l][j][e]
      PROVE  VerifyForeignNullifier(l, j, e, word)'
  BY <1>1 DEF VerifyForeignNullifier
<1> PICK k \in Chains :
      \/ SetActive(k)
      \/ \E f \in Epochs, r \in Words : PublishEpochRoot(k, f, r)
      \/ \E s \in Chains : \E i \in DOMAIN outboundMessages[s] :
            ReceiveEpochRoot(k, s, i)
      \/ \E c \in Commitments, d \in Chains, w \in Wallets :
            LockCommitment(k, c, d, w)
      \/ \E s \in Chains, c \in Commitments : UnlockCommitment(k, s, c)
  BY DEF Next
<1>2. CASE SetActive(k)
  BY <1>1, <1>2 DEF SetActive, rootVars
<1>3. CASE \E f \in Epochs, r \in Words : PublishEpochRoot(k, f, r)
  BY <1>1, <1>3 DEF PublishEpochRoot
<1>4. CASE \E s \in Chains : \E i \in DOMAIN outboundMessages[s] :
              ReceiveEpochRoot(k, s, i)
  <2> PICK s \in Chains : \E i \in DOMAIN outboundMessages[s] :
              ReceiveEpochRoot(k, s, i)
    BY <1>4
  <2> PICK i \in DOMAIN outboundMessages[s] : ReceiveEpochRoot(k, s, i)
    OBVIOUS
  <2>1. CASE l # k \/ j # s \/ e # outboundMessages[s][i].epoch
    BY <1>1, <2>1, Received DEF RootsIInv
  <2>2. CASE l = k /\ j = s /\ e = outboundMessages[s][i].epoch
    <3>1. foreignRoots'[l][j][e] = outboundMessages[s][i].root
      BY <2>2, Received DEF RootsIInv
    <3>2. l \notin SvmChains
      BY <2>2, Received DEF RootsIInv, VerifyForeignNullifier
    <3>3. PICK i2 \in DOMAIN outboundMessages[j] :
             outboundMessages[j][i2] =
                [epoch |-> e, root |-> foreignRoots[l][j][e]]
      BY DEF RootsIInv, HeldWasPublished, VerifyForeignNullifier
    <3>4. CASE foreignRoots[l][j][e] = outboundMessages[s][i].root
      BY <1>1, <3>1, <3>4
    <3>5. CASE foreignRoots[l][j][e] # outboundMessages[s][i].root
      <4>1. /\ outboundMessages[j][i2].epoch = e
            /\ outboundMessages[j][i].epoch = e
            /\ outboundMessages[j][i2].root # outboundMessages[j][i].root
        BY <2>2, <3>3, <3>5
      <4>2. i \in DOMAIN outboundMessages[j]
        BY <2>2
      <4> QED
        BY <3>2, <4>1, <4>2, Contradiction
    <3> QED
      BY <3>4, <3>5
  <2> QED
    BY <2>1, <2>2
<1>5. CASE \E c \in Commitments, d \in Chains, w \in Wallets :
              LockCommitment(k, c, d, w)
  BY <1>1, <1>5 DEF LockCommitment, Lock, rootVars
<1>6. CASE \E s \in Chains, c \in Commitments : UnlockCommitment(k, s, c)
  BY <1>1, <1>6 DEF UnlockCommitment, rootVars
<1> QED
  BY <1>2, <1>3, <1>4, <1>5, <1>6

\* A word that verifies on a Solana chain verifies for ever; on an EVM chain it
\* stops only if the source has published two roots for the epoch.
THEOREM BridgeVerifiedStays == Spec => VerifiedStays
<1> DEFINE Stays ==
        \A k, j \in Chains, e \in Epochs, word \in Words :
           VerifyForeignNullifier(k, j, e, word) =>
              \/ VerifyForeignNullifier(k, j, e, word)'
              \/ k \notin SvmChains /\ Contradicted(j, e)
<1>1. RootsIInv /\ [Next]_vars => [Stays]_vars
  <2> SUFFICES ASSUME RootsIInv, Next PROVE Stays
    OBVIOUS
  <2> QED
    BY StepVerified
<1>2. VerifiedStays <=> [][Stays]_vars
  BY DEF VerifiedStays
<1> HIDE DEF Stays
<1>3. Spec => [][Stays]_vars
  BY <1>1, RootsInductive, PTL DEF Spec
<1> QED
  BY <1>2, <1>3

-----------------------------------------------------------------------------
(* Locks.                                                                  *)

\* A lock that is taken had not been announced.
LEMMA StepLock ==
    ASSUME LocksIInv, NEW k \in Chains, NEW c \in Commitments, NEW d \in Chains,
           NEW w \in Wallets, LockCommitment(k, c, d, w)
    PROVE  LocksStay' /\ LockedOnce'
<1> DEFINE lock == [to |-> d, locker |-> w, isUnlocked |-> FALSE]
           event == [commitment |-> c, from |-> k, to |-> d, locker |-> w]
           Announced(j, b) == {x \in lockEvents : x.from = j /\ x.commitment = b}
           AnnouncedNext(j, b) ==
               {x \in lockEvents' : x.from = j /\ x.commitment = b}
<1>1. lockEvents' = lockEvents \cup {event} /\ commitmentLocks[k][c] = NoLock
  BY DEF LockCommitment, Lock
<1>2. /\ commitmentLocks'[k][c] = lock
      /\ \A j \in Chains, b \in Commitments :
            (j # k \/ b # c) => commitmentLocks'[j][b] = commitmentLocks[j][b]
  BY Locked DEF LocksIInv
<1>3. lock \in LockRecords /\ lock # NoLock /\ ~lock.isUnlocked
  <2>1. lock \in LockRecords
    BY DEF LockRecords
  <2>2. ~lock.isUnlocked
    OBVIOUS
  <2> HIDE DEF lock
  <2> QED
    BY <2>1, <2>2
<1>4. LocksStay'
  BY <1>2, <1>3 DEF LocksIInv, LocksStay
<1>5. Announced(k, c) = {}
  BY <1>1 DEF LocksIInv, LockedOnce, IsCommitmentLocked
<1>6. AnnouncedNext(k, c) = {event}
  BY <1>1, <1>5
<1>7. ASSUME NEW j \in Chains, NEW b \in Commitments, j # k \/ b # c
      PROVE  AnnouncedNext(j, b) = Announced(j, b)
  BY <1>1, <1>7
<1>8. LockedOnce'
  <2> SUFFICES ASSUME NEW j \in Chains, NEW b \in Commitments
               PROVE  /\ IsCommitmentLocked(j, b)' <=> AnnouncedNext(j, b) # {}
                      /\ \A x \in AnnouncedNext(j, b) :
                            commitmentLocks'[j][b] =
                               [to |-> x.to, locker |-> x.locker,
                                isUnlocked |-> FALSE]
    BY DEF LockedOnce
  <2>1. CASE j = k /\ b = c
    <3>1. IsCommitmentLocked(k, c)'
      BY <1>2, <1>3 DEF IsCommitmentLocked
    <3>2. lock = [to |-> event.to, locker |-> event.locker,
                  isUnlocked |-> FALSE]
      OBVIOUS
    <3> HIDE DEF lock, event, AnnouncedNext
    <3> QED
      BY <1>2, <1>6, <2>1, <3>1, <3>2
  <2>2. CASE j # k \/ b # c
    <3>1. AnnouncedNext(j, b) = Announced(j, b)
      BY <1>7, <2>2
    <3>2. commitmentLocks'[j][b] = commitmentLocks[j][b]
      BY <1>2, <2>2
    <3>3. /\ IsCommitmentLocked(j, b) <=> Announced(j, b) # {}
          /\ \A x \in Announced(j, b) :
                commitmentLocks[j][b] =
                   [to |-> x.to, locker |-> x.locker, isUnlocked |-> FALSE]
      BY DEF LocksIInv, LockedOnce
    <3>4. IsCommitmentLocked(j, b)' <=> IsCommitmentLocked(j, b)
      BY <3>2 DEF IsCommitmentLocked
    <3> HIDE DEF lock, event, AnnouncedNext, Announced
    <3> QED
      BY <3>1, <3>2, <3>3, <3>4
  <2> QED
    BY <2>1, <2>2
<1> QED
  BY <1>4, <1>8

LEMMA StepLocks ==
    ASSUME LocksIInv, [Next]_vars
    PROVE  LocksStay' /\ LockedOnce'
<1>1. ASSUME UNCHANGED <<commitmentLocks, lockEvents>>
      PROVE  LocksStay' /\ LockedOnce'
  BY <1>1 DEF LocksIInv, LocksStay, LockedOnce, IsCommitmentLocked
<1>2. CASE UNCHANGED vars
  BY <1>1, <1>2 DEF vars, lockVars
<1>3. CASE Next
  <2> PICK k \in Chains :
        \/ SetActive(k)
        \/ \E f \in Epochs, r \in Words : PublishEpochRoot(k, f, r)
        \/ \E s \in Chains : \E i \in DOMAIN outboundMessages[s] :
              ReceiveEpochRoot(k, s, i)
        \/ \E c \in Commitments, d \in Chains, w \in Wallets :
              LockCommitment(k, c, d, w)
        \/ \E s \in Chains, c \in Commitments : UnlockCommitment(k, s, c)
    BY <1>3 DEF Next
  <2>1. CASE SetActive(k)
    BY <1>1, <2>1 DEF SetActive, lockVars
  <2>2. CASE \E f \in Epochs, r \in Words : PublishEpochRoot(k, f, r)
    BY <1>1, <2>2 DEF PublishEpochRoot, lockVars
  <2>3. CASE \E s \in Chains : \E i \in DOMAIN outboundMessages[s] :
                ReceiveEpochRoot(k, s, i)
    BY <1>1, <2>3 DEF ReceiveEpochRoot, lockVars
  <2>4. CASE \E c \in Commitments, d \in Chains, w \in Wallets :
                LockCommitment(k, c, d, w)
    BY <2>4, StepLock
  <2>5. CASE \E s \in Chains, c \in Commitments : UnlockCommitment(k, s, c)
    BY <1>1, <2>5 DEF UnlockCommitment
  <2> QED
    BY <2>1, <2>2, <2>3, <2>4, <2>5
<1> QED
  BY <1>2, <1>3

\* A commitment is locked on a chain once and for good, by the wallet and for
\* the destination that were announced.
THEOREM BridgeLockedOnce == Spec => []LockedOnce
<1>1. Init => LocksIInv
  BY InitTypes DEF Init, LocksIInv, LocksStay, LockedOnce, IsCommitmentLocked
<1>2. LocksIInv /\ [Next]_vars => LocksIInv'
  BY StepTypes, StepLocks DEF LocksIInv
<1>3. LocksIInv => LockedOnce
  BY DEF LocksIInv
<1> QED
  BY <1>1, <1>2, <1>3, PTL DEF Spec

=============================================================================

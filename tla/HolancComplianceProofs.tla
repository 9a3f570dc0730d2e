----------------------- MODULE HolancComplianceProofs -----------------------
(***************************************************************************)
(* The compliance contract and the program, for every set of oracles and   *)
(* of provers, every threshold, duration and proof: their types, the size  *)
(* of the oracle register, what an accepted attestation stands for, who    *)
(* can end it, and that a lapsed one does not come back.                   *)
(***************************************************************************)
EXTENDS HolancCompliance, FiniteSetTheorems, TLAPS

ActiveOracles == {o \in Oracles : oracles[o].isActive}

\* The count is never decremented, so it bounds the active oracles.
ActiveCounted ==
    /\ IsFiniteSet(ActiveOracles)
    /\ Cardinality(ActiveOracles) <= oracleCount

\* An attestation says what its prover's last proof said and until when that
\* counts: its validity is all that changes without a proof.
AttestationsHold ==
    \A p \in Provers :
        /\ lastProof[p].inputs # <<>> =>
              lastProof[p].inputs[1] = attestations[p].threshold
        /\ (attestations[p].isValid /\ lastProof[p].inputs = <<>>) => kind = "svm"
        /\ attestations[p].expiry = lastProof[p].at + lastProof[p].duration

\* The contract has one owner.
OneOwner == kind = "evm" => authorities = {Admin}

ComplianceIInv == TypeOK /\ ActiveCounted /\ AttestationsHold /\ OneOwner

USE ComplianceAssumption

-----------------------------------------------------------------------------
\* The times that the properties compare are numbers.
LEMMA TimesAreNumbers ==
    ASSUME TypeOK, NEW p \in Provers
    PROVE  /\ now \in Int /\ attestations[p].expiry \in Int
           /\ lastProof[p].at \in Int /\ lastProof[p].duration \in Int
<1>1. Times \subseteq Int /\ Durations \cup {0} \subseteq Int
  BY DEF Times
<1>2. attestations[p] \in [threshold : Thresholds \cup {0}, attestedAt : Times,
                           isValid : BOOLEAN, expiry : Nat]
  BY DEF TypeOK
<1>3. lastProof[p] \in [inputs : PublicInputs \cup {<<>>}, at : Times,
                        duration : Durations \cup {0}]
  BY DEF TypeOK
<1>4. lastProof[p].at \in Times /\ lastProof[p].duration \in Durations \cup {0}
  BY <1>3
<1>5. attestations[p].expiry \in Int
  BY <1>2
<1>6. now \in Times
  BY DEF TypeOK
<1> QED
  BY <1>1, <1>4, <1>5, <1>6

LEMMA InitCompliance == Init => ComplianceIInv
<1> SUFFICES ASSUME Init PROVE ComplianceIInv
  OBVIOUS
<1>1. TypeOK
  BY DEF Init, TypeOK, NoAttestation, NoProof, Times, Callers
<1>2. ActiveOracles = {}
  BY DEF Init, ActiveOracles
<1>3. ActiveCounted
  BY <1>2, FS_EmptySet DEF Init, ActiveCounted
<1>4. AttestationsHold
  BY DEF Init, AttestationsHold, NoAttestation, NoProof
<1>5. OneOwner
  BY DEF Init, OneOwner
<1> QED
  BY <1>1, <1>3, <1>4, <1>5 DEF ComplianceIInv

\* Registering makes one more oracle active at most, and counts it.
LEMMA RegisterKeeps ==
    ASSUME ComplianceIInv, NEW o \in Oracles, RegisterOracle(o)
    PROVE  ComplianceIInv'
<1> USE DEF ComplianceIInv, RegisterOracle
<1>1. /\ oracleCount \in 0 .. MAX_ORACLES
      /\ oracles' \in [Oracles -> [registered : BOOLEAN, isActive : BOOLEAN]]
      /\ oracleCount' \in 0 .. MAX_ORACLES
  BY DEF TypeOK
<1>2. ActiveOracles' = ActiveOracles \cup {o}
  BY DEF TypeOK, ActiveOracles
<1>3. /\ IsFiniteSet(ActiveOracles')
      /\ Cardinality(ActiveOracles') <= Cardinality(ActiveOracles) + 1
  <2>1. /\ IsFiniteSet(ActiveOracles \cup {o})
        /\ Cardinality(ActiveOracles \cup {o}) =
              IF o \in ActiveOracles THEN Cardinality(ActiveOracles)
                                     ELSE Cardinality(ActiveOracles) + 1
    BY FS_AddElement DEF ActiveCounted
  <2>2. Cardinality(ActiveOracles) \in Nat
    BY FS_CardinalityType DEF ActiveCounted
  <2> QED
    BY <1>2, <2>1, <2>2
<1>4. Cardinality(ActiveOracles) \in Nat /\ Cardinality(ActiveOracles') \in Nat
  BY <1>3, FS_CardinalityType DEF ActiveCounted
<1>5. ActiveCounted'
  BY <1>1, <1>3, <1>4 DEF ActiveCounted
<1>6. TypeOK'
  BY <1>1 DEF TypeOK, configVars
<1> QED
  BY <1>5, <1>6 DEF AttestationsHold, OneOwner, configVars

LEMMA DeactivateKeeps ==
    ASSUME ComplianceIInv, NEW o \in Oracles, DeactivateOracle(o)
    PROVE  ComplianceIInv'
<1> USE DEF ComplianceIInv, DeactivateOracle
<1>1. oracles' \in [Oracles -> [registered : BOOLEAN, isActive : BOOLEAN]]
  <2> DEFINE entry == [oracles[o] EXCEPT !.isActive = FALSE]
  <2>1. entry \in [registered : BOOLEAN, isActive : BOOLEAN]
    <3>1. oracles[o] \in [registered : BOOLEAN, isActive : BOOLEAN]
      BY DEF TypeOK
    <3> QED
      BY <3>1
  <2>2. oracles' = [oracles EXCEPT ![o] = entry]
    OBVIOUS
  <2> HIDE DEF entry
  <2> QED
    BY <2>1, <2>2 DEF TypeOK
<1>2. ActiveOracles' \in SUBSET ActiveOracles
  BY DEF TypeOK, ActiveOracles
<1>3. /\ IsFiniteSet(ActiveOracles')
      /\ Cardinality(ActiveOracles') <= Cardinality(ActiveOracles)
  BY <1>2, FS_Subset DEF ActiveCounted
<1>4. Cardinality(ActiveOracles) \in Nat /\ Cardinality(ActiveOracles') \in Nat
  BY <1>3, FS_CardinalityType DEF ActiveCounted
<1>5. ActiveCounted'
  BY <1>3, <1>4 DEF ActiveCounted, TypeOK
<1>6. TypeOK'
  BY <1>1 DEF TypeOK, configVars
<1> QED
  BY <1>5, <1>6 DEF AttestationsHold, OneOwner, configVars

\* The other actions leave the oracles alone.
LEMMA OraclesUnchanged ==
    ASSUME ActiveCounted, UNCHANGED oracleVars
    PROVE  ActiveCounted'
BY DEF ActiveCounted, ActiveOracles, oracleVars

\* What a proof that is accepted writes.
LEMMA SubmitKeeps ==
    ASSUME ComplianceIInv, NEW p \in Provers,
           NEW t \in Thresholds, NEW inputs \in PublicInputs,
           SubmitWealthProof(p, t, inputs)
    PROVE  ComplianceIInv'
<1> USE DEF ComplianceIInv, SubmitWealthProof, Attest
<1>1. /\ attestations' = [attestations EXCEPT ![p] =
            [threshold |-> t, attestedAt |-> now, isValid |-> TRUE,
             expiry |-> now + proofExpirySeconds]]
      /\ lastProof' = [lastProof EXCEPT ![p] =
            [inputs |-> inputs, at |-> now, duration |-> proofExpirySeconds]]
      /\ inputs # <<>> => inputs[1] = t
      /\ UNCHANGED <<configVars, oracleVars, now>>
  OBVIOUS
<1>2. now \in Nat /\ proofExpirySeconds \in Nat
  BY DEF TypeOK, Times
<1>3. TypeOK'
  BY <1>1, <1>2 DEF TypeOK, oracleVars, configVars
<1>4. AttestationsHold'
  <2> SUFFICES ASSUME NEW q \in Provers
               PROVE  /\ lastProof'[q].inputs # <<>> =>
                            lastProof'[q].inputs[1] = attestations'[q].threshold
                      /\ (attestations'[q].isValid /\ lastProof'[q].inputs = <<>>)
                            => kind' = "svm"
                      /\ attestations'[q].expiry =
                            lastProof'[q].at + lastProof'[q].duration
    BY DEF AttestationsHold
  <2>1. kind' = kind
    BY <1>1 DEF configVars
  <2>2. CASE q = p
    <3>1. /\ attestations'[p] = [threshold |-> t, attestedAt |-> now,
                                 isValid |-> TRUE,
                                 expiry |-> now + proofExpirySeconds]
          /\ lastProof'[p] = [inputs |-> inputs, at |-> now,
                              duration |-> proofExpirySeconds]
      BY <1>1 DEF TypeOK
    <3>2. inputs = <<>> => kind = "svm"
      BY DEF VerifierAccepts, TypeOK
    <3> QED
      BY <1>1, <2>1, <2>2, <3>1, <3>2
  <2>3. CASE q # p
    <3>1. attestations'[q] = attestations[q] /\ lastProof'[q] = lastProof[q]
      BY <1>1, <2>3 DEF TypeOK
    <3> QED
      BY <2>1, <3>1 DEF AttestationsHold
  <2> QED
    BY <2>2, <2>3
<1>5. ActiveCounted'
  BY OraclesUnchanged
<1>6. OneOwner'
  BY <1>1 DEF OneOwner, configVars
<1> QED
  BY <1>3, <1>4, <1>5, <1>6

LEMMA InvalidateKeeps ==
    ASSUME ComplianceIInv, NEW caller, NEW p \in Provers,
           InvalidateWealthProof(caller, p)
    PROVE  ComplianceIInv'
<1> USE DEF ComplianceIInv, InvalidateWealthProof
<1>1. attestations' = [attestations EXCEPT ![p].isValid = FALSE]
  OBVIOUS
<1>2. TypeOK'
  <2> DEFINE A == [threshold : Thresholds \cup {0}, attestedAt : Times,
                   isValid : BOOLEAN, expiry : Nat]
             entry == [attestations[p] EXCEPT !.isValid = FALSE]
  <2>1. attestations \in [Provers -> A]
    BY DEF TypeOK
  <2>2. entry \in A
    BY <2>1
  <2>3. attestations' = [attestations EXCEPT ![p] = entry]
    BY <1>1
  <2> HIDE DEF A, entry
  <2>4. attestations' \in [Provers -> A]
    BY <2>1, <2>2, <2>3
  <2> QED
    BY <2>4 DEF TypeOK, oracleVars, configVars, A
<1>3. AttestationsHold'
  <2>1. \A q \in Provers :
            /\ attestations'[q].threshold = attestations[q].threshold
            /\ attestations'[q].expiry = attestations[q].expiry
            /\ attestations'[q].isValid => attestations[q].isValid
    BY <1>1 DEF TypeOK
  <2>2. kind' = kind /\ lastProof' = lastProof
    BY DEF configVars
  <2> QED
    BY <2>1, <2>2 DEF AttestationsHold
<1>4. ActiveCounted'
  BY OraclesUnchanged
<1>5. OneOwner'
  BY DEF OneOwner, configVars
<1> QED
  BY <1>2, <1>3, <1>4, <1>5

\* On the program, another configuration only makes another authority.
LEMMA InitializeKeeps ==
    ASSUME ComplianceIInv, NEW caller \in Callers, InitializeAnother(caller)
    PROVE  ComplianceIInv'
<1> USE DEF ComplianceIInv, InitializeAnother
<1>1. TypeOK'
  BY DEF TypeOK, oracleVars
<1>2. AttestationsHold'
  BY DEF AttestationsHold
<1>3. ActiveCounted'
  BY OraclesUnchanged
<1>4. OneOwner'
  BY DEF OneOwner
<1> QED
  BY <1>1, <1>2, <1>3, <1>4

LEMMA ClockKeeps ==
    ASSUME ComplianceIInv,
           \/ Tick
           \/ \E d \in Durations : UpdateProofExpiry(d)
           \/ UNCHANGED vars
    PROVE  ComplianceIInv'
<1> USE DEF ComplianceIInv, Tick, UpdateProofExpiry, vars
<1>1. TypeOK'
  BY DEF TypeOK, Times, oracleVars, configVars
<1>2. AttestationsHold'
  BY DEF AttestationsHold, configVars
<1>3. ActiveCounted'
  BY OraclesUnchanged
<1>4. OneOwner'
  BY DEF OneOwner, configVars
<1> QED
  BY <1>1, <1>2, <1>3, <1>4

LEMMA NextKeepsCompliance == ComplianceIInv /\ [Next]_vars => ComplianceIInv'
<1> SUFFICES ASSUME ComplianceIInv, [Next]_vars PROVE ComplianceIInv'
  OBVIOUS
<1>1. ASSUME NEW o \in Oracles, RegisterOracle(o) \/ DeactivateOracle(o)
      PROVE  ComplianceIInv'
  BY <1>1, RegisterKeeps, DeactivateKeeps
<1>2. ASSUME NEW p \in Provers, NEW t \in Thresholds,
             NEW inputs \in PublicInputs, SubmitWealthProof(p, t, inputs)
      PROVE  ComplianceIInv'
  BY <1>2, SubmitKeeps
<1>3. ASSUME NEW p \in Provers, NEW caller, InvalidateWealthProof(caller, p)
      PROVE  ComplianceIInv'
  BY <1>3, InvalidateKeeps
<1>4. ASSUME \/ Tick
             \/ \E d \in Durations : UpdateProofExpiry(d)
             \/ UNCHANGED vars
      PROVE  ComplianceIInv'
  BY <1>4, ClockKeeps
<1>5. ASSUME NEW caller \in Callers, InitializeAnother(caller)
      PROVE  ComplianceIInv'
  BY <1>5, InitializeKeeps
<1> QED
  BY <1>1, <1>2, <1>3, <1>4, <1>5 DEF Next

LEMMA ComplianceInvariant == Spec => []ComplianceIInv
BY InitCompliance, NextKeepsCompliance, PTL DEF Spec

-----------------------------------------------------------------------------
\* No sequence of registrations and deactivations makes more than MAX_ORACLES
\* oracles active, however large the set of addresses.
THEOREM ComplianceActiveWithinLimit == Spec => []ActiveWithinLimit
<1>1. ComplianceIInv => ActiveWithinLimit
  <2> SUFFICES ASSUME ComplianceIInv PROVE ActiveWithinLimit
    OBVIOUS
  <2>1. Cardinality(ActiveOracles) \in Nat /\ Cardinality(ActiveOracles) <= oracleCount
    BY FS_CardinalityType DEF ComplianceIInv, ActiveCounted
  <2>2. oracleCount \in 0 .. MAX_ORACLES
    BY DEF ComplianceIInv, TypeOK
  <2>3. Cardinality(ActiveOracles) <= MAX_ORACLES
    BY <2>1, <2>2
  <2> QED
    BY <2>3 DEF ActiveWithinLimit, ActiveOracles
<1> QED
  BY <1>1, ComplianceInvariant, PTL

\* What validateWealthProof() returns is what the last accepted proof has for its
\* first public input, not longer ago than proofs lasted then; on the contract,
\* until its last moment only its prover and the owner can end it.
THEOREM ComplianceAttestations == Spec => []AttestationsInv
<1>1. ComplianceIInv => AttestationsInv
  <2> SUFFICES ASSUME ComplianceIInv PROVE AttestationsInv
    OBVIOUS
  <2> USE DEF ComplianceIInv
  <2>1. ASSUME NEW p \in Provers, Validates(p)
        PROVE  /\ now - lastProof[p].at <= lastProof[p].duration
               /\ ~Expired(p)
    <3>1. /\ now \in Int /\ attestations[p].expiry \in Int
          /\ lastProof[p].at \in Int /\ lastProof[p].duration \in Int
      BY TimesAreNumbers
    <3>2. now <= attestations[p].expiry
      BY <2>1 DEF Validates
    <3>3. attestations[p].expiry = lastProof[p].at + lastProof[p].duration
      BY DEF AttestationsHold
    <3>4. now - lastProof[p].at <= lastProof[p].duration
      BY <3>1, <3>2, <3>3
    <3>5. ~Expired(p)
      BY <3>1, <3>2 DEF Expired
    <3> QED
      BY <3>4, <3>5
  <2>2. ASSUME NEW p \in Provers, Validates(p)
        PROVE  \/ /\ lastProof[p].inputs # <<>>
                  /\ lastProof[p].inputs[1] = attestations[p].threshold
               \/ lastProof[p].inputs = <<>> /\ kind = "svm"
    BY <2>2 DEF AttestationsHold, Validates
  <2>3. ValidatedWasAccepted
    BY <2>1, <2>2 DEF ValidatedWasAccepted
  <2>4. OthersCannotEnd
    BY <2>1 DEF OthersCannotEnd, MayInvalidate, OneOwner
  <2> QED
    BY <2>3, <2>4 DEF AttestationsInv
<1> QED
  BY <1>1, ComplianceInvariant, PTL

\* Nothing but a new proof of its prover makes an attestation count again.
THEOREM ComplianceLapsedStaysLapsed == Spec => LapsedStaysLapsed
<1> DEFINE Revived(p) == ~Validates(p) /\ Validates(p)'
           Proved(p) == \E t \in Thresholds, inputs \in PublicInputs :
                           SubmitWealthProof(p, t, inputs)
<1>1. ASSUME ComplianceIInv, [Next]_vars, NEW p \in Provers, Revived(p)
      PROVE  Proved(p)
  <2>1. ASSUME NEW q \in Provers, NEW t \in Thresholds,
               NEW inputs \in PublicInputs, SubmitWealthProof(q, t, inputs)
        PROVE  Proved(p)
    <3>1. CASE q = p
      BY <2>1, <3>1
    <3>2. CASE q # p
      <4>1. attestations'[p] = attestations[p] /\ now' = now
        BY <2>1, <3>2 DEF SubmitWealthProof, Attest, ComplianceIInv, TypeOK
      <4> QED
        BY <1>1, <4>1 DEF Validates
    <3> QED
      BY <3>1, <3>2
  <2>2. ASSUME NEW q \in Provers, NEW caller, InvalidateWealthProof(caller, q)
        PROVE  FALSE
    <3>1. /\ now' = now
          /\ attestations' = [attestations EXCEPT ![q].isValid = FALSE]
      BY <2>2 DEF InvalidateWealthProof
    <3>2. attestations'[p].isValid => attestations'[p] = attestations[p]
      BY <3>1 DEF ComplianceIInv, TypeOK
    <3> QED
      BY <1>1, <3>1, <3>2 DEF Validates
  <2>3. CASE Tick
    <3>1. /\ attestations' = attestations /\ now' = now + 1
          /\ now \in Int /\ attestations[p].expiry \in Int
      BY <1>1, <2>3 DEF Tick, ComplianceIInv, TypeOK, Times
    <3> QED
      BY <1>1, <3>1 DEF Validates
  <2>4. ASSUME UNCHANGED <<attestations, now>> PROVE FALSE
    BY <1>1, <2>4 DEF Validates
  <2> QED
    BY <1>1, <2>1, <2>2, <2>3, <2>4
       DEF Next, RegisterOracle, DeactivateOracle, UpdateProofExpiry,
           InitializeAnother, vars
<1>2. ComplianceIInv /\ [Next]_vars => \A p \in Provers : Revived(p) => Proved(p)
  BY <1>1
<1> QED
  BY <1>2, ComplianceInvariant, PTL DEF Spec, LapsedStaysLapsed

=============================================================================

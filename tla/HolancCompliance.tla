-------------------------- MODULE HolancCompliance --------------------------
(***************************************************************************)
(* The compliance contract of a pool, or the Solana program of the same    *)
(* name: its register of oracles and the wealth attestations, which expire *)
(* with time, are renewed, and are invalidated by their owners or anyone.  *)
(* The program keeps every record in an account that can be created once,  *)
(* and serves the configurations of all pools, which anybody may add to.   *)
(*                                                                         *)
(* An attestation stands for a proof that the verifier accepted, and no    *)
(* more: the circuit lists the Merkle root before the threshold, while the *)
(* code takes the first public input for the threshold and reads no other. *)
(***************************************************************************)
EXTENDS Integers, FiniteSets, Sequences

CONSTANTS
    Kinds,         \* of "evm" and "svm"
    Oracles,
    MAX_ORACLES,
    Provers,
    Strangers,     \* callers who prove nothing
    Admin,         \* the owner, or authority of the pool's configuration
    PublicInputs,  \* lists of public inputs that some proof is accepted with
    Thresholds,
    Durations,     \* proof expiries an admin may set
    MaxTime        \* bound: block times

ASSUME ComplianceAssumption ==
    /\ Kinds \subseteq {"evm", "svm"}
    /\ MAX_ORACLES \in Nat
    /\ Thresholds \subseteq Nat
    /\ PublicInputs \subseteq Seq(Nat)
    /\ Durations \subseteq Nat \ {0}
    /\ MaxTime \in Nat \ {0}
    /\ Admin \notin Provers

Callers == Provers \cup Strangers \cup {Admin}

VARIABLES
    kind,
    mode,
    authorities,          \* of all configurations that the code serves
    oracleCount,
    oracles,              \* per oracle: registered, isActive
    proofExpirySeconds,
    attestations,         \* per prover
    now,                  \* block.timestamp
    lastProof             \* history: per prover, the proof that was accepted last

oracleVars == <<oracleCount, oracles>>
configVars == <<kind, mode, authorities, proofExpirySeconds>>
vars == <<configVars, oracleVars, attestations, now, lastProof>>

-----------------------------------------------------------------------------
NoAttestation ==
    [threshold |-> 0, attestedAt |-> 0, isValid |-> FALSE, expiry |-> 0]

NoProof == [inputs |-> <<>>, at |-> 0, duration |-> 0]

Init ==
    /\ kind \in Kinds
    /\ mode \in {"Permissionless", "OptionalDisclosure"}
    /\ authorities = {Admin}
    /\ oracleCount = 0
    /\ oracles = [o \in Oracles |-> [registered |-> FALSE, isActive |-> FALSE]]
    /\ proofExpirySeconds \in Durations
    /\ attestations = [p \in Provers |-> NoAttestation]
    /\ now = 1
    /\ lastProof = [p \in Provers |-> NoProof]

\* The program's accounts are created by the instruction that fills them.
MayCreate(exists) == kind = "svm" => ~exists

\* Anybody initializes a configuration for a pool that has none and becomes its
\* authority.  The contract serves one pool.
InitializeAnother(caller) ==
    /\ kind = "svm"
    /\ authorities' = authorities \cup {caller}
    /\ UNCHANGED <<kind, mode, proofExpirySeconds, oracleVars, attestations, now,
                   lastProof>>

-----------------------------------------------------------------------------
(* Oracles.                                                                *)

\* The contract writes over what it has: a deactivated oracle comes back, or
\* permissions change, by registering again.
RegisterOracle(o) ==
    /\ oracleCount < MAX_ORACLES
    /\ MayCreate(oracles[o].registered)
    /\ oracles' = [oracles EXCEPT ![o] = [registered |-> TRUE, isActive |-> TRUE]]
    /\ oracleCount' = oracleCount + 1
    /\ UNCHANGED <<configVars, attestations, now, lastProof>>

\* Mutant: the place of a deactivated oracle becomes free.
DeactivateOracleFrees(o) ==
    /\ oracles' = [oracles EXCEPT ![o].isActive = FALSE]
    /\ oracleCount' = IF oracleCount = 0 THEN 0 ELSE oracleCount - 1
    /\ UNCHANGED <<configVars, attestations, now, lastProof>>

\* May be called twice and, on the contract, for an address that is no oracle; on
\* the program, by the authority of any configuration.
DeactivateOracle(o) ==
    /\ kind = "svm" => oracles[o].registered
    /\ oracles' = [oracles EXCEPT ![o].isActive = FALSE]
    /\ UNCHANGED <<configVars, oracleCount, attestations, now, lastProof>>

-----------------------------------------------------------------------------
(* Wealth attestations.                                                    *)

Attest(p, t, inputs) ==
    /\ attestations' =
          [attestations EXCEPT
             ![p] = [threshold |-> t,
                     attestedAt |-> now,
                     isValid |-> TRUE,
                     expiry |-> now + proofExpirySeconds]]
    /\ lastProof' = [lastProof EXCEPT
                       ![p] = [inputs |-> inputs,
                               at |-> now,
                               duration |-> proofExpirySeconds]]
    /\ UNCHANGED <<configVars, oracleVars, now>>

\* The verifier takes a proof with the inputs: the contract's has the circuit's
\* key, with three of them; the program's has whatever key the caller passes.
VerifierAccepts(inputs) == kind = "evm" => Len(inputs) = 3

\* Mutant: the threshold is not compared with the proof.
SubmitWealthProofUnbound(p, t, inputs) ==
    /\ mode # "Permissionless"
    /\ VerifierAccepts(inputs)
    /\ MayCreate(attestations[p] # NoAttestation)
    /\ Attest(p, t, inputs)

\* The first public input, if there is one, must be the threshold; whose proof
\* it is and against which root is not asked.
SubmitWealthProof(p, t, inputs) ==
    /\ mode # "Permissionless"
    /\ VerifierAccepts(inputs)
    /\ inputs # <<>> => inputs[1] = t
    /\ MayCreate(attestations[p] # NoAttestation)
    /\ Attest(p, t, inputs)

Expired(p) == now > attestations[p].expiry

\* The program compares the caller with the authority of a configuration that
\* the caller names.
MayInvalidate(caller, p) ==
    caller = p \/ caller \in authorities \/ Expired(p)

InvalidateWealthProof(caller, p) ==
    /\ MayInvalidate(caller, p)
    /\ kind = "svm" => attestations[p] # NoAttestation
    /\ attestations' = [attestations EXCEPT ![p].isValid = FALSE]
    /\ UNCHANGED <<configVars, oracleVars, now, lastProof>>

\* Mutant: the expiry follows the current duration.
ValidatesByDuration(p) ==
    /\ attestations[p].isValid
    /\ now <= attestations[p].attestedAt + proofExpirySeconds

\* validateWealthProof() returns the threshold, and does not revert.
Validates(p) ==
    /\ attestations[p].isValid
    /\ now <= attestations[p].expiry

UpdateProofExpiry(d) ==
    /\ proofExpirySeconds' = d
    /\ UNCHANGED <<kind, mode, authorities, oracleVars, attestations, now, lastProof>>

\* The next block.
Tick ==
    /\ now < MaxTime
    /\ now' = now + 1
    /\ UNCHANGED <<configVars, oracleVars, attestations, lastProof>>

Next ==
    \/ \E o \in Oracles : RegisterOracle(o) \/ DeactivateOracle(o)
    \/ \E p \in Provers :
          \/ \E t \in Thresholds, inputs \in PublicInputs :
                SubmitWealthProof(p, t, inputs)
          \/ \E caller \in Callers : InvalidateWealthProof(caller, p)
    \/ \E caller \in Callers : InitializeAnother(caller)
    \/ \E d \in Durations : UpdateProofExpiry(d)
    \/ Tick

Spec == Init /\ [][Next]_vars

-----------------------------------------------------------------------------
Times == 0 .. MaxTime

\* Types; the count never passes the size of the register.
TypeOK ==
    /\ kind \in Kinds
    /\ mode \in {"Permissionless", "OptionalDisclosure"}
    /\ authorities \subseteq Callers
    /\ oracleCount \in 0 .. MAX_ORACLES
    /\ oracles \in [Oracles -> [registered : BOOLEAN, isActive : BOOLEAN]]
    /\ proofExpirySeconds \in Durations
    /\ attestations \in [Provers -> [threshold : Thresholds \cup {0},
                                      attestedAt : Times,
                                      isValid : BOOLEAN,
                                      expiry : Nat]]
    /\ now \in Times
    /\ lastProof \in [Provers -> [inputs : PublicInputs \cup {<<>>},
                                   at : Times,
                                   duration : Durations \cup {0}]]

\* At most MAX_ORACLES oracles are active, whatever is registered, deactivated,
\* deactivated twice and registered again.
ActiveWithinLimit ==
    Cardinality({o \in Oracles : oracles[o].isActive}) <= MAX_ORACLES

\* A threshold that validateWealthProof() returns is the first public input of
\* the last proof that the verifier accepted from the prover, unless that proof
\* had none, which the contract does not accept; and the proof is no older than
\* proofs were to last when it was submitted, whatever the admin has set since.
ValidatedWasAccepted ==
    \A p \in Provers :
        Validates(p) =>
            /\ \/ /\ lastProof[p].inputs # <<>>
                  /\ lastProof[p].inputs[1] = attestations[p].threshold
               \/ lastProof[p].inputs = <<>> /\ kind = "svm"
            /\ now - lastProof[p].at <= lastProof[p].duration

\* An attestation that has expired or was invalidated never comes back to
\* life: only a new proof of the prover makes one.
LapsedStaysLapsed ==
    [][\A p \in Provers :
          (~Validates(p) /\ Validates(p)') =>
              \E t \in Thresholds, inputs \in PublicInputs :
                  SubmitWealthProof(p, t, inputs)]_vars

\* While the contract's validateWealthProof() accepts an attestation, to its last
\* moment, only its prover or the owner can take it back: whom
\* invalidateWealthProof() lets sweep expired ones never meets one that still
\* counts.  (On the program, whoever has a configuration can take it back.)
OthersCannotEnd ==
    kind = "evm" =>
        \A p \in Provers, caller \in Callers :
            (Validates(p) /\ MayInvalidate(caller, p)) => caller \in {p, Admin}

\* What a verifier of attestations may conclude, and who can take an attestation
\* away that still counts: the types, and the two facts above.
AttestationsInv == TypeOK /\ ValidatedWasAccepted /\ OthersCannotEnd

=============================================================================
